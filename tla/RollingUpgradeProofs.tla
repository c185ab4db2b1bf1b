------------------------ MODULE RollingUpgradeProofs ------------------------
(***************************************************************************)
(* The rolling upgrade keeps its promises for every cluster, every version, *)
(* every number of runs and of failures.                                   *)
(*                                                                         *)
(* The argument has two parts.  The first is about data: the list the      *)
(* upgrade goes through names every machine once, the control plane first. *)
(* It needs induction over the caller's list, which NatInduction gives for *)
(* a set in the place of a predicate.  The second is the inductive         *)
(* invariant UpgradeInv: what the machines the run has passed, the one it  *)
(* is at and the ones it has still to come to have installed.              *)
(***************************************************************************)
EXTENDS RollingUpgrade, FiniteSetTheorems, WellFoundedInduction, TLAPS

-----------------------------------------------------------------------------
(* The inductive invariant.                                                *)

\* upgradeNode is at a machine.
Active == at \notin {"idle", "next"}

Done == {ordered[j] : j \in 1 .. i - 1}

\* The loop: where it may be, what it has counted, and what it returns there.
LoopFits ==
  /\ Active => i <= Len(ordered)
  /\ outcome # "none" => at = "idle"
  /\ outcome = "upgraded" => i > Len(ordered)
  /\ outcome = "failed" => i <= Len(ordered)
  /\ completed = i - 1
  /\ failed = IF outcome = "failed" THEN 1 ELSE 0

\* No upgrade changes the role of a machine.
RolesKept == \A n \in Nodes : machine[n].role = Role[n] /\ machine[n].node = TRUE

Base == TypeOK /\ LoopFits /\ RolesKept

\* The result lists the machines passed, and the one that failed.
ResultFits ==
  /\ \A j \in 1 .. i - 1 : nodes[j] = <<ordered[j], TRUE>>
  /\ IF outcome = "failed"
       THEN Len(nodes) = i /\ nodes[i] = <<ordered[i], FALSE>>
       ELSE Len(nodes) = i - 1

\* A machine of a cluster of distribution d between any two scripts of any runs,
\* the last of which goes to version v.
Fits(d, m, v) ==
  /\ m.tool <= v
  /\ IF m.role = "control-plane"
       THEN m.kubelet <= m.api /\ m.api <= m.tool
       ELSE m.kubelet <= m.tool /\ m.api = 0
  /\ d # "k0s" => m.up = TRUE

\* The number of scripts depends on the distribution alone.
ScriptCount(d) == IF d \in {"k3s", "talos"} THEN 1 ELSE 3

\* How far the scripts have brought a machine when script k is next and each has
\* had its effect.
Reached(d, k, m, v) ==
  /\ d = "k0s" /\ k >= 3 => m.tool = v
  /\ d = "kubeadm" /\ k >= 2 => m.tool = v
  /\ d = "kubeadm" /\ k >= 3 => m.role = "control-plane" /\ m.api = v
  /\ k > ScriptCount(d) =>
       \/ RunsAt(m, v, m.role)
       \/ d = "k3s" /\ m.role = "worker" /\ m.up = TRUE /\ m.tool = v /\ m.own = TRUE

MachinesFit ==
  /\ \A n \in Nodes : Fits(distro, machine[n], toVersion)
  /\ \A n \in Done : Upgraded(n)

\* The machine upgradeNode is at.
NodeFits ==
  /\ at \in {"list", "evict"} => script = 1 /\ missed = FALSE
  /\ at = "scripts" /\ (missed = FALSE \/ distro = "kubeadm") =>
       Reached(distro, script, machine[node], toVersion)
  /\ at = "scripts" /\ script > ScriptCount(distro) => machine[node].up = TRUE
  /\ at \in {"uncordon", "ready"} => machine[node].up = TRUE /\ Upgraded(node)
  /\ at = "ready" => node \notin cordoned

NodesFit ==
  /\ MachinesFit
  /\ \A n \in Done : n \notin cordoned
  /\ NodeFits

\* A worker has the version its control plane had before the run until the whole
\* control plane has been upgraded, as far as its scripts have had their effect.
WorkersFit ==
  \A w \in Nodes, c \in Nodes \ hollow :
    Is(w, "worker") /\ Is(c, "control-plane") => machine[w].kubelet <= machine[c].api

\* The pods of the machine upgradeNode is at.
PodsFit ==
  /\ at \in {"list", "evict", "scripts"} => node \in cordoned
  /\ at \in {"evict", "scripts"} /\ ~opts.force =>
       \A p \in Pods : podNode[p] = node /\ Kind[p] = "plain" =>
         p \in terminating \/ (at = "evict" /\ p \in pods)

UpgradeInv ==
  Base /\ ResultFits /\ NodesFit /\ WorkersFit /\ PodsFit /\ OnlyFailuresStayOut
-----------------------------------------------------------------------------
(* The order of the upgrade.                                               *)

\* Induction over the natural numbers, with a set in the place of a predicate.
LEMMA NatInductionOnSets ==
  ASSUME NEW T, 0 \in T, \A n \in Nat : n \in T => n + 1 \in T
  PROVE  Nat \subseteq T
<1> DEFINE R == {ss \in Nat \X Nat : ss[1] < ss[2]}
<1>1. IsWellFoundedOn(R, Nat)
  BY ONLY NatLessThanWellFounded, Zenon DEF OpToRel
<1>2. ASSUME Nat \ T # {} PROVE FALSE
  <2>1. PICK n \in Nat \ T : \A m \in Nat \ T : <<m, n>> \notin R
    <3> HIDE DEF R
    <3> QED BY <1>1, <1>2, WFMin
  <2>2. n # 0 /\ n - 1 \in Nat
    BY <2>1
  <2>3. n - 1 \notin T
    BY <2>1, <2>2
  <2>4. <<n - 1, n>> \in R
    BY <2>2
  <2> QED BY <2>1, <2>2, <2>3, <2>4
<1> QED BY <1>2

\* The loop that collects the chosen machines, as a function of how far it is.
Collected(ms, chosen) ==
  CHOOSE f : f = [k \in 0 .. Len(ms) |->
    IF k = 0 THEN << >>
    ELSE IF ms[k] \in chosen THEN Append(f[k - 1], ms[k]) ELSE f[k - 1]]

LEMMA KeptIsCollected ==
  ASSUME NEW ms, NEW chosen
  PROVE  Kept(ms, chosen) = Collected(ms, chosen)[Len(ms)]
BY DEF Kept, Collected

\* There is such a function.
LEMMA CollectedExists ==
  ASSUME NEW S, NEW ms \in Seq(S), NEW chosen
  PROVE  LET f == Collected(ms, chosen) IN
         /\ f[0] = << >>
         /\ \A k \in 1 .. Len(ms) :
              f[k] = IF ms[k] \in chosen THEN Append(f[k - 1], ms[k]) ELSE f[k - 1]
<1> DEFINE Body(f, k) == IF k = 0 THEN << >>
                         ELSE IF ms[k] \in chosen THEN Append(f[k - 1], ms[k]) ELSE f[k - 1]
           T == {n \in Nat : \E f : f = [k \in 0 .. n |-> Body(f, k)]}
<1>1. 0 \in T
  <2>1. [k \in 0 .. 0 |-> << >>] = [k \in 0 .. 0 |-> Body([j \in 0 .. 0 |-> << >>], k)]
    OBVIOUS
  <2> QED BY <2>1
<1>2. ASSUME NEW n \in Nat, n \in T PROVE n + 1 \in T
  <2>1. PICK f : f = [k \in 0 .. n |-> Body(f, k)]
    BY <1>2
  <2> DEFINE g == [k \in 0 .. n + 1 |-> IF k <= n THEN f[k] ELSE Body(f, k)]
  <2>2. \A k \in 0 .. n + 1 : k # 0 => k - 1 \in 0 .. n /\ g[k - 1] = f[k - 1]
    OBVIOUS
  <2>3. \A k \in 0 .. n + 1 : Body(g, k) = Body(f, k)
    <3> HIDE DEF g
    <3> QED BY <2>2
  <2>4. \A k \in 0 .. n + 1 : g[k] = Body(f, k)
    <3>1. \A k \in 0 .. n : f[k] = Body(f, k)
      <4> HIDE DEF Body
      <4> QED BY <2>1, Zenon
    <3> HIDE DEF Body
    <3> QED BY <3>1
  <2>5. g = [k \in 0 .. n + 1 |-> Body(g, k)]
    <3>1. g = [k \in 0 .. n + 1 |-> g[k]]
      OBVIOUS
    <3> HIDE DEF g, Body
    <3> QED BY <2>3, <2>4, <3>1
  <2> HIDE DEF g, Body
  <2> QED BY <2>5
<1>3. Len(ms) \in T
  <2> HIDE DEF T
  <2> QED BY <1>1, <1>2, NatInductionOnSets
<1>4. \E f : f = [k \in 0 .. Len(ms) |-> Body(f, k)]
  <2> HIDE DEF Body
  <2> QED BY <1>3
<1> DEFINE f == Collected(ms, chosen)
<1>5. f = [k \in 0 .. Len(ms) |-> Body(f, k)]
  BY <1>4 DEF Collected
<1> HIDE DEF f
<1>6. \A k \in 0 .. Len(ms) : f[k] = Body(f, k)
  <2> HIDE DEF Body
  <2> QED BY <1>5, Zenon
<1> QED BY <1>6 DEF f

\* The loop keeps each chosen machine once, and no other.
LEMMA KeptProperties ==
  ASSUME NEW S, NEW ms \in Seq(S), IsInjective(ms), NEW chosen
  PROVE  LET kept == Kept(ms, chosen) IN
         /\ kept \in Seq(S \cap chosen)
         /\ IsInjective(kept)
         /\ \A j \in DOMAIN ms : ms[j] \in chosen => \E k \in DOMAIN kept : kept[k] = ms[j]
<1> DEFINE f == Collected(ms, chosen)
           Good(n) == /\ f[n] \in Seq(S \cap chosen)
                      /\ \A k \in DOMAIN f[n] : \E j \in 1 .. n : f[n][k] = ms[j]
                      /\ \A a, b \in DOMAIN f[n] : f[n][a] = f[n][b] => a = b
                      /\ \A j \in 1 .. n :
                           ms[j] \in chosen => \E k \in DOMAIN f[n] : f[n][k] = ms[j]
           T == {n \in Nat : n <= Len(ms) => Good(n)}
<1>0. /\ f[0] = << >>
      /\ \A k \in 1 .. Len(ms) :
           f[k] = IF ms[k] \in chosen THEN Append(f[k - 1], ms[k]) ELSE f[k - 1]
  BY CollectedExists
<1> HIDE DEF f
<1>1. 0 \in T
  <2>1. f[0] = << >> /\ << >> \in Seq(S \cap chosen) /\ DOMAIN f[0] = {} /\ 1 .. 0 = {}
    BY <1>0
  <2>2. Good(0)
    BY <2>1
  <2> HIDE DEF Good
  <2> QED BY <2>2
<1>2. ASSUME NEW n \in Nat, n \in T PROVE n + 1 \in T
  <2> SUFFICES ASSUME n + 1 <= Len(ms) PROVE Good(n + 1)
    OBVIOUS
  <2>1. Good(n) /\ n + 1 \in 1 .. Len(ms) /\ (n + 1) - 1 = n
    BY <1>2
  <2> DEFINE old == f[n]
             new == f[n + 1]
             m == ms[n + 1]
  <2>2. m \in S /\ DOMAIN ms = 1 .. Len(ms)
    BY <2>1
  <2>3. CASE m \notin chosen
    <3>1. f[n + 1] = f[n]
      BY <1>0, <2>1, <2>3
    <3> QED BY <2>1, <2>3, <3>1
  <2>4. CASE m \in chosen
    <3>1. new = Append(old, m)
      BY <1>0, <2>1, <2>4
    <3> HIDE DEF old, new, m
    <3>2. old \in Seq(S \cap chosen) /\ m \in S \cap chosen
      BY <2>1, <2>2, <2>4 DEF old
    <3>3. /\ new \in Seq(S \cap chosen)
          /\ DOMAIN old = 1 .. Len(old) /\ DOMAIN new = 1 .. Len(old) + 1 /\ Len(old) \in Nat
          /\ \A k \in 1 .. Len(old) : new[k] = old[k]
          /\ new[Len(old) + 1] = m
      BY <3>1, <3>2
    <3>4. \A k \in DOMAIN old : old[k] # m
      <4>1. \A j \in 1 .. n : ms[j] # m
        BY <2>1, <2>2 DEF IsInjective, m
      <4> QED BY <2>1, <4>1 DEF old
    <3>5. \A k \in DOMAIN new : \E j \in 1 .. n + 1 : new[k] = ms[j]
      <4>1. \A k \in DOMAIN old : \E j \in 1 .. n : old[k] = ms[j]
        BY <2>1 DEF old
      <4> QED BY <3>3, <4>1 DEF m
    <3>6. \A a, b \in DOMAIN new : new[a] = new[b] => a = b
      <4>1. \A a, b \in DOMAIN old : old[a] = old[b] => a = b
        BY <2>1 DEF old
      <4> QED BY <3>3, <3>4, <4>1
    <3>7. \A j \in 1 .. n + 1 : ms[j] \in chosen => \E k \in DOMAIN new : new[k] = ms[j]
      <4>1. \A j \in 1 .. n : ms[j] \in chosen => \E k \in DOMAIN old : old[k] = ms[j]
        BY <2>1 DEF old
      <4>2. \A j \in 1 .. n + 1 : j \in 1 .. n \/ j = n + 1
        OBVIOUS
      <4> QED BY <3>3, <4>1, <4>2 DEF m
    <3> QED BY <3>3, <3>5, <3>6, <3>7 DEF new
  <2> QED BY <2>3, <2>4
<1>3. Len(ms) \in T /\ Len(ms) \in Nat /\ DOMAIN ms = 1 .. Len(ms)
  <2>1. Nat \subseteq T
    <3> HIDE DEF T
    <3> QED BY <1>1, <1>2, NatInductionOnSets
  <2> QED BY <2>1
<1>4. Good(Len(ms))
  BY <1>3
<1>5. Kept(ms, chosen) = f[Len(ms)]
  BY KeptIsCollected DEF f
<1> QED BY <1>3, <1>4, <1>5 DEF IsInjective

\* The upgrade goes through every machine once, the control plane first.
LEMMA OrderOfUpgrade ==
  /\ ordered \in Seq(Nodes)
  /\ IsInjective(ordered)
  /\ \A n \in Nodes : \E j \in 1 .. Len(ordered) : ordered[j] = n
  /\ \A j, k \in 1 .. Len(ordered) :
       j < k /\ ordered[k] \in ControlPlanes => ordered[j] \in ControlPlanes
<1> DEFINE cp == Kept(Machines, ControlPlanes)
           others == Kept(Machines, Nodes \ ControlPlanes)
<1>0. Machines \in Seq(Nodes) /\ IsInjective(Machines) /\ ControlPlanes \subseteq Nodes
  BY MachinesAssumption DEF ControlPlanes
<1>1. /\ cp \in Seq(Nodes \cap ControlPlanes)
      /\ IsInjective(cp)
      /\ \A j \in DOMAIN Machines :
           Machines[j] \in ControlPlanes => \E k \in DOMAIN cp : cp[k] = Machines[j]
  <2> HIDE DEF cp
  <2> QED BY <1>0, KeptProperties DEF cp
<1>2. /\ others \in Seq(Nodes \cap (Nodes \ ControlPlanes))
      /\ IsInjective(others)
      /\ \A j \in DOMAIN Machines :
           Machines[j] \in Nodes \ ControlPlanes =>
             \E k \in DOMAIN others : others[k] = Machines[j]
  <2> DEFINE rest == Nodes \ ControlPlanes
  <2> HIDE DEF others, rest
  <2>1. others = Kept(Machines, rest)
    BY DEF others, rest
  <2>2. LET kept == Kept(Machines, rest) IN
        /\ kept \in Seq(Nodes \cap rest)
        /\ IsInjective(kept)
        /\ \A j \in DOMAIN Machines :
             Machines[j] \in rest => \E k \in DOMAIN kept : kept[k] = Machines[j]
    BY <1>0, KeptProperties
  <2> QED BY <2>1, <2>2 DEF rest
<1>3. ordered = cp \o others
  BY DEF ordered
<1> HIDE DEF cp, others
<1>4. cp \in Seq(ControlPlanes) /\ others \in Seq(Nodes \ ControlPlanes)
  BY <1>0, <1>1, <1>2
<1>5. cp \in Seq(Nodes) /\ others \in Seq(Nodes)
  BY <1>0, <1>4
<1>6. /\ ordered \in Seq(Nodes)
      /\ Len(ordered) = Len(cp) + Len(others) /\ Len(cp) \in Nat /\ Len(others) \in Nat
      /\ \A j \in 1 .. Len(cp) : ordered[j] = cp[j] /\ ordered[j] \in ControlPlanes
      /\ \A j \in Len(cp) + 1 .. Len(ordered) :
           /\ j - Len(cp) \in 1 .. Len(others)
           /\ ordered[j] = others[j - Len(cp)] /\ ordered[j] \in Nodes \ ControlPlanes
  BY <1>3, <1>4, <1>5
<1>7. IsInjective(ordered)
  <2> SUFFICES ASSUME NEW a \in 1 .. Len(ordered), NEW b \in 1 .. Len(ordered),
                      ordered[a] = ordered[b]
               PROVE  a = b
    BY <1>6 DEF IsInjective
  <2>1. CASE a <= Len(cp) /\ b <= Len(cp)
    BY <1>1, <1>4, <1>6, <2>1 DEF IsInjective
  <2>2. CASE a > Len(cp) /\ b > Len(cp)
    BY <1>2, <1>4, <1>6, <2>2 DEF IsInjective
  <2>3. CASE (a <= Len(cp)) # (b <= Len(cp))
    BY <1>6, <2>3
  <2> QED BY <1>6, <2>1, <2>2, <2>3
<1>8. ASSUME NEW n \in Nodes PROVE \E j \in 1 .. Len(ordered) : ordered[j] = n
  <2>1. PICK j \in DOMAIN Machines : Machines[j] = n
    BY DEF Nodes
  <2>2. CASE n \in ControlPlanes
    <3>1. PICK k \in 1 .. Len(cp) : cp[k] = n
      BY <1>1, <1>4, <2>1, <2>2
    <3> QED BY <1>6, <3>1
  <2>3. CASE n \notin ControlPlanes
    <3>1. PICK k \in 1 .. Len(others) : others[k] = n
      BY <1>2, <1>4, <2>1, <2>3
    <3>2. Len(cp) + k \in Len(cp) + 1 .. Len(ordered) /\ (Len(cp) + k) - Len(cp) = k
      BY <1>6
    <3> QED BY <1>6, <3>1, <3>2
  <2> QED BY <2>2, <2>3
<1>9. ASSUME NEW j \in 1 .. Len(ordered), NEW k \in 1 .. Len(ordered), j < k,
             ordered[k] \in ControlPlanes
      PROVE  ordered[j] \in ControlPlanes
  BY <1>6, <1>9
<1> QED BY <1>6, <1>7, <1>8, <1>9

-----------------------------------------------------------------------------
(* The scripts of an upgrade, and what they make of a machine.             *)

\* A machine that keeps its role, with the parts that matter to an upgrade.
Parts(x, m, tool, api, kubelet, up, own) ==
  /\ x \in Machine /\ x.role = m.role /\ x.node = TRUE
  /\ x.tool = tool /\ x.api = api /\ x.kubelet = kubelet /\ x.up = up /\ x.own = own

\* The parts a control plane has, and a worker has not.
OfRole(role, v) == IF role = "control-plane" THEN v ELSE 0

\* The updates the commands consist of.
LEMMA MachineUpdates ==
  ASSUME NEW m \in Machine, m.node = TRUE, NEW v \in Nat, NEW b \in BOOLEAN
  PROVE  /\ Parts([m EXCEPT !.up = b], m, m.tool, m.api, m.kubelet, b, m.own)
         /\ Parts([m EXCEPT !.tool = v], m, v, m.api, m.kubelet, m.up, m.own)
         /\ Parts([m EXCEPT !.api = v], m, m.tool, v, m.kubelet, m.up, m.own)
         /\ Parts([m EXCEPT !.kubelet = v], m, m.tool, m.api, v, m.up, m.own)
<1>1. Parts([m EXCEPT !.up = b], m, m.tool, m.api, m.kubelet, b, m.own)
  BY DEF Machine, Parts
<1>2. Parts([m EXCEPT !.tool = v], m, v, m.api, m.kubelet, m.up, m.own)
  BY DEF Machine, Parts
<1>3. Parts([m EXCEPT !.api = v], m, m.tool, v, m.kubelet, m.up, m.own)
  BY DEF Machine, Parts
<1>4. Parts([m EXCEPT !.kubelet = v], m, m.tool, m.api, v, m.up, m.own)
  BY DEF Machine, Parts
<1> QED BY <1>1, <1>2, <1>3, <1>4

LEMMA MachineTypes ==
  ASSUME NEW m \in Machine
  PROVE  /\ m.tool \in Nat /\ m.api \in Nat /\ m.kubelet \in Nat /\ m.up \in BOOLEAN
         /\ m.node \in BOOLEAN /\ m.own \in BOOLEAN
         /\ \A v \in Nat : OfRole(m.role, v) \in Nat
BY DEF Machine, OfRole

LEMMA StartedMachine ==
  ASSUME NEW m \in Machine, m.node = TRUE
  PROVE  Parts(Started(m), m, m.tool, OfRole(m.role, m.tool), m.tool, TRUE, m.own)
<1> DEFINE a == OfRole(m.role, m.tool)
           k == m.tool
<1>1. a \in Nat /\ k \in Nat
  BY MachineTypes
<1>2. Started(m) = [m EXCEPT !.up = TRUE, !.api = a, !.kubelet = k]
  BY DEF Started, OfRole
<1> HIDE DEF a, k
<1>3. Parts([m EXCEPT !.up = TRUE, !.api = a, !.kubelet = k], m, m.tool, a, k, TRUE, m.own)
  BY <1>1 DEF Parts, Machine
<1> QED BY <1>2, <1>3 DEF a, k

LEMMA StartedAt ==
  ASSUME NEW m \in Machine, m.node = TRUE, NEW v \in Nat
  PROVE  Parts(Started([m EXCEPT !.tool = v]), m, v, OfRole(m.role, v), v, TRUE, m.own)
<1> DEFINE n == [m EXCEPT !.tool = v]
<1>1. Parts(n, m, v, m.api, m.kubelet, m.up, m.own)
  BY MachineUpdates, MachineTypes
<1> HIDE DEF n
<1>2. n \in Machine /\ n.node = TRUE /\ n.tool = v /\ n.role = m.role /\ n.own = m.own
  BY <1>1 DEF Parts
<1>3. Parts(Started(n), n, n.tool, OfRole(n.role, n.tool), n.tool, TRUE, n.own)
  BY <1>2, StartedMachine
<1> QED BY <1>2, <1>3 DEF Parts, n

\* The upgrade scripts of each distribution.
LEMMA UpgradeScripts ==
  ASSUME NEW v
  PROVE  /\ Upgrade("k3s", v).scripts = <<InstallK3s(v, Untold)>>
         /\ Upgrade("talos", v).scripts = <<UpgradeTalos(v)>>
         /\ Upgrade("k0s", v).scripts = <<StopK0s, GetK0s(v), StartK0s>>
         /\ Upgrade("kubeadm", v).scripts =
              <<UpgradeKubeadm(v), ApplyUpgrade(v), UpgradeKubelet(v)>>
BY DEF Upgrade, K3sUpgrade, TalosUpgrade, K0sUpgrade, KubeadmUpgrade, Data

LEMMA ScriptsLen ==
  ASSUME NEW d \in Distros, NEW v
  PROVE  Len(Upgrade(d, v).scripts) = ScriptCount(d)
<1>1. \A a, b, c : Len(<<a>>) = 1 /\ Len(<<a, b, c>>) = 3
  OBVIOUS
<1>2. CASE d = "k3s" \/ d = "talos"
  <2>1. \E a : Upgrade(d, v).scripts = <<a>>
    BY <1>2, UpgradeScripts, Zenon
  <2> QED BY <1>1, <1>2, <2>1 DEF ScriptCount
<1>3. CASE d = "k0s" \/ d = "kubeadm"
  <2>1. \E a, b, c : Upgrade(d, v).scripts = <<a, b, c>>
    BY <1>3, UpgradeScripts, Zenon
  <2> QED BY <1>1, <1>3, <2>1 DEF ScriptCount
<1> QED BY <1>2, <1>3 DEF Distros

LEMMA ScriptOf ==
  ASSUME NEW d \in Distros, NEW v, NEW k \in 1 .. ScriptCount(d)
  PROVE  LET c == Upgrade(d, v).scripts[k] IN
         \/ d = "k3s" /\ k = 1 /\ c = InstallK3s(v, Untold)
         \/ d = "talos" /\ k = 1 /\ c = UpgradeTalos(v)
         \/ d = "k0s" /\ k = 1 /\ c = StopK0s
         \/ d = "k0s" /\ k = 2 /\ c = GetK0s(v)
         \/ d = "k0s" /\ k = 3 /\ c = StartK0s
         \/ d = "kubeadm" /\ k = 1 /\ c = UpgradeKubeadm(v)
         \/ d = "kubeadm" /\ k = 2 /\ c = ApplyUpgrade(v)
         \/ d = "kubeadm" /\ k = 3 /\ c = UpgradeKubelet(v)
<1>1. CASE d = "k3s"
  BY <1>1, UpgradeScripts DEF ScriptCount
<1>2. CASE d = "talos"
  BY <1>2, UpgradeScripts DEF ScriptCount
<1>3. CASE d = "k0s"
  <2>1. k = 1 \/ k = 2 \/ k = 3
    BY <1>3 DEF ScriptCount
  <2> QED BY <1>3, <2>1, UpgradeScripts
<1>4. CASE d = "kubeadm"
  <2>1. k = 1 \/ k = 2 \/ k = 3
    BY <1>4 DEF ScriptCount
  <2> QED BY <1>4, <2>1, UpgradeScripts
<1> QED BY <1>1, <1>2, <1>3, <1>4 DEF Distros

\* A script of an upgrade has its effect or changes nothing, whether it fails or
\* not.
LEMMA ScriptOutcomes ==
  ASSUME NEW d \in Distros, NEW v, NEW k \in 1 .. ScriptCount(d), NEW m
  PROVE  LET c == Upgrade(d, v).scripts[k] IN
         /\ After(c, m) \cup AfterFailure(c, m) \subseteq Effects(c, m) \cup {m}
         /\ d = "kubeadm" \/ k = 3 => After(c, m) \subseteq Effects(c, m)
<1> DEFINE c == Upgrade(d, v).scripts[k]
<1>0. \/ d = "k3s" /\ k = 1 /\ c = InstallK3s(v, Untold)
      \/ d = "talos" /\ k = 1 /\ c = UpgradeTalos(v)
      \/ d = "k0s" /\ k = 1 /\ c = StopK0s
      \/ d = "k0s" /\ k = 2 /\ c = GetK0s(v)
      \/ d = "k0s" /\ k = 3 /\ c = StartK0s
      \/ d = "kubeadm" /\ k = 1 /\ c = UpgradeKubeadm(v)
      \/ d = "kubeadm" /\ k = 2 /\ c = ApplyUpgrade(v)
      \/ d = "kubeadm" /\ k = 3 /\ c = UpgradeKubelet(v)
  BY ScriptOf
<1> HIDE DEF c
<1>1. c.do # "install-packages"
  BY <1>0 DEF InstallK3s, UpgradeTalos, StopK0s, GetK0s, StartK0s, UpgradeKubeadm,
                  ApplyUpgrade, UpgradeKubelet
<1>4. d = "kubeadm" \/ k = 3 => c.do \notin {"install-k3s", "get-k0s"}
  BY <1>0 DEF InstallK3s, UpgradeTalos, StopK0s, GetK0s, StartK0s, UpgradeKubeadm,
                  ApplyUpgrade, UpgradeKubelet
<1>5. d = "kubeadm" \/ k = 3 => After(c, m) \subseteq Effects(c, m)
  BY <1>1, <1>4 DEF After, Refused
<1>2. After(c, m) \subseteq Effects(c, m) \cup {m}
  BY <1>1 DEF After, Refused
<1>3. AfterFailure(c, m) \subseteq Effects(c, m) \cup {m}
  BY <1>1 DEF AfterFailure
<1> QED BY <1>2, <1>3, <1>5 DEF c

\* The effect keeps the role of the machine.
LEMMA EffectKeepsRole ==
  ASSUME NEW d \in Distros, NEW v \in Nat, NEW k \in 1 .. ScriptCount(d),
         NEW m \in Machine, m.node = TRUE, m.role \in MachineRoles,
         NEW x \in Effects(Upgrade(d, v).scripts[k], m)
  PROVE  x \in Machine /\ x.role = m.role /\ x.node = TRUE
<1> DEFINE c == Upgrade(d, v).scripts[k]
<1>0. m.tool \in Nat /\ m.kubelet \in Nat
  BY MachineTypes
<1>1. CASE c = InstallK3s(v, Untold)
  <2>1. x \in K3sInstalled(InstallK3s(v, Untold), m)
    BY <1>1 DEF Effects, InstallK3s
  <2>2. CASE m.role = "control-plane"
    <3>1. x = Started([m EXCEPT !.tool = v])
      BY <2>1, <2>2 DEF K3sInstalled, InstallK3s
    <3> QED BY <3>1, StartedAt DEF Parts
  <2>3. CASE m.role = "worker"
    <3>1. PICK u \in {m.kubelet, v} : x = [m EXCEPT !.tool = v, !.own = TRUE, !.kubelet = u]
      BY <2>1, <2>3 DEF K3sInstalled, InstallK3s
    <3>2. u \in Nat
      BY <1>0
    <3> QED BY <3>1, <3>2 DEF Machine
  <2> QED BY <2>2, <2>3 DEF MachineRoles
<1>2. CASE c = UpgradeTalos(v)
  <2>1. x = Started([m EXCEPT !.tool = v])
    BY <1>2 DEF Effects, UpgradeTalos
  <2> QED BY <2>1, StartedAt DEF Parts
<1>3. CASE c = StopK0s
  <2>1. x = [m EXCEPT !.up = FALSE]
    BY <1>3 DEF Effects, StopK0s
  <2>2. Parts(x, m, m.tool, m.api, m.kubelet, FALSE, m.own)
    BY <1>0, <2>1, MachineUpdates
  <2> QED BY <2>2 DEF Parts
<1>4. CASE c = GetK0s(v) \/ c = UpgradeKubeadm(v)
  <2>1. x = [m EXCEPT !.tool = v]
    BY <1>4 DEF Effects, GetK0s, UpgradeKubeadm
  <2>2. Parts(x, m, v, m.api, m.kubelet, m.up, m.own)
    BY <1>0, <2>1, MachineUpdates
  <2> QED BY <2>2 DEF Parts
<1>5. CASE c = StartK0s
  <2>1. x = Started(m)
    BY <1>5 DEF Effects, StartK0s
  <2> QED BY <2>1, StartedMachine DEF Parts
<1>6. CASE c = ApplyUpgrade(v)
  <2>1. x = [m EXCEPT !.api = v]
    BY <1>6 DEF Effects, ApplyUpgrade
  <2>2. Parts(x, m, m.tool, v, m.kubelet, m.up, m.own)
    BY <1>0, <2>1, MachineUpdates
  <2> QED BY <2>2 DEF Parts
<1>7. CASE c = UpgradeKubelet(v)
  <2>1. x = [m EXCEPT !.kubelet = v]
    BY <1>7 DEF Effects, UpgradeKubelet
  <2>2. Parts(x, m, m.tool, m.api, v, m.up, m.own)
    BY <1>0, <2>1, MachineUpdates
  <2> QED BY <2>2 DEF Parts
<1> QED BY <1>1, <1>2, <1>3, <1>4, <1>5, <1>6, <1>7, ScriptOf

\* The machine keeps its role, fits the version, and its API server does not go
\* back.
StepFits(d, m, x, v) ==
  /\ x \in Machine /\ x.role = m.role /\ x.node = TRUE
  /\ Fits(d, x, v)
  /\ m.role = "control-plane" => m.api <= x.api

\* Script k has done its part.
StepReaches(d, k, m, x, v) ==
  /\ k + 1 > ScriptCount(d) => x.up = TRUE
  /\ Reached(d, k, m, v) => Reached(d, k + 1, x, v)

LEMMA StayFits ==
  ASSUME NEW d, NEW v, NEW m \in Machine, m.node = TRUE, Fits(d, m, v)
  PROVE  StepFits(d, m, m, v)
BY MachineTypes DEF StepFits

\* The effect of a script that brings all of a machine to the version.
LEMMA AllAtVersion ==
  ASSUME NEW d, NEW k, NEW v \in Nat, NEW m \in Machine, NEW x, NEW o,
         m.role \in MachineRoles, Fits(d, m, v),
         Parts(x, m, v, OfRole(m.role, v), v, TRUE, o)
  PROVE  StepFits(d, m, x, v) /\ x.up = TRUE /\ RunsAt(x, v, x.role)
<1>1. /\ x \in Machine /\ x.role = m.role /\ x.node = TRUE /\ x.tool = v /\ x.kubelet = v
      /\ x.api = OfRole(m.role, v) /\ x.up = TRUE
  BY DEF Parts
<1>2. RunsAt(x, v, x.role)
  BY <1>1 DEF RunsAt, OfRole
<1>3. m.role = "control-plane" => m.api <= x.api
  <2>1. m.role = "control-plane" => m.api <= m.tool /\ m.tool <= v
    BY DEF Fits
  <2>2. m.tool \in Nat /\ m.api \in Nat
    BY MachineTypes
  <2> QED BY <1>1, <2>1, <2>2 DEF OfRole
<1>4. Fits(d, x, v)
  BY <1>1 DEF Fits, OfRole
<1> QED BY <1>1, <1>2, <1>3, <1>4 DEF StepFits

LEMMA K3sStep ==
  ASSUME NEW v \in Nat, NEW m \in Machine, m.node = TRUE, m.role \in MachineRoles,
         Fits("k3s", m, v), NEW x \in Effects(InstallK3s(v, Untold), m)
  PROVE  StepFits("k3s", m, x, v) /\ x.up = TRUE /\ Reached("k3s", 2, x, v)
<1>1. x \in K3sInstalled(InstallK3s(v, Untold), m)
  BY DEF Effects, InstallK3s
<1>2. CASE m.role = "control-plane"
  <2>1. x = Started([m EXCEPT !.tool = v])
    BY <1>1, <1>2 DEF K3sInstalled, InstallK3s
  <2>2. Parts(x, m, v, OfRole(m.role, v), v, TRUE, m.own)
    BY <2>1, StartedAt
  <2>3. StepFits("k3s", m, x, v) /\ x.up = TRUE /\ RunsAt(x, v, x.role)
    BY <2>2, AllAtVersion
  <2> QED BY <2>3 DEF Reached
<1>3. CASE m.role = "worker"
  <2>1. PICK u \in {m.kubelet, v} : x = [m EXCEPT !.tool = v, !.own = TRUE, !.kubelet = u]
    BY <1>1, <1>3 DEF K3sInstalled, InstallK3s
  <2>2. u \in Nat
    BY MachineTypes
  <2>3. Parts([m EXCEPT !.tool = v, !.own = TRUE, !.kubelet = u], m, v, m.api, u, m.up, TRUE)
    BY <2>2 DEF Parts, Machine
  <2>4. /\ x \in Machine /\ x.role = "worker" /\ x.node = TRUE /\ x.tool = v
        /\ x.kubelet = u /\ x.api = m.api /\ x.up = m.up /\ x.own = TRUE
    BY <1>3, <2>1, <2>3 DEF Parts
  <2>5. /\ m.up = TRUE /\ m.api = 0 /\ m.kubelet <= m.tool /\ m.tool <= v
        /\ m.kubelet \in Nat /\ m.tool \in Nat
    BY <1>3, MachineTypes DEF Fits
  <2>6. u <= v
    BY <2>5
  <2>7. Fits("k3s", x, v)
    BY <2>4, <2>5, <2>6 DEF Fits
  <2>8. Reached("k3s", 2, x, v)
    BY <2>4, <2>5 DEF Reached
  <2> QED BY <1>3, <2>4, <2>5, <2>7, <2>8 DEF StepFits
<1> QED BY <1>2, <1>3 DEF MachineRoles

LEMMA TalosStep ==
  ASSUME NEW v \in Nat, NEW m \in Machine, m.node = TRUE, m.role \in MachineRoles,
         Fits("talos", m, v), NEW x \in Effects(UpgradeTalos(v), m)
  PROVE  StepFits("talos", m, x, v) /\ x.up = TRUE /\ Reached("talos", 2, x, v)
<1>1. x = Started([m EXCEPT !.tool = v])
  BY DEF Effects, UpgradeTalos
<1>2. Parts(x, m, v, OfRole(m.role, v), v, TRUE, m.own)
  BY <1>1, StartedAt
<1>3. StepFits("talos", m, x, v) /\ x.up = TRUE /\ RunsAt(x, v, x.role)
  BY <1>2, AllAtVersion
<1> QED BY <1>3 DEF Reached

\* A script of k0s or kubeadm that changes the version of one part, or the state
\* of the services of k0s.
LEMMA PartStep ==
  ASSUME NEW d, NEW v \in Nat, NEW m \in Machine, Fits(d, m, v),
         NEW x, NEW t \in Nat, NEW a \in Nat, NEW l \in Nat, NEW u \in BOOLEAN,
         Parts(x, m, t, a, l, u, m.own),
         t <= v, m.tool <= t, l <= t, a <= t,
         m.role = "control-plane" => l <= a /\ m.api <= a,
         m.role # "control-plane" => a = 0,
         d # "k0s" => u = TRUE
  PROVE  StepFits(d, m, x, v)
<1>1. /\ x \in Machine /\ x.role = m.role /\ x.node = TRUE /\ x.tool = t /\ x.api = a
      /\ x.kubelet = l /\ x.up = u
  BY DEF Parts
<1>2. Fits(d, x, v)
  BY <1>1 DEF Fits
<1> QED BY <1>1, <1>2 DEF StepFits

LEMMA FitsFacts ==
  ASSUME NEW d, NEW v \in Nat, NEW m \in Machine, Fits(d, m, v)
  PROVE  /\ m.tool <= v /\ m.kubelet <= m.tool /\ m.api <= m.tool
         /\ m.role = "control-plane" => m.kubelet <= m.api
         /\ m.role # "control-plane" => m.api = 0
         /\ d # "k0s" => m.up = TRUE
BY MachineTypes DEF Fits

LEMMA K0sStep ==
  ASSUME NEW v \in Nat, NEW m \in Machine, m.node = TRUE, m.role \in MachineRoles,
         Fits("k0s", m, v), NEW k \in 1 .. 3,
         NEW x \in Effects(Upgrade("k0s", v).scripts[k], m)
  PROVE  /\ StepFits("k0s", m, x, v)
         /\ k + 1 > 3 => x.up = TRUE
         /\ Reached("k0s", k, m, v) => Reached("k0s", k + 1, x, v)
<1>0. /\ m.tool \in Nat /\ m.api \in Nat /\ m.kubelet \in Nat /\ m.up \in BOOLEAN
      /\ OfRole(m.role, m.tool) \in Nat
  BY MachineTypes
<1>1. /\ m.tool <= v /\ m.kubelet <= m.tool /\ m.api <= m.tool
      /\ m.role = "control-plane" => m.kubelet <= m.api
      /\ m.role # "control-plane" => m.api = 0
  BY FitsFacts
<1>2. CASE k = 1
  <2>10. Upgrade("k0s", v).scripts[k] = StopK0s
    <3>1. Upgrade("k0s", v).scripts = <<StopK0s, GetK0s(v), StartK0s>>
      BY UpgradeScripts
    <3> QED BY <1>2, <3>1
  <2>1. x = [m EXCEPT !.up = FALSE]
    BY <2>10 DEF Effects, StopK0s
  <2>2. Parts(x, m, m.tool, m.api, m.kubelet, FALSE, m.own)
    BY <2>1, <1>0, MachineUpdates
  <2>5. m.tool <= m.tool /\ m.api <= m.api /\ FALSE \in BOOLEAN
    BY <1>0
  <2>3. StepFits("k0s", m, x, v)
    BY <1>0, <1>1, <2>2, <2>5, PartStep
  <2>4. Reached("k0s", 2, x, v)
    BY DEF Reached, ScriptCount
  <2> QED BY <1>2, <2>3, <2>4
<1>3. CASE k = 2
  <2>10. Upgrade("k0s", v).scripts[k] = GetK0s(v)
    <3>1. Upgrade("k0s", v).scripts = <<StopK0s, GetK0s(v), StartK0s>>
      BY UpgradeScripts
    <3> QED BY <1>3, <3>1
  <2>1. x = [m EXCEPT !.tool = v]
    BY <2>10 DEF Effects, GetK0s
  <2>2. Parts(x, m, v, m.api, m.kubelet, m.up, m.own)
    BY <2>1, <1>0, MachineUpdates
  <2>3. v <= v /\ m.kubelet <= v /\ m.api <= v /\ m.api <= m.api
    BY <1>0, <1>1
  <2>4. StepFits("k0s", m, x, v)
    BY <1>0, <1>1, <2>2, <2>3, PartStep
  <2>5. x.tool = v
    BY <2>2 DEF Parts
  <2>6. Reached("k0s", 3, x, v)
    BY <2>5 DEF Reached, ScriptCount
  <2> QED BY <1>3, <2>4, <2>6
<1>4. CASE k = 3
  <2>10. Upgrade("k0s", v).scripts[k] = StartK0s
    <3>1. Upgrade("k0s", v).scripts = <<StopK0s, GetK0s(v), StartK0s>>
      BY UpgradeScripts
    <3> QED BY <1>4, <3>1
  <2>1. x = Started(m)
    BY <2>10 DEF Effects, StartK0s
  <2>2. Parts(x, m, m.tool, OfRole(m.role, m.tool), m.tool, TRUE, m.own)
    BY <2>1, StartedMachine
  <2>3. /\ m.tool <= m.tool /\ OfRole(m.role, m.tool) <= m.tool
        /\ m.role = "control-plane" =>
             m.tool <= OfRole(m.role, m.tool) /\ m.api <= OfRole(m.role, m.tool)
        /\ m.role # "control-plane" => OfRole(m.role, m.tool) = 0
    BY <1>0, <1>1 DEF OfRole
  <2>4. StepFits("k0s", m, x, v)
    BY <1>0, <1>1, <2>2, <2>3, PartStep
  <2>5. x.up = TRUE
    BY <2>2 DEF Parts
  <2>6. ASSUME Reached("k0s", 3, m, v) PROVE Reached("k0s", 4, x, v)
    <3>1. m.tool = v
      BY <2>6 DEF Reached
    <3>2. RunsAt(x, v, x.role) /\ x.tool = v
      BY <2>2, <3>1, AllAtVersion DEF Parts
    <3> QED BY <3>2 DEF Reached
  <2> QED BY <1>4, <2>4, <2>5, <2>6
<1>5. k = 1 \/ k = 2 \/ k = 3
  OBVIOUS
<1> QED BY <1>2, <1>3, <1>4, <1>5

LEMMA KubeadmStep ==
  ASSUME NEW v \in Nat, NEW m \in Machine, m.node = TRUE, m.role \in MachineRoles,
         Fits("kubeadm", m, v), NEW k \in 1 .. 3,
         NEW x \in Effects(Upgrade("kubeadm", v).scripts[k], m),
         Able(Upgrade("kubeadm", v).scripts[k], m, {}), Reached("kubeadm", k, m, v)
  PROVE  /\ StepFits("kubeadm", m, x, v)
         /\ x.up = TRUE
         /\ Reached("kubeadm", k + 1, x, v)
<1>0. m.tool \in Nat /\ m.api \in Nat /\ m.kubelet \in Nat /\ m.up \in BOOLEAN
  BY MachineTypes
<1>1. /\ m.tool <= v /\ m.kubelet <= m.tool /\ m.api <= m.tool
      /\ m.role = "control-plane" => m.kubelet <= m.api
      /\ m.role # "control-plane" => m.api = 0
  BY FitsFacts
<1>6. m.up = TRUE
  BY DEF Fits
<1>2. CASE k = 1
  <2>10. Upgrade("kubeadm", v).scripts[k] = UpgradeKubeadm(v)
    <3>1. Upgrade("kubeadm", v).scripts = <<UpgradeKubeadm(v), ApplyUpgrade(v), UpgradeKubelet(v)>>
      BY UpgradeScripts
    <3> QED BY <1>2, <3>1
  <2>1. x = [m EXCEPT !.tool = v]
    BY <2>10 DEF Effects, UpgradeKubeadm
  <2>2. Parts(x, m, v, m.api, m.kubelet, m.up, m.own)
    BY <2>1, <1>0, MachineUpdates
  <2>3. v <= v /\ m.kubelet <= v /\ m.api <= v /\ m.api <= m.api
    BY <1>0, <1>1
  <2>4. StepFits("kubeadm", m, x, v)
    BY <1>0, <1>1, <2>2, <2>3, <1>6, PartStep
  <2>5. x.tool = v /\ x.up = TRUE
    BY <1>6, <2>2 DEF Parts
  <2>6. Reached("kubeadm", 2, x, v)
    BY <2>5 DEF Reached, ScriptCount
  <2> QED BY <1>2, <2>4, <2>5, <2>6
<1>3. CASE k = 2
  <2>10. Upgrade("kubeadm", v).scripts[k] = ApplyUpgrade(v)
    <3>1. Upgrade("kubeadm", v).scripts = <<UpgradeKubeadm(v), ApplyUpgrade(v), UpgradeKubelet(v)>>
      BY UpgradeScripts
    <3> QED BY <1>3, <3>1
  <2>0. m.role = "control-plane" /\ m.tool = v
    BY <2>10 DEF Able, ApplyUpgrade
  <2>1. x = [m EXCEPT !.api = v]
    BY <2>10 DEF Effects, ApplyUpgrade
  <2>2. Parts(x, m, m.tool, v, m.kubelet, m.up, m.own)
    BY <2>1, <1>0, MachineUpdates
  <2>3. m.tool <= m.tool /\ v <= m.tool /\ m.kubelet <= v /\ m.api <= v
    BY <1>0, <1>1, <2>0
  <2>4. StepFits("kubeadm", m, x, v)
    BY <1>0, <1>1, <2>0, <2>2, <2>3, <1>6, PartStep
  <2>5. x.tool = v /\ x.up = TRUE /\ x.api = v /\ x.role = "control-plane"
    BY <1>6, <2>0, <2>2 DEF Parts
  <2>6. Reached("kubeadm", 3, x, v)
    BY <2>5 DEF Reached, ScriptCount
  <2> QED BY <1>3, <2>4, <2>5, <2>6
<1>4. CASE k = 3
  <2>10. Upgrade("kubeadm", v).scripts[k] = UpgradeKubelet(v)
    <3>1. Upgrade("kubeadm", v).scripts = <<UpgradeKubeadm(v), ApplyUpgrade(v), UpgradeKubelet(v)>>
      BY UpgradeScripts
    <3> QED BY <1>4, <3>1
  <2>1. x = [m EXCEPT !.kubelet = v]
    BY <2>10 DEF Effects, UpgradeKubelet
  <2>2. Parts(x, m, m.tool, m.api, v, m.up, m.own)
    BY <2>1, <1>0, MachineUpdates
  <2>3. m.tool = v /\ m.role = "control-plane" /\ m.api = v
    BY <1>4 DEF Reached
  <2>4. Parts(x, m, v, OfRole(m.role, v), v, TRUE, m.own)
    BY <1>6, <2>2, <2>3 DEF OfRole
  <2>5. StepFits("kubeadm", m, x, v) /\ x.up = TRUE /\ RunsAt(x, v, x.role)
    BY <2>4, AllAtVersion
  <2>6. x.tool = v /\ x.role = "control-plane" /\ x.api = v
    BY <2>2, <2>3 DEF Parts
  <2>7. Reached("kubeadm", 4, x, v)
    BY <2>5, <2>6 DEF Reached
  <2> QED BY <1>4, <2>5, <2>7
<1>5. k = 1 \/ k = 2 \/ k = 3
  OBVIOUS
<1> QED BY <1>2, <1>3, <1>4, <1>5

LEMMA ScriptStep ==
  ASSUME NEW d \in Distros, NEW v \in Nat, NEW m \in Machine, m.node = TRUE,
         m.role \in MachineRoles, Fits(d, m, v), NEW k \in 1 .. ScriptCount(d),
         NEW x \in Effects(Upgrade(d, v).scripts[k], m),
         Able(Upgrade(d, v).scripts[k], m, {}),
         d = "kubeadm" => Reached(d, k, m, v)
  PROVE  StepFits(d, m, x, v) /\ StepReaches(d, k, m, x, v)
<1>1. CASE d = "k3s"
  <2>1. k = 1 /\ Upgrade(d, v).scripts[k] = InstallK3s(v, Untold)
    BY <1>1, ScriptOf
  <2>2. StepFits("k3s", m, x, v) /\ x.up = TRUE /\ Reached("k3s", 2, x, v)
    BY <1>1, <2>1, K3sStep
  <2> QED BY <1>1, <2>1, <2>2 DEF StepReaches
<1>2. CASE d = "talos"
  <2>1. k = 1 /\ Upgrade(d, v).scripts[k] = UpgradeTalos(v)
    BY <1>2, ScriptOf
  <2>2. StepFits("talos", m, x, v) /\ x.up = TRUE /\ Reached("talos", 2, x, v)
    BY <1>2, <2>1, TalosStep
  <2> QED BY <1>2, <2>1, <2>2 DEF StepReaches
<1>3. CASE d = "k0s"
  <2>1. k \in 1 .. 3 /\ ScriptCount(d) = 3
    BY <1>3 DEF ScriptCount
  <2> QED BY <1>3, <2>1, K0sStep DEF StepReaches
<1>4. CASE d = "kubeadm"
  <2>1. k \in 1 .. 3
    BY <1>4 DEF ScriptCount
  <2> QED BY <1>4, <2>1, KubeadmStep DEF StepReaches
<1> QED BY <1>1, <1>2, <1>3, <1>4 DEF Distros

-----------------------------------------------------------------------------
(* Where the upgrade is.                                                   *)

LEMMA NodeExists ==
  ASSUME i \in 1 .. Len(ordered)
  PROVE  node \in Nodes /\ Role[node] \in MachineRoles
BY OrderOfUpgrade, MachinesAssumption DEF node

LEMMA OrderLen == Len(ordered) \in Nat /\ DOMAIN ordered = 1 .. Len(ordered)
BY OrderOfUpgrade

\* What the runner's next script may make of the machine upgradeNode is at.
Outcome(x) ==
  IF Able(Command, machine[node], {})
    THEN x \in After(Command, machine[node]) \cup AfterFailure(Command, machine[node])
    ELSE x = machine[node]

LEMMA AtScript ==
  ASSUME Base, at = "scripts", script <= Len(scripts)
  PROVE  /\ node \in Nodes /\ Role[node] \in MachineRoles
         /\ machine[node] \in Machine /\ machine[node].node = TRUE
         /\ machine[node].role = Role[node]
         /\ distro \in Distros /\ toVersion \in Nat
         /\ script \in 1 .. ScriptCount(distro)
         /\ Command = Upgrade(distro, toVersion).scripts[script]
<1>1. node \in Nodes /\ Role[node] \in MachineRoles
  BY NodeExists, OrderLen DEF Base, TypeOK, LoopFits, Active
<1>2. machine[node] \in Machine /\ machine[node].role = Role[node] /\ machine[node].node = TRUE
  BY <1>1 DEF Base, TypeOK, RolesKept
<1>3. distro \in Distros /\ toVersion \in Nat
  BY DistrosAssumption, BoundsAssumption DEF Base, TypeOK
<1>4. script \in 1 .. ScriptCount(distro)
  BY <1>3, ScriptsLen DEF scripts, Base, TypeOK, ScriptCount
<1> QED BY <1>1, <1>2, <1>3, <1>4 DEF Command, scripts

LEMMA OutcomeKeepsRole ==
  ASSUME Base, at = "scripts", script <= Len(scripts), NEW x, Outcome(x)
  PROVE  x \in Machine /\ x.role = Role[node] /\ x.node = TRUE
<1> DEFINE m == machine[node]
<1>1. /\ m \in Machine /\ m.node = TRUE /\ m.role \in MachineRoles /\ m.role = Role[node]
      /\ distro \in Distros /\ toVersion \in Nat /\ script \in 1 .. ScriptCount(distro)
      /\ Command = Upgrade(distro, toVersion).scripts[script]
  BY AtScript
<1>2. ASSUME x \in Effects(Command, m)
      PROVE  x \in Machine /\ x.role = m.role /\ x.node = TRUE
  BY <1>1, <1>2, EffectKeepsRole
<1>3. Able(Command, m, {}) => x \in Effects(Command, m) \cup {m}
  BY <1>1, ScriptOutcomes DEF Outcome
<1>4. ~Able(Command, m, {}) => x = m
  BY DEF Outcome
<1> QED BY <1>1, <1>2, <1>3, <1>4

\* The runner's next script exits with 0, or fails.
LEMMA ScriptSteps ==
  ASSUME Base, RunScript \/ ScriptFails
  PROVE  /\ at = "scripts" /\ script <= Len(scripts)
         /\ \E x : Outcome(x) /\ machine' = [machine EXCEPT ![node] = x]
<1>1. CASE RunScript
  BY <1>1 DEF RunScript, Outcome
<1>2. CASE ScriptFails
  <2>1. CASE ~Able(Command, machine[node], {})
    <3>1. machine' = [machine EXCEPT ![node] = machine[node]]
      BY <1>2, <2>1 DEF ScriptFails, Base, TypeOK
    <3> QED BY <1>2, <2>1, <3>1 DEF ScriptFails, Outcome
  <2>2. CASE Able(Command, machine[node], {})
    BY <1>2, <2>2 DEF ScriptFails, Outcome
  <2> QED BY <2>1, <2>2
<1> QED BY <1>1, <1>2

\* The machine is as the upgrade needs it for its next script.
MachineReady ==
  /\ Fits(distro, machine[node], toVersion)
  /\ distro = "kubeadm" => Reached(distro, script, machine[node], toVersion)

LEMMA OutcomeFits ==
  ASSUME Base, at = "scripts", script <= Len(scripts), MachineReady, NEW x, Outcome(x)
  PROVE  /\ StepFits(distro, machine[node], x, toVersion)
         /\ Able(Command, machine[node], {}) /\ x \in Effects(Command, machine[node]) =>
              StepReaches(distro, script, machine[node], x, toVersion)
<1> DEFINE m == machine[node]
<1>1. /\ m \in Machine /\ m.node = TRUE /\ m.role \in MachineRoles
      /\ distro \in Distros /\ toVersion \in Nat /\ script \in 1 .. ScriptCount(distro)
      /\ Command = Upgrade(distro, toVersion).scripts[script]
  BY AtScript
<1>2. StepFits(distro, m, m, toVersion)
  BY <1>1, StayFits DEF MachineReady
<1>3. ASSUME Able(Command, m, {}), x \in Effects(Command, m)
      PROVE  StepFits(distro, m, x, toVersion) /\ StepReaches(distro, script, m, x, toVersion)
  BY <1>1, <1>3, ScriptStep DEF MachineReady
<1>4. Able(Command, m, {}) => x \in Effects(Command, m) \cup {m}
  BY <1>1, ScriptOutcomes DEF Outcome
<1>5. ~Able(Command, m, {}) => x = m
  BY DEF Outcome
<1> QED BY <1>2, <1>3, <1>4, <1>5

\* The parts of TypeOK an action leaves alone together.
RunTyped ==
  /\ at \in {"idle", "next", "cordon", "list", "evict", "scripts", "uncordon", "ready"}
  /\ i \in 1 .. Len(ordered) + 1
  /\ nodes \in Seq(Nodes \X BOOLEAN)
  /\ completed \in 0 .. Len(ordered) /\ failed \in 0 .. 1
  /\ outcome \in {"none", "upgraded", "failed", "cancelled"}
  /\ failedAt \subseteq Nodes

RequestTyped ==
  /\ toVersion \in 1 .. MaxVersion
  /\ opts \in Options
  /\ distro \in UpgradedDistros
  /\ script \in 1 .. ScriptCount(distro) + 1

WorldTyped ==
  /\ machine \in [Nodes -> Machine]
  /\ cordoned \subseteq Nodes /\ ready \subseteq Nodes
  /\ podNode \in [Pods -> Nodes \cup {Pending}]
  /\ terminating \subseteq Pods /\ pods \subseteq Pods
  /\ cancelled \in BOOLEAN
  /\ missed \in BOOLEAN /\ hollow \subseteq Nodes

BoundsTyped == runs \in 0 .. MaxRuns /\ faults \in 0 .. MaxFaults

LEMMA TypeOKParts ==
  TypeOK <=> RunTyped /\ RequestTyped /\ WorldTyped /\ BoundsTyped
<1>1. ASSUME distro \in UpgradedDistros, toVersion \in 1 .. MaxVersion
      PROVE  Len(scripts) = ScriptCount(distro)
  BY <1>1, DistrosAssumption, ScriptsLen, BoundsAssumption DEF scripts
<1> QED BY <1>1 DEF TypeOK, RunTyped, RequestTyped, WorldTyped, BoundsTyped

LEMMA TypeOKPartsNext ==
  TypeOK' <=> RunTyped' /\ RequestTyped' /\ WorldTyped' /\ BoundsTyped'
<1>1. ASSUME distro' \in UpgradedDistros, toVersion' \in 1 .. MaxVersion
      PROVE  Len(scripts') = ScriptCount(distro')
  BY <1>1, DistrosAssumption, ScriptsLen, BoundsAssumption DEF scripts
<1> QED BY <1>1 DEF TypeOK, RunTyped, RequestTyped, WorldTyped, BoundsTyped

\* A machine of the cluster that is found.
LEMMA InitialMachines ==
  ASSUME Init, NEW n \in Nodes
  PROVE  /\ machine[n] \in Machine
         /\ machine[n].role = Role[n] /\ machine[n].node = TRUE
         /\ machine[n].tool = 1 /\ machine[n].kubelet = 1 /\ machine[n].up = TRUE
         /\ machine[n].api = OfRole(Role[n], 1)
<1> DEFINE r == Role[n]
           m == [Blank EXCEPT !.tool = 1, !.role = r, !.node = TRUE]
<1>1. PICK held \in SUBSET Nodes :
        machine = [q \in Nodes |-> [Healthy(Role[q]) EXCEPT !.held = q \in held]]
  BY DEF Init
<1>2. machine[n] = [Started(m) EXCEPT !.held = n \in held]
  BY <1>1 DEF Healthy
<1>3. r \in MachineRoles
  BY MachinesAssumption
<1> HIDE DEF r
<1>5. m \in Machine /\ m.node = TRUE /\ m.role = r /\ m.tool = 1
  BY <1>3 DEF Machine, Blank
<1> HIDE DEF m
<1>6. Parts(Started(m), m, 1, OfRole(r, 1), 1, TRUE, m.own)
  BY <1>5, StartedMachine
<1> DEFINE h == Started(m)
<1>7. /\ h \in Machine /\ h.role = r /\ h.node = TRUE /\ h.tool = 1 /\ h.kubelet = 1
      /\ h.up = TRUE /\ h.api = OfRole(r, 1)
  BY <1>5, <1>6 DEF Parts
<1>8. machine[n] = [h EXCEPT !.held = n \in held]
  BY <1>2
<1> HIDE DEF h
<1>9. ASSUME NEW b \in BOOLEAN, NEW y, y = [h EXCEPT !.held = b]
      PROVE  /\ y \in Machine /\ y.role = r /\ y.node = TRUE /\ y.tool = 1
             /\ y.kubelet = 1 /\ y.up = TRUE /\ y.api = OfRole(r, 1)
  BY <1>7, <1>9 DEF Machine
<1>10. (n \in held) \in BOOLEAN
  OBVIOUS
<1> QED BY <1>8, <1>9, <1>10 DEF r

LEMMA BaseInit == Init => Base
<1> SUFFICES ASSUME Init PROVE Base
  OBVIOUS
<1> USE DEF Init
<1>1. MaxVersion \in Nat \ {0} /\ MaxRuns \in Nat /\ MaxFaults \in Nat
  BY BoundsAssumption
<1>2. distro \in Distros
  BY DistrosAssumption
<1>3. RequestTyped
  BY <1>1, <1>2 DEF RequestTyped, ScriptCount
<1>4. ASSUME NEW n \in Nodes
      PROVE  /\ machine[n] \in Machine
             /\ machine[n].role = Role[n] /\ machine[n].node = TRUE
  BY InitialMachines
<1>5. machine \in [Nodes -> Machine]
  <2>1. machine = [n \in Nodes |-> machine[n]]
    OBVIOUS
  <2> HIDE DEF Init
  <2> QED BY <1>4, <2>1
<1>6. RolesKept
  BY <1>4 DEF RolesKept
<1>7. podNode \in [Pods -> Nodes \cup {Pending}]
  BY PodsAssumption
<1>8. nodes \in Seq(Nodes \X BOOLEAN)
  OBVIOUS
<1>9. RunTyped /\ BoundsTyped
  BY <1>1, <1>8, OrderLen DEF RunTyped, BoundsTyped
<1>11. WorldTyped
  BY <1>5, <1>7 DEF WorldTyped
<1>10. LoopFits
  BY DEF LoopFits, Active
<1> QED BY <1>3, <1>6, <1>9, <1>10, <1>11, TypeOKParts DEF Base

\* A failure of upgradeNode.
LEMMA FailBase ==
  ASSUME RunTyped, LoopFits, Active, Fail
  PROVE  RunTyped' /\ LoopFits'
<1>1. i \in 1 .. Len(ordered) /\ node \in Nodes
  BY NodeExists, OrderLen DEF RunTyped, LoopFits
<1>2. <<node, FALSE>> \in Nodes \X BOOLEAN
  BY <1>1
<1>3. nodes' \in Seq(Nodes \X BOOLEAN)
  BY <1>2 DEF Fail, RunTyped
<1>6. failed = 0
  BY DEF LoopFits, Active
<1>4. RunTyped'
  BY <1>1, <1>3, <1>6, OrderLen DEF Fail, RunTyped
<1>5. LoopFits'
  BY <1>1, <1>6, OrderLen DEF Fail, LoopFits, Active
<1> QED BY <1>4, <1>5

LEMMA GoToBase ==
  ASSUME RunTyped, LoopFits, Active, NEW step, GoTo(step),
         step \in {"list", "evict", "scripts", "uncordon", "ready"}
  PROVE  RunTyped' /\ LoopFits'
<1>1. RunTyped'
  BY DEF GoTo, RunTyped, result, request
<1>2. LoopFits'
  BY DEF GoTo, LoopFits, Active, result, request
<1> QED BY <1>1, <1>2

\* An action outside the loop changes none of the variables of the run.
LEMMA QuietBase ==
  ASSUME Base, UNCHANGED <<run, distro, failedAt>>, WorldTyped', BoundsTyped',
         UNCHANGED machine
  PROVE  Base'
<1>1. RunTyped' /\ RequestTyped' /\ LoopFits'
  BY TypeOKParts DEF Base, run, RunTyped, RequestTyped, LoopFits, Active
<1>2. TypeOK'
  BY <1>1, TypeOKPartsNext
<1> QED BY <1>1, <1>2 DEF Base, RolesKept

LEMMA BaseNext == Base /\ [Next]_vars => Base'
<1> SUFFICES ASSUME Base, [Next]_vars PROVE Base'
  OBVIOUS
<1> USE DEF bounds, placement
<1>0. RunTyped /\ RequestTyped /\ WorldTyped /\ BoundsTyped /\ LoopFits /\ RolesKept
  BY TypeOKParts DEF Base
<1>1. ASSUME RunTyped', RequestTyped', WorldTyped', BoundsTyped', LoopFits', RolesKept'
      PROVE  Base'
  <2>1. TypeOK'
    BY <1>1, TypeOKPartsNext
  <2> QED BY <1>1, <2>1 DEF Base
\* The bounds, where an action counts a fault or none.
<1>2. ASSUME UNCHANGED faults \/ Fault, UNCHANGED runs PROVE BoundsTyped'
  BY <1>0, <1>2, BoundsAssumption DEF BoundsTyped, Fault
<1>3. ASSUME UNCHANGED <<toVersion, opts, distro, script>> PROVE RequestTyped'
  BY <1>0, <1>3 DEF RequestTyped
<1>4. ASSUME UNCHANGED <<toVersion, opts, distro>>, script' = 1 PROVE RequestTyped'
  BY <1>0, <1>4 DEF RequestTyped, ScriptCount
<1>5. ASSUME UNCHANGED machine PROVE RolesKept'
  BY <1>0, <1>5 DEF RolesKept
<1>6. Active => node \in Nodes
  BY <1>0, NodeExists, OrderLen DEF RunTyped, LoopFits
<1>7. CASE StartRun
  <2>1. RunTyped' /\ LoopFits'
    BY <1>0, <1>7, OrderLen DEF StartRun, RunTyped, LoopFits, Active
  <2>2. RequestTyped'
    BY <1>0, <1>7, BoundsAssumption DEF StartRun, RequestTyped, world
  <2>5. WorldTyped'
    BY <1>0, <1>7 DEF StartRun, WorldTyped, world
  <2>3. BoundsTyped'
    BY <1>0, <1>7, BoundsAssumption DEF StartRun, BoundsTyped
  <2>4. RolesKept'
    BY <1>5, <1>7 DEF StartRun, world
  <2> QED BY <1>1, <2>1, <2>2, <2>3, <2>4, <2>5
<1>8. CASE NextMachine
  <2>1. RunTyped' /\ LoopFits'
    BY <1>0, <1>8, OrderLen DEF NextMachine, RunTyped, LoopFits, Active
  <2>2. WorldTyped' /\ RequestTyped'
    BY <1>0, <1>3, <1>8 DEF NextMachine, WorldTyped, world, request
  <2> QED BY <1>1, <1>2, <1>5, <1>8, <2>1, <2>2 DEF NextMachine, world
<1>9. CASE CordonNode
  <2>1. Active
    BY <1>9 DEF CordonNode, Active
  <2>2. RunTyped' /\ LoopFits'
    BY <1>0, <1>9, <2>1, FailBase, GoToBase DEF CordonNode
  <2>3. UNCHANGED <<toVersion, opts>>
    BY <1>9 DEF CordonNode, Fail, GoTo, request
  <2>4. RequestTyped' /\ RolesKept'
    BY <1>4, <1>5, <1>9, <2>3 DEF CordonNode
  <2>5. WorldTyped'
    BY <1>0, <1>6, <1>9, <2>1 DEF CordonNode, WorldTyped
  <2>6. BoundsTyped'
    BY <1>2, <1>9 DEF CordonNode, CallFails, ScriptError
  <2> QED BY <1>1, <2>2, <2>4, <2>5, <2>6
<1>10. CASE ListPods
  <2>1. Active
    BY <1>10 DEF ListPods, Active
  <2>2. RunTyped' /\ LoopFits'
    BY <1>0, <1>10, <2>1, FailBase, GoToBase DEF ListPods
  <2>3. UNCHANGED <<toVersion, opts>>
    BY <1>10 DEF ListPods, Fail, GoTo, request
  <2>4. RequestTyped' /\ RolesKept'
    BY <1>3, <1>5, <1>10, <2>3 DEF ListPods, world
  <2>5. WorldTyped'
    BY <1>0, <1>10 DEF ListPods, WorldTyped, world
  <2>6. BoundsTyped'
    BY <1>2, <1>10 DEF ListPods, CallFails, ScriptError
  <2> QED BY <1>1, <2>2, <2>4, <2>5, <2>6
<1>11. ASSUME NEW p \in Pods, SkipPod(p) \/ DeletePod(p) PROVE Base'
  <2>1. RunTyped' /\ LoopFits'
    BY <1>0, <1>11 DEF SkipPod, DeletePod, RunTyped, LoopFits, Active, result, request
  <2>2. RequestTyped' /\ RolesKept' /\ BoundsTyped'
    BY <1>2, <1>3, <1>5, <1>11 DEF SkipPod, DeletePod, request, world
  <2>3. WorldTyped'
    BY <1>0, <1>11 DEF SkipPod, DeletePod, WorldTyped, world
  <2> QED BY <1>1, <2>1, <2>2, <2>3
<1>12. ASSUME NEW p \in Pods, DeletePodFails(p) PROVE Base'
  <2>1. Active
    BY <1>12 DEF DeletePodFails, Active
  <2>2. RunTyped' /\ LoopFits'
    BY <1>0, <1>12, <2>1, FailBase, GoToBase DEF DeletePodFails
  <2>3. UNCHANGED <<toVersion, opts>>
    BY <1>12 DEF DeletePodFails, Fail, GoTo, request
  <2>4. RequestTyped' /\ RolesKept'
    BY <1>3, <1>5, <1>12, <2>3 DEF DeletePodFails, world
  <2>5. WorldTyped'
    BY <1>0, <1>12 DEF DeletePodFails, WorldTyped, world
  <2>6. BoundsTyped'
    BY <1>2, <1>12 DEF DeletePodFails, CallFails, ScriptError
  <2> QED BY <1>1, <2>2, <2>4, <2>5, <2>6
<1>13. CASE Drained
  <2>1. Active
    BY <1>13 DEF Drained, Active
  <2>2. RunTyped' /\ LoopFits'
    BY <1>0, <1>13, <2>1, GoToBase DEF Drained
  <2>3. RequestTyped' /\ RolesKept' /\ BoundsTyped'
    BY <1>2, <1>3, <1>5, <1>13 DEF Drained, GoTo, request, world
  <2>4. WorldTyped'
    BY <1>0, <1>13 DEF Drained, WorldTyped, world
  <2> QED BY <1>1, <2>2, <2>3, <2>4
\* The machine upgradeNode is at, after a script.
<1>23. ASSUME RunScript \/ ScriptFails
       PROVE  /\ machine' \in [Nodes -> Machine] /\ RolesKept'
              /\ at = "scripts" /\ script <= ScriptCount(distro)
  <2>1. /\ at = "scripts" /\ script <= Len(scripts)
        /\ \E x : Outcome(x) /\ machine' = [machine EXCEPT ![node] = x]
    BY <1>23, ScriptSteps
  <2>2. PICK x : Outcome(x) /\ machine' = [machine EXCEPT ![node] = x]
    BY <2>1
  <2>3. x \in Machine /\ x.role = Role[node] /\ x.node = TRUE
    BY <2>1, <2>2, OutcomeKeepsRole
  <2>4. node \in Nodes /\ script \in 1 .. ScriptCount(distro)
    BY <2>1, AtScript
  <2>5. machine' \in [Nodes -> Machine]
    BY <1>0, <2>2, <2>3 DEF WorldTyped
  <2>6. RolesKept'
    BY <1>0, <2>2, <2>3, <2>4 DEF RolesKept, WorldTyped
  <2> QED BY <2>1, <2>4, <2>5, <2>6
<1>14. CASE RunScript
  <2>1. machine' \in [Nodes -> Machine] /\ RolesKept' /\ script <= ScriptCount(distro)
    BY <1>14, <1>23
  <2>2. RunTyped' /\ LoopFits'
    BY <1>0, <1>14 DEF RunScript, RunTyped, LoopFits, Active, result, request
  <2>3. RequestTyped'
    BY <1>0, <1>14, <2>1 DEF RunScript, RequestTyped, request, ScriptCount
  <2>4. missed' \in BOOLEAN
    BY <1>0, <1>14 DEF RunScript, WorldTyped
  <2>5. WorldTyped'
    BY <1>0, <1>14, <2>1, <2>4 DEF RunScript, WorldTyped
  <2>6. BoundsTyped'
    BY <1>2, <1>14 DEF RunScript
  <2> QED BY <1>1, <2>1, <2>2, <2>3, <2>5, <2>6
<1>15. CASE ScriptFails
  <2>1. machine' \in [Nodes -> Machine] /\ RolesKept' /\ at = "scripts"
    BY <1>15, <1>23
  <2>2. Active
    BY <2>1 DEF Active
  <2>3. RunTyped' /\ LoopFits'
    BY <1>0, <1>15, <2>2, FailBase DEF ScriptFails
  <2>4. RequestTyped'
    BY <1>4, <1>15 DEF ScriptFails, Fail, request
  <2>5. WorldTyped'
    BY <1>0, <1>15, <2>1 DEF ScriptFails, WorldTyped
  <2>6. BoundsTyped'
    BY <1>2, <1>15 DEF ScriptFails, ScriptError
  <2> QED BY <1>1, <2>1, <2>3, <2>4, <2>5, <2>6
<1>16. CASE ScriptsDone
  <2>1. Active
    BY <1>16 DEF ScriptsDone, Active
  <2>2. RunTyped' /\ LoopFits'
    BY <1>0, <1>16, <2>1, GoToBase DEF ScriptsDone
  <2>3. RequestTyped' /\ RolesKept' /\ BoundsTyped'
    BY <1>2, <1>4, <1>5, <1>16 DEF ScriptsDone, GoTo, request, world
  <2>5. node \in Nodes /\ hollow \subseteq Nodes /\ missed \in BOOLEAN
    BY <1>0, <1>6, <2>1 DEF WorldTyped
  <2>6. hollow' \subseteq Nodes
    <3>1. hollow' = hollow \cup {node} \/ hollow' = hollow \ {node}
      BY <1>16, <2>5 DEF ScriptsDone
    <3> QED BY <2>5, <3>1
  <2>4. WorldTyped'
    BY <1>0, <1>16, <2>6 DEF ScriptsDone, WorldTyped, placement
  <2> QED BY <1>1, <2>2, <2>3, <2>4
<1>17. CASE UncordonNode
  <2>1. Active
    BY <1>17 DEF UncordonNode, Active
  <2>2. RunTyped' /\ LoopFits'
    BY <1>0, <1>17, <2>1, FailBase, GoToBase DEF UncordonNode
  <2>3. UNCHANGED <<toVersion, opts>>
    BY <1>17 DEF UncordonNode, Fail, GoTo, request
  <2>4. RequestTyped' /\ RolesKept'
    BY <1>4, <1>5, <1>17, <2>3 DEF UncordonNode
  <2>5. WorldTyped'
    BY <1>0, <1>17 DEF UncordonNode, WorldTyped
  <2>6. BoundsTyped'
    BY <1>2, <1>17 DEF UncordonNode, CallFails, ScriptError
  <2> QED BY <1>1, <2>2, <2>4, <2>5, <2>6
<1>18. CASE NodeReady
  <2>1. Active
    BY <1>18 DEF NodeReady, Active
  <2>2. RunTyped' /\ LoopFits'
    <3>1. CASE Fail
      BY <1>0, <2>1, <3>1, FailBase
    <3>2. CASE /\ at' = "next"
               /\ nodes' = Append(nodes, <<node, TRUE>>)
               /\ completed' = completed + 1
               /\ i' = i + 1
               /\ UNCHANGED <<failed, outcome, failedAt>>
      <4>0. node \in Nodes /\ TRUE \in BOOLEAN
        BY <1>6, <2>1
      <4>1. i \in 1 .. Len(ordered) /\ <<node, TRUE>> \in Nodes \X BOOLEAN
        <5>1. i \in 1 .. Len(ordered)
          BY <1>0, <2>1, OrderLen DEF RunTyped, LoopFits
        <5> QED BY <4>0, <5>1
      <4>2. nodes' \in Seq(Nodes \X BOOLEAN)
        BY <1>0, <3>2, <4>1 DEF RunTyped
      <4>3. RunTyped'
        BY <1>0, <2>1, <3>2, <4>1, <4>2, OrderLen DEF RunTyped, LoopFits, Active
      <4>4. LoopFits'
        BY <1>0, <2>1, <3>2, <4>1, OrderLen DEF LoopFits, Active, RunTyped
      <4> QED BY <4>3, <4>4
    <3> QED BY <1>18, <3>1, <3>2 DEF NodeReady
  <2>3. RequestTyped' /\ RolesKept'
    BY <1>3, <1>5, <1>18 DEF NodeReady, Fail, request, world
  <2>4. WorldTyped'
    BY <1>0, <1>18 DEF NodeReady, WorldTyped, world
  <2>5. BoundsTyped'
    BY <1>2, <1>18 DEF NodeReady, CallFails, ScriptError
  <2> QED BY <1>1, <2>2, <2>3, <2>4, <2>5
<1>19. CASE Cancel
  <2>1. WorldTyped' /\ BoundsTyped'
    BY <1>0, <1>2, <1>19 DEF Cancel, WorldTyped, world, run
  <2> QED BY <1>19, <2>1, QuietBase DEF Cancel, world
<1>20. ASSUME NEW p \in Pods, PodEnds(p) \/ PodVanishes(p) \/ SchedulePod(p) PROVE Base'
  <2>1. podNode' \in [Pods -> Nodes \cup {Pending}]
    BY <1>0, <1>20 DEF PodEnds, PodVanishes, SchedulePod, WorldTyped
  <2>2. WorldTyped'
    BY <1>0, <1>20, <2>1 DEF PodEnds, PodVanishes, SchedulePod, WorldTyped, run
  <2>3. BoundsTyped'
    BY <1>2, <1>20 DEF PodEnds, PodVanishes, SchedulePod
  <2>4. UNCHANGED failedAt
    BY <1>20 DEF PodEnds, PodVanishes, SchedulePod
  <2> QED BY <1>20, <2>2, <2>3, <2>4, QuietBase DEF PodEnds, PodVanishes, SchedulePod
<1>21. ASSUME NEW n \in Nodes, NodeRecovers(n) \/ NodeGoesDown(n) PROVE Base'
  <2>1. WorldTyped'
    BY <1>0, <1>21 DEF NodeRecovers, NodeGoesDown, WorldTyped, run
  <2>2. BoundsTyped'
    BY <1>2, <1>21 DEF NodeRecovers, NodeGoesDown
  <2> QED BY <1>21, <2>1, <2>2, QuietBase DEF NodeRecovers, NodeGoesDown
<1>22. CASE UNCHANGED vars
  <2>1. WorldTyped' /\ BoundsTyped'
    BY <1>0, <1>22 DEF WorldTyped, BoundsTyped, vars, run, world
  <2> QED BY <1>22, <2>1, QuietBase DEF vars, world
<1> QED
  BY <1>7, <1>8, <1>9, <1>10, <1>11, <1>12, <1>13, <1>14, <1>15, <1>16, <1>17, <1>18,
     <1>19, <1>20, <1>21, <1>22 DEF Next, Progress

\* The upgrade is always at a step of the code, its counters count the machines
\* it has passed, and every machine keeps its role.
THEOREM BaseInvariant == Spec => []Base
<1> QED BY BaseInit, BaseNext, PTL DEF Spec

-----------------------------------------------------------------------------
(* What the run reports.                                                   *)

\* The machine upgradeNode is at has been upgraded.
Advance ==
  /\ at' = "next"
  /\ nodes' = Append(nodes, <<node, TRUE>>)
  /\ i' = i + 1
  /\ UNCHANGED outcome

\* The steps that change the result, and that none of the others does.
LEMMA ResultSteps ==
  ASSUME Base, [Next]_vars
  PROVE  \/ StartRun \/ NextMachine
         \/ Active /\ Fail
         \/ Active /\ Advance
         \/ UNCHANGED <<i, nodes, outcome>>
<1> USE DEF Active, GoTo, result
<1>1. CASE CordonNode \/ ListPods \/ UncordonNode
  BY <1>1 DEF CordonNode, ListPods, UncordonNode
<1>2. CASE \E p \in Pods : SkipPod(p) \/ DeletePod(p) \/ DeletePodFails(p)
  BY <1>2 DEF SkipPod, DeletePod, DeletePodFails
<1>3. CASE Drained \/ RunScript \/ ScriptFails \/ ScriptsDone
  BY <1>3 DEF Drained, RunScript, ScriptFails, ScriptsDone
<1>4. CASE NodeReady
  BY <1>4 DEF NodeReady, Advance
<1>5. CASE Cancel
  BY <1>5 DEF Cancel, run
<1>6. CASE \E p \in Pods : PodEnds(p) \/ PodVanishes(p) \/ SchedulePod(p)
  BY <1>6 DEF PodEnds, PodVanishes, SchedulePod, run
<1>7. CASE \E n \in Nodes : NodeRecovers(n) \/ NodeGoesDown(n)
  BY <1>7 DEF NodeRecovers, NodeGoesDown, run
<1>8. CASE UNCHANGED vars
  BY <1>8 DEF vars, run
<1> QED
  BY <1>1, <1>2, <1>3, <1>4, <1>5, <1>6, <1>7, <1>8 DEF Next, Progress

\* An active run has returned nothing yet.
LEMMA ActiveRun ==
  ASSUME Base, Active
  PROVE  outcome = "none" /\ i \in 1 .. Len(ordered) /\ node \in Nodes
BY NodeExists, OrderLen DEF Base, TypeOK, LoopFits, Active

LEMMA Appended ==
  ASSUME NEW S, NEW s \in Seq(S), NEW e \in S, NEW n \in Nat, Len(s) = n - 1
  PROVE  /\ Len(Append(s, e)) = n /\ Append(s, e)[n] = e
         /\ \A j \in 1 .. n - 1 : Append(s, e)[j] = s[j]
OBVIOUS

LEMMA ResultNext == Base /\ Base' /\ ResultFits /\ [Next]_vars => ResultFits'
<1> SUFFICES ASSUME Base, Base', ResultFits, [Next]_vars PROVE ResultFits'
  OBVIOUS
<1>0. i \in Nat \ {0} /\ (outcome # "none" => at = "idle")
  BY OrderLen DEF Base, TypeOK, LoopFits
<1>6. nodes \in Seq(Nodes \X BOOLEAN)
  BY DEF Base, TypeOK
<1>7. Len(nodes) \in Nat /\ DOMAIN nodes = 1 .. Len(nodes)
  BY <1>6
<1>8. ASSUME Active PROVE node \in Nodes
  BY <1>8, ActiveRun
<1>9. TRUE \in BOOLEAN /\ FALSE \in BOOLEAN
  OBVIOUS
<1>1. CASE StartRun
  BY <1>1 DEF StartRun, ResultFits
<1>2. CASE NextMachine
  <2>1. UNCHANGED <<i, nodes>> /\ outcome # "failed" /\ outcome' # "failed"
    BY <1>0, <1>2 DEF NextMachine
  <2> QED BY <2>1 DEF ResultFits
<1>3. CASE Active /\ Fail
  <2>1. outcome = "none" /\ outcome' = "failed" /\ i' = i
    BY <1>3, ActiveRun DEF Fail
  <2>2. Len(nodes) = i - 1 /\ \A j \in 1 .. i - 1 : nodes[j] = <<ordered[j], TRUE>>
    BY <2>1 DEF ResultFits
  <2> DEFINE e == <<node, FALSE>>
  <2>3. nodes' = Append(nodes, e) /\ e = <<ordered[i], FALSE>>
    BY <1>3 DEF Fail, node
  <2>7. e \in Nodes \X BOOLEAN
    BY <1>3, <1>8, <1>9
  <2> HIDE DEF e
  <2>4. /\ Len(nodes') = i /\ nodes'[i] = e
        /\ \A j \in 1 .. i - 1 : nodes'[j] = nodes[j]
    <3>1. Len(nodes) = i - 1 /\ i \in Nat
      BY <1>0, <2>2
    <3>2. /\ Len(Append(nodes, e)) = i /\ Append(nodes, e)[i] = e
          /\ \A j \in 1 .. i - 1 : Append(nodes, e)[j] = nodes[j]
      BY <1>6, <2>7, <3>1, Appended
    <3>3. nodes' = Append(nodes, e)
      BY <2>3
    <3> QED BY <3>2, <3>3
  <2> QED BY <2>1, <2>2, <2>3, <2>4 DEF ResultFits
<1>4. CASE Active /\ Advance
  <2>1. outcome = "none" /\ outcome' = "none" /\ i' = i + 1
    BY <1>4, ActiveRun DEF Advance
  <2>2. Len(nodes) = i - 1 /\ \A j \in 1 .. i - 1 : nodes[j] = <<ordered[j], TRUE>>
    BY <2>1 DEF ResultFits
  <2> DEFINE e == <<node, TRUE>>
  <2>3. nodes' = Append(nodes, e) /\ e = <<ordered[i], TRUE>>
    BY <1>4 DEF Advance, node
  <2>7. e \in Nodes \X BOOLEAN
    BY <1>4, <1>8, <1>9
  <2> HIDE DEF e
  <2>4. /\ Len(nodes') = i /\ nodes'[i] = e
        /\ \A j \in 1 .. i - 1 : nodes'[j] = nodes[j]
    <3>1. Len(nodes) = i - 1 /\ i \in Nat
      BY <1>0, <2>2
    <3>2. /\ Len(Append(nodes, e)) = i /\ Append(nodes, e)[i] = e
          /\ \A j \in 1 .. i - 1 : Append(nodes, e)[j] = nodes[j]
      BY <1>6, <2>7, <3>1, Appended
    <3>3. nodes' = Append(nodes, e)
      BY <2>3
    <3> QED BY <3>2, <3>3
  <2>5. i' - 1 = i /\ \A j \in 1 .. i : j \in 1 .. i - 1 \/ j = i
    BY <1>0, <2>1
  <2>6. \A j \in 1 .. i : nodes'[j] = <<ordered[j], TRUE>>
    BY <2>2, <2>3, <2>4, <2>5
  <2> QED BY <2>1, <2>4, <2>5, <2>6 DEF ResultFits
<1>5. CASE UNCHANGED <<i, nodes, outcome>>
  BY <1>5 DEF ResultFits
<1> QED BY <1>1, <1>2, <1>3, <1>4, <1>5, ResultSteps

-----------------------------------------------------------------------------
(* What the machines have installed.                                       *)

LEMMA DoneNodes ==
  ASSUME Base
  PROVE  /\ Done \subseteq Nodes
         /\ Active => node \notin Done
         /\ i > Len(ordered) => Done = Nodes
<1>1. i \in Nat \ {0} /\ i <= Len(ordered) + 1 /\ (Active => i <= Len(ordered))
  BY OrderLen DEF Base, TypeOK, LoopFits
<1>2. Done \subseteq Nodes
  BY <1>1, OrderOfUpgrade, OrderLen DEF Done
<1>3. Active => node \notin Done
  BY <1>1, OrderOfUpgrade, OrderLen DEF Done, node, IsInjective
<1>4. ASSUME i > Len(ordered) PROVE Nodes \subseteq Done
  <2>1. i - 1 = Len(ordered)
    BY <1>1, <1>4, OrderLen
  <2> QED BY <2>1, OrderOfUpgrade DEF Done
<1> QED BY <1>2, <1>3, <1>4

\* The control plane has been upgraded when the first worker is.
LEMMA ControlPlaneFirst ==
  ASSUME Base, Active, Role[node] = "worker",
         NEW c \in Nodes, Role[c] = "control-plane"
  PROVE  c \in Done
<1>1. i \in 1 .. Len(ordered)
  BY OrderLen DEF Base, TypeOK, LoopFits
<1>2. PICK j \in 1 .. Len(ordered) : ordered[j] = c
  BY OrderOfUpgrade
<1>3. c \in ControlPlanes /\ ordered[i] \notin ControlPlanes
  BY DEF ControlPlanes, node
<1>4. j < i
  BY <1>1, <1>2, <1>3, OrderOfUpgrade, OrderLen
<1> QED BY <1>1, <1>2, <1>4, OrderLen DEF Done

\* Whatever a script makes of the machine, the promises about machines are kept.
LEMMA MachineStep ==
  ASSUME Base, MachinesFit, WorkersFit, at = "scripts", script <= Len(scripts), MachineReady,
         NEW x, Outcome(x), machine' = [machine EXCEPT ![node] = x],
         UNCHANGED <<i, toVersion, distro, hollow>>
  PROVE  MachinesFit' /\ WorkersFit'
<1> DEFINE m == machine[node]
<1>1. /\ node \in Nodes /\ Role[node] \in MachineRoles
      /\ m \in Machine /\ m.role = Role[node]
      /\ x \in Machine /\ x.role = Role[node]
  BY AtScript, OutcomeKeepsRole
<1>2. toVersion \in Nat
  BY AtScript
<1>3. StepFits(distro, m, x, toVersion)
  BY OutcomeFits
<1>4. Fits(distro, x, toVersion) /\ (Role[node] = "control-plane" => m.api <= x.api)
  BY <1>1, <1>3 DEF StepFits
<1>5. x.kubelet \in Nat /\ x.api \in Nat /\ x.tool \in Nat /\ m.api \in Nat
  BY <1>1, MachineTypes
<1>6. machine \in [Nodes -> Machine]
  BY DEF Base, TypeOK
<1>7. Active /\ node \notin Done /\ Done \subseteq Nodes /\ Done' = Done
  <2>1. Active
    BY DEF Active
  <2> QED BY <2>1, DoneNodes DEF Done
<1>8. x.kubelet <= toVersion
  <2>1. x.tool <= toVersion /\ x.kubelet <= x.tool
    BY <1>1, <1>2, <1>4, FitsFacts
  <2> QED BY <1>2, <1>5, <2>1
<1>9. machine'[node] = x /\ \A n \in Nodes \ {node} : machine'[n] = machine[n]
  BY <1>1, <1>6
<1> HIDE DEF m
<1>10. ASSUME NEW w \in Nodes, NEW c \in Nodes \ hollow, Is(w, "worker"), Is(c, "control-plane")
       PROVE  machine'[w].kubelet <= machine'[c].api
  <2>1. machine[w].kubelet <= machine[c].api
    BY <1>10 DEF WorkersFit
  <2>2. machine[w].kubelet \in Nat /\ machine[c].api \in Nat
    BY <1>6, <1>10, MachineTypes
  <2>3. w # c
    BY <1>10 DEF Is
  <2>4. CASE c = node
    <3>1. machine'[w] = machine[w] /\ machine'[c] = x /\ m.api <= x.api /\ machine[c] = m
      BY <1>4, <1>9, <1>10, <2>3, <2>4 DEF Is, m
    <3> QED BY <1>5, <2>1, <2>2, <3>1
  <2>5. CASE w = node
    <3>1. machine'[w] = x /\ machine'[c] = machine[c]
      BY <1>9, <2>3, <2>5
    <3>2. c \in Done
      BY <1>7, <1>10, <2>5, ControlPlaneFirst DEF Is
    <3>3. Upgraded(c)
      BY <3>2 DEF MachinesFit
    <3>4. machine[c].api = toVersion
      BY <1>10, <3>3 DEF Upgraded, AgentMayBeOld, RunsAt, Is
    <3> QED BY <1>8, <3>1, <3>4
  <2>6. CASE w # node /\ c # node
    BY <1>9, <2>1, <2>6
  <2> QED BY <2>4, <2>5, <2>6
<1>11. WorkersFit'
  BY <1>10 DEF WorkersFit
<1>12. ASSUME NEW n \in Nodes PROVE Fits(distro', machine'[n], toVersion')
  <2>1. CASE n = node
    BY <1>4, <1>9, <2>1
  <2>2. CASE n # node
    BY <1>9, <2>2 DEF MachinesFit
  <2> QED BY <2>1, <2>2
<1>13. ASSUME NEW n \in Done PROVE Upgraded(n)'
  <2>1. n # node /\ n \in Nodes
    BY <1>7
  <2>2. Upgraded(n) /\ machine'[n] = machine[n]
    BY <1>9, <2>1 DEF MachinesFit
  <2> QED BY <2>2 DEF Upgraded, AgentMayBeOld
<1>14. MachinesFit'
  BY <1>7, <1>12, <1>13 DEF MachinesFit
<1> QED BY <1>11, <1>14

\* The steps of the cluster and of the caller change nothing of the run.
LEMMA QuietSteps ==
  ASSUME Cancel
         \/ (\E p \in Pods : PodEnds(p) \/ PodVanishes(p) \/ SchedulePod(p))
         \/ (\E n \in Nodes : NodeRecovers(n) \/ NodeGoesDown(n))
         \/ UNCHANGED vars
  PROVE  UNCHANGED <<at, i, toVersion, opts, pods, script, missed, nodes, outcome, distro,
                     machine, hollow, cordoned, failedAt>>
BY DEF Cancel, PodEnds, PodVanishes, SchedulePod, NodeRecovers, NodeGoesDown, vars, run, world,
       bounds

\* The next script finds the machine as it needs it.
LEMMA ReadyForScript ==
  ASSUME Base, NodesFit, at = "scripts", script <= Len(scripts)
  PROVE  MachineReady
<1>1. node \in Nodes
  BY AtScript
<1>2. Fits(distro, machine[node], toVersion)
  BY <1>1 DEF NodesFit, MachinesFit
<1>3. distro = "kubeadm" => Reached(distro, script, machine[node], toVersion)
  BY DEF NodesFit, NodeFits
<1> QED BY <1>2, <1>3 DEF MachineReady

\* How far the machine is after a script that exited with 0.
LEMMA AfterScript ==
  ASSUME Base, NodesFit, RunScript
  PROVE  /\ script' = script + 1 /\ node' = node
         /\ missed' = FALSE \/ distro = "kubeadm" =>
              Reached(distro, script + 1, machine'[node], toVersion)
         /\ script + 1 > ScriptCount(distro) => machine'[node].up = TRUE
<1> DEFINE m == machine[node]
<1>1. /\ at = "scripts" /\ script <= Len(scripts) /\ script' = script + 1 /\ i' = i
      /\ Able(Command, m, {})
  BY DEF RunScript
<1>2. PICK x \in After(Command, m) :
        /\ machine' = [machine EXCEPT ![node] = x]
        /\ missed' = (missed \/ x \notin Effects(Command, m))
  BY DEF RunScript
<1>3. /\ node \in Nodes /\ m \in Machine /\ m.role = Role[node]
      /\ distro \in Distros /\ script \in 1 .. ScriptCount(distro)
      /\ Command = Upgrade(distro, toVersion).scripts[script]
  BY <1>1, AtScript
<1>4. machine'[node] = x
  BY <1>2, <1>3 DEF Base, TypeOK
<1>5. Outcome(x)
  BY <1>1, <1>2 DEF Outcome
<1>6. MachineReady
  BY <1>1, ReadyForScript
<1>7. /\ StepFits(distro, m, x, toVersion)
      /\ x \in Effects(Command, m) => StepReaches(distro, script, m, x, toVersion)
  BY <1>1, <1>5, <1>6, OutcomeFits
<1>8. distro = "kubeadm" \/ script = 3 => x \in Effects(Command, m)
  BY <1>2, <1>3, ScriptOutcomes
<1>9. ASSUME missed' = FALSE \/ distro = "kubeadm"
      PROVE  Reached(distro, script + 1, x, toVersion)
  <2>1. x \in Effects(Command, m)
    BY <1>2, <1>8, <1>9
  <2>2. missed = FALSE \/ distro = "kubeadm"
    <3>1. missed \in BOOLEAN
      BY DEF Base, TypeOK
    <3> QED BY <1>2, <1>9, <3>1
  <2>3. Reached(distro, script, m, toVersion)
    BY <1>1, <2>2 DEF NodesFit, NodeFits
  <2> QED BY <1>7, <2>1, <2>3 DEF StepReaches
<1>10. ASSUME script + 1 > ScriptCount(distro) PROVE x.up = TRUE
  <2>1. CASE distro = "k0s"
    <3>1. script = 3
      BY <1>3, <1>10, <2>1 DEF ScriptCount
    <3> QED BY <1>7, <1>8, <1>10, <3>1 DEF StepReaches
  <2>2. CASE distro # "k0s"
    BY <1>7, <2>2 DEF StepFits, Fits
  <2> QED BY <2>1, <2>2
<1>11. node' = node
  BY <1>1 DEF node
<1> HIDE DEF m
<1> QED BY <1>1, <1>4, <1>9, <1>10, <1>11

\* A machine whose scripts have all had their effect is upgraded.
LEMMA AllScriptsDone ==
  ASSUME Base, NodesFit, at = "scripts", script > Len(scripts), missed = FALSE
  PROVE  /\ RunsAt(machine[node], toVersion, Role[node]) \/ AgentMayBeOld(node)
         /\ Role[node] = "control-plane" => machine[node].api = toVersion
<1>1. /\ distro \in Distros /\ script > ScriptCount(distro)
  BY DistrosAssumption, ScriptsLen DEF Base, TypeOK, scripts
<1>2. node \in Nodes /\ machine[node].role = Role[node]
  BY ActiveRun DEF Active, Base, RolesKept
<1>3. Reached(distro, script, machine[node], toVersion)
  BY DEF NodesFit, NodeFits
<1>4. \/ RunsAt(machine[node], toVersion, Role[node])
      \/ /\ distro = "k3s" /\ Role[node] = "worker" /\ machine[node].up = TRUE
         /\ machine[node].tool = toVersion /\ machine[node].own = TRUE
  BY <1>1, <1>2, <1>3 DEF Reached
<1> QED BY <1>4 DEF AgentMayBeOld, RunsAt, Is

LEMMA NodesNext ==
  Base /\ NodesFit /\ WorkersFit /\ [Next]_vars => NodesFit' /\ WorkersFit'
<1> SUFFICES ASSUME Base, NodesFit, WorkersFit, [Next]_vars PROVE NodesFit' /\ WorkersFit'
  OBVIOUS
<1>0. MachinesFit /\ Done \subseteq Nodes /\ (Active => node \notin Done)
  BY DoneNodes DEF NodesFit
<1>1. ASSUME UNCHANGED <<i, toVersion, distro, machine, hollow>>
      PROVE  MachinesFit' /\ WorkersFit' /\ Done' = Done
  BY <1>0, <1>1 DEF MachinesFit, WorkersFit, Done, Upgraded, AgentMayBeOld
\* Most steps leave the machines and what is cordoned alone.
<1>2. ASSUME UNCHANGED <<i, toVersion, distro, machine, hollow, cordoned>>,
             at' \in {"list", "evict"} => script' = 1 /\ missed' = FALSE,
             at' \notin {"scripts", "uncordon", "ready"}
      PROVE  NodesFit' /\ WorkersFit'
  BY <1>1, <1>2 DEF NodesFit, NodeFits
<1>3. CASE StartRun
  <2>1. Done' = {}
    BY <1>3 DEF StartRun, Done
  <2>2. /\ UNCHANGED <<distro, machine, hollow>> /\ at' = "next"
        /\ toVersion \in Nat /\ toVersion' \in Nat /\ toVersion <= toVersion'
    BY <1>3, BoundsAssumption DEF StartRun, world, Base, TypeOK
  <2>3. ASSUME NEW n \in Nodes PROVE Fits(distro', machine'[n], toVersion')
    <3>1. Fits(distro, machine[n], toVersion) /\ machine[n].tool \in Nat
      BY <1>0 DEF MachinesFit, Base, TypeOK, Machine
    <3> QED BY <2>2, <3>1 DEF Fits
  <2>4. MachinesFit'
    BY <2>1, <2>3 DEF MachinesFit
  <2>5. WorkersFit'
    BY <2>2 DEF WorkersFit
  <2>6. NodeFits'
    BY <2>2 DEF NodeFits
  <2> QED BY <2>1, <2>4, <2>5, <2>6 DEF NodesFit
<1>4. CASE NextMachine
  <2>1. /\ UNCHANGED <<i, toVersion, distro, machine, hollow, cordoned>>
        /\ at' \in {"idle", "cordon"}
    BY <1>4 DEF NextMachine, request, world
  <2> QED BY <1>2, <2>1
<1>5. CASE CordonNode
  <2>1. /\ UNCHANGED <<i, toVersion, distro, machine, hollow>> /\ script' = 1
        /\ missed' = FALSE /\ at' \in {"idle", "list"}
        /\ cordoned' \in {cordoned, cordoned \cup {node}}
    BY <1>5 DEF CordonNode, Fail, GoTo, request
  <2>2. \A n \in Done : n \notin cordoned'
    BY <1>0, <1>5, <2>1 DEF CordonNode, Active, NodesFit
  <2>3. MachinesFit' /\ WorkersFit' /\ Done' = Done
    BY <1>1, <2>1
  <2>4. NodeFits'
    BY <2>1 DEF NodeFits
  <2> QED BY <2>2, <2>3, <2>4 DEF NodesFit
<1>6. CASE ListPods
  <2>1. /\ UNCHANGED <<i, toVersion, distro, machine, hollow, cordoned, script, missed>>
        /\ at' \in {"idle", "evict"}
    BY <1>6 DEF ListPods, Fail, GoTo, request, world
  <2>2. script = 1 /\ missed = FALSE
    BY <1>6 DEF ListPods, NodesFit, NodeFits
  <2> QED BY <1>2, <2>1, <2>2
<1>7. CASE \E p \in Pods : SkipPod(p) \/ DeletePod(p) \/ DeletePodFails(p)
  <2>1. /\ UNCHANGED <<i, toVersion, distro, machine, hollow, cordoned, script, missed>>
        /\ at' \in {"idle", "evict"}
    BY <1>7 DEF SkipPod, DeletePod, DeletePodFails, Fail, GoTo, request, world
  <2>2. script = 1 /\ missed = FALSE
    BY <1>7 DEF SkipPod, DeletePod, DeletePodFails, NodesFit, NodeFits
  <2> QED BY <1>2, <2>1, <2>2
<1>8. CASE Drained
  <2>1. /\ UNCHANGED <<i, toVersion, distro, machine, hollow, cordoned, script>>
        /\ at' = "scripts" /\ script = 1
    BY <1>8 DEF Drained, GoTo, request, world, NodesFit, NodeFits
  <2>2. ~(1 > ScriptCount(distro))
    BY DEF ScriptCount
  <2>3. Reached(distro, 1, machine[node], toVersion)
    BY <2>2 DEF Reached
  <2>4. node' = node
    BY <2>1 DEF node
  <2>5. Reached(distro, script, machine[node], toVersion)'
    BY <2>1, <2>3, <2>4
  <2>6. MachinesFit' /\ WorkersFit' /\ Done' = Done
    BY <1>1, <2>1
  <2>7. NodeFits'
    BY <2>1, <2>2, <2>5 DEF NodeFits
  <2> QED BY <2>1, <2>6, <2>7 DEF NodesFit
<1>9. ASSUME RunScript \/ ScriptFails
      PROVE  MachinesFit' /\ WorkersFit' /\ Done' = Done /\ UNCHANGED cordoned
  <2>1. /\ UNCHANGED <<i, toVersion, distro, hollow, cordoned>>
    BY <1>9 DEF RunScript, ScriptFails, Fail, request
  <2>2. /\ at = "scripts" /\ script <= Len(scripts)
        /\ \E x : Outcome(x) /\ machine' = [machine EXCEPT ![node] = x]
    BY <1>9, ScriptSteps
  <2>3. PICK x : Outcome(x) /\ machine' = [machine EXCEPT ![node] = x]
    BY <2>2
  <2>4. MachineReady
    BY <2>2, ReadyForScript
  <2>5. MachinesFit' /\ WorkersFit'
    BY <1>0, <2>1, <2>2, <2>3, <2>4, MachineStep
  <2> QED BY <2>1, <2>5 DEF Done
<1>10. CASE RunScript
  <2>1. UNCHANGED distro /\ at' = "scripts"
    BY <1>10 DEF RunScript
  <2>2. UNCHANGED toVersion
    BY <1>10 DEF RunScript, request
  <2>3. /\ script' = script + 1 /\ node' = node
        /\ missed' = FALSE \/ distro = "kubeadm" =>
             Reached(distro, script + 1, machine'[node], toVersion)
        /\ script + 1 > ScriptCount(distro) => machine'[node].up = TRUE
    BY <1>10, AfterScript
  <2>4. NodeFits'
    BY <2>1, <2>2, <2>3 DEF NodeFits
  <2> QED BY <1>9, <1>10, <2>4 DEF NodesFit
<1>11. CASE ScriptFails
  <2>1. at' = "idle"
    BY <1>11 DEF ScriptFails, Fail
  <2>2. NodeFits'
    BY <2>1 DEF NodeFits
  <2> QED BY <1>9, <1>11, <2>2 DEF NodesFit
<1>12. CASE ScriptsDone
  <2>1. /\ UNCHANGED <<i, toVersion, distro, machine, cordoned>>
        /\ at = "scripts" /\ at' = "uncordon" /\ script > Len(scripts)
        /\ hollow' = IF missed THEN hollow \cup {node} ELSE hollow \ {node}
    BY <1>12 DEF ScriptsDone, GoTo, request
  <2>2. node \in Nodes /\ node \notin Done /\ missed \in BOOLEAN /\ hollow \subseteq Nodes
    BY <1>0, <2>1, ActiveRun DEF Active, Base, TypeOK
  <2>3. Done' = Done /\ node' = node
    BY <2>1 DEF Done, node
  <2>4. missed = FALSE =>
          /\ RunsAt(machine[node], toVersion, Role[node]) \/ AgentMayBeOld(node)
          /\ Role[node] = "control-plane" => machine[node].api = toVersion
    BY <2>1, AllScriptsDone
  <2>5. Upgraded(node)'
    <3>1. CASE missed
      <4>1. node \in hollow'
        BY <2>1, <3>1
      <4> QED BY <2>3, <4>1 DEF Upgraded
    <3>2. CASE missed = FALSE
      BY <2>1, <2>3, <2>4, <3>2 DEF Upgraded, AgentMayBeOld
    <3> QED BY <2>2, <3>1, <3>2
  <2>6. ASSUME NEW n \in Done PROVE Upgraded(n)'
    <3>1. Upgraded(n) /\ n # node
      BY <2>2 DEF NodesFit, MachinesFit
    <3>2. n \in hollow => n \in hollow'
      BY <2>1, <3>1
    <3> QED BY <2>1, <3>1, <3>2 DEF Upgraded, AgentMayBeOld
  <2>7. MachinesFit'
    BY <1>0, <2>1, <2>3, <2>6 DEF MachinesFit
  <2>8. ASSUME NEW w \in Nodes, NEW c \in Nodes \ hollow', Is(w, "worker"),
               Is(c, "control-plane")
        PROVE  machine[w].kubelet <= machine[c].api
    <3>1. CASE c \notin hollow
      BY <2>8, <3>1 DEF WorkersFit
    <3>2. CASE c \in hollow
      <4>1. missed = FALSE /\ c = node
        BY <2>1, <2>2, <2>8, <3>2
      <4>2. machine[c].api = toVersion
        BY <2>4, <2>8, <4>1 DEF Is
      <4>3. Fits(distro, machine[w], toVersion) /\ machine[w] \in Machine /\ toVersion \in Nat
        BY BoundsAssumption DEF NodesFit, MachinesFit, Base, TypeOK
      <4>4. machine[w].kubelet <= toVersion
        <5>1. machine[w].kubelet <= machine[w].tool /\ machine[w].tool <= toVersion
          BY <4>3, FitsFacts
        <5>2. machine[w].kubelet \in Nat /\ machine[w].tool \in Nat
          BY <4>3, MachineTypes
        <5> QED BY <4>3, <5>1, <5>2
      <4> QED BY <4>2, <4>4
    <3> QED BY <3>1, <3>2
  <2>9. WorkersFit'
    BY <2>1, <2>8 DEF WorkersFit
  <2>10. machine[node].up = TRUE
    <3>1. script > ScriptCount(distro)
      BY <2>1, DistrosAssumption, ScriptsLen DEF Base, TypeOK, scripts
    <3> QED BY <2>1, <3>1 DEF NodesFit, NodeFits
  <2>11. NodeFits'
    BY <2>1, <2>3, <2>5, <2>10 DEF NodeFits
  <2> QED BY <2>1, <2>3, <2>7, <2>9, <2>11 DEF NodesFit
<1>13. CASE UncordonNode
  <2>1. /\ UNCHANGED <<i, toVersion, distro, machine, hollow>> /\ at = "uncordon"
        /\ \/ at' = "ready" /\ cordoned' = cordoned \ {node}
           \/ at' = "idle" /\ cordoned' \subseteq cordoned
    BY <1>13 DEF UncordonNode, Fail, GoTo, request
  <2>2. machine[node].up = TRUE /\ Upgraded(node) /\ node' = node
    BY <2>1 DEF NodesFit, NodeFits, node
  <2>3. MachinesFit' /\ WorkersFit' /\ Done' = Done
    BY <1>1, <2>1
  <2>4. Upgraded(node)'
    BY <2>1, <2>2 DEF Upgraded, AgentMayBeOld
  <2>5. NodeFits'
    BY <2>1, <2>2, <2>4 DEF NodeFits
  <2> QED BY <2>1, <2>3, <2>5 DEF NodesFit
<1>14. CASE NodeReady
  <2>1. UNCHANGED <<toVersion, distro, machine, hollow, cordoned>> /\ at = "ready"
    BY <1>14 DEF NodeReady, Fail, request, world
  <2>2. CASE at' = "idle" /\ i' = i
    BY <1>2, <2>1, <2>2
  <2>3. CASE at' = "next" /\ i' = i + 1
    <3>1. i \in 1 .. Len(ordered) /\ node \in Nodes
      BY <2>1, ActiveRun DEF Active
    <3>2. Done' = Done \cup {node}
      BY <2>3, <3>1, OrderLen DEF Done, node
    <3>3. Upgraded(node) /\ node \notin cordoned
      BY <2>1 DEF NodesFit, NodeFits
    <3>4. \A n \in Done \cup {node} : Upgraded(n)
      BY <1>0, <3>3 DEF MachinesFit
    <3>5. MachinesFit' /\ WorkersFit'
      BY <1>0, <2>1, <3>2, <3>4 DEF MachinesFit, WorkersFit, Upgraded, AgentMayBeOld
    <3>6. NodeFits'
      BY <2>3 DEF NodeFits
    <3> QED BY <2>1, <3>2, <3>3, <3>5, <3>6 DEF NodesFit
  <2> QED BY <1>14, <2>2, <2>3 DEF NodeReady, Fail
<1>15. CASE UNCHANGED <<at, i, toVersion, opts, pods, script, missed, nodes, outcome, distro,
                        machine, hollow, cordoned, failedAt>>
  <2>1. MachinesFit' /\ WorkersFit' /\ Done' = Done /\ node' = node
    BY <1>1, <1>15 DEF node
  <2>2. Reached(distro, script, machine[node], toVersion)' <=>
          Reached(distro, script, machine[node], toVersion)
    BY <1>15, <2>1
  <2>3. Upgraded(node)' <=> Upgraded(node)
    BY <1>15, <2>1 DEF Upgraded, AgentMayBeOld
  <2>4. NodeFits'
    BY <1>15, <2>1, <2>2, <2>3 DEF NodesFit, NodeFits
  <2> QED BY <1>15, <2>1, <2>4 DEF NodesFit
<1> QED
  BY <1>3, <1>4, <1>5, <1>6, <1>7, <1>8, <1>10, <1>11, <1>12, <1>13, <1>14, <1>15, QuietSteps
     DEF Next, Progress

-----------------------------------------------------------------------------
(* What a run leaves behind, and the pods of the machine it is at.         *)

LEMMA OutNext ==
  Base /\ NodesFit /\ OnlyFailuresStayOut /\ [Next]_vars => OnlyFailuresStayOut'
<1> DEFINE Down == {n \in Nodes : machine[n].up # TRUE}
           At == IF at \in {"idle", "next"} THEN {} ELSE {node}
<1> SUFFICES ASSUME Base, NodesFit, OnlyFailuresStayOut, [Next]_vars PROVE OnlyFailuresStayOut'
  OBVIOUS
<1>0. cordoned \cup Down \subseteq failedAt \cup At
  <2>1. \A n \in Nodes : machine[n].up \in BOOLEAN
    BY DEF Base, TypeOK, Machine
  <2> QED BY <2>1 DEF OnlyFailuresStayOut
<1>1. ASSUME cordoned' \cup Down' \subseteq failedAt' \cup At' PROVE OnlyFailuresStayOut'
  BY <1>1 DEF OnlyFailuresStayOut
<1>2. CASE StartRun \/ NextMachine
  <2>1. UNCHANGED <<machine, cordoned, failedAt>> /\ at \in {"idle", "next"}
    BY <1>2 DEF StartRun, NextMachine, world, bounds
  <2> QED BY <1>0, <1>1, <2>1
<1>3. CASE CordonNode
  <2>1. /\ UNCHANGED <<machine, i>> /\ cordoned' \subseteq cordoned \cup {node} /\ at = "cordon"
        /\ \/ at' = "list" /\ UNCHANGED failedAt
           \/ at' = "idle" /\ failedAt' = failedAt \cup {node}
    BY <1>3 DEF CordonNode, Fail, GoTo
  <2>2. node' = node
    BY <2>1 DEF node
  <2> HIDE DEF OnlyFailuresStayOut
  <2> QED BY <1>0, <1>1, <2>1, <2>2
<1>4. CASE \/ ListPods \/ Drained \/ ScriptsDone
           \/ \E p \in Pods : SkipPod(p) \/ DeletePod(p) \/ DeletePodFails(p)
  <2>1. /\ UNCHANGED <<machine, cordoned, i>> /\ at \in {"list", "evict", "scripts"}
        /\ \/ at' \in {"evict", "scripts", "uncordon"} /\ UNCHANGED failedAt
           \/ at' = "idle" /\ failedAt' = failedAt \cup {node}
    BY <1>4 DEF ListPods, SkipPod, DeletePod, DeletePodFails, Drained, ScriptsDone, Fail, GoTo,
                world, bounds
  <2>2. node' = node
    BY <2>1 DEF node
  <2> QED BY <1>0, <1>1, <2>1, <2>2
<1>5. CASE RunScript \/ ScriptFails
  <2>1. /\ UNCHANGED <<cordoned, i>> /\ at = "scripts"
        /\ \/ at' = "scripts" /\ UNCHANGED failedAt
           \/ at' = "idle" /\ failedAt' = failedAt \cup {node}
    BY <1>5 DEF RunScript, ScriptFails, Fail
  <2>2. node' = node
    BY <2>1 DEF node
  <2>5. PICK x : machine' = [machine EXCEPT ![node] = x]
    BY <1>5, ScriptSteps
  <2>3. \A n \in Nodes \ {node} : machine'[n] = machine[n]
    BY <2>5 DEF Base, TypeOK
  <2>4. Down' \subseteq Down \cup {node}
    BY <2>3
  <2> HIDE DEF Down
  <2> QED BY <1>0, <1>1, <2>1, <2>2, <2>4
<1>6. CASE UncordonNode
  <2>1. /\ UNCHANGED <<machine, i>> /\ cordoned' \subseteq cordoned /\ at = "uncordon"
        /\ \/ at' = "ready" /\ UNCHANGED failedAt
           \/ at' = "idle" /\ failedAt' = failedAt \cup {node}
    BY <1>6 DEF UncordonNode, Fail, GoTo
  <2>2. node' = node
    BY <2>1 DEF node
  <2> QED BY <1>0, <1>1, <2>1, <2>2
<1>7. CASE NodeReady
  <2>1. /\ UNCHANGED <<machine, cordoned>> /\ at = "ready"
        /\ \/ at' = "next" /\ UNCHANGED failedAt
           \/ at' = "idle" /\ failedAt' = failedAt \cup {node}
    BY <1>7 DEF NodeReady, Fail, world
  <2>2. node \notin cordoned /\ node \notin Down
    BY <2>1 DEF NodesFit, NodeFits
  <2>3. Down' = Down
    BY <2>1
  <2> HIDE DEF Down
  <2> QED BY <1>0, <1>1, <2>1, <2>2, <2>3
<1>8. CASE UNCHANGED <<at, i, toVersion, opts, pods, script, missed, nodes, outcome, distro,
                       machine, hollow, cordoned, failedAt>>
  <2>1. node' = node
    BY <1>8 DEF node
  <2> QED BY <1>0, <1>1, <1>8, <2>1
<1> QED
  BY <1>2, <1>3, <1>4, <1>5, <1>6, <1>7, <1>8, QuietSteps DEF Next, Progress

\* The ordinary pods that are on node n and run on.
Stays(n, p) == podNode[p] = n /\ Kind[p] = "plain" /\ p \notin terminating

LEMMA PodsNext == Base /\ PodsFit /\ [Next]_vars => PodsFit'
<1> SUFFICES ASSUME Base, PodsFit, [Next]_vars PROVE PodsFit'
  OBVIOUS
<1> USE DEF placement
<1>0. /\ at \in {"list", "evict", "scripts"} => node \in cordoned
      /\ at \in {"evict", "scripts"} /\ ~opts.force =>
           \A p \in Pods : Stays(node, p) => at = "evict" /\ p \in pods
  BY DEF PodsFit, Stays
<1>1. ASSUME /\ at' \in {"list", "evict", "scripts"} => node' \in cordoned'
             /\ at' \in {"evict", "scripts"} /\ ~opts'.force =>
                  \A p \in Pods : Stays(node, p)' => at' = "evict" /\ p \in pods'
      PROVE  PodsFit'
  BY <1>1 DEF PodsFit, Stays
<1>2. CASE at' \notin {"list", "evict", "scripts"}
  BY <1>1, <1>2
<1>3. CASE CordonNode
  <2>1. CASE at' = "list"
    <3>1. node' = node /\ node \in cordoned'
      BY <1>3, <2>1 DEF CordonNode, GoTo, Fail, node
    <3> QED BY <1>1, <2>1, <3>1
  <2> QED BY <1>2, <1>3, <2>1 DEF CordonNode, GoTo, Fail
<1>4. CASE ListPods
  <2>1. CASE at' = "evict"
    <3>1. /\ UNCHANGED <<i, cordoned, podNode, terminating>> /\ at = "list"
          /\ pods' = {p \in Pods : podNode[p] = node}
      BY <1>4, <2>1 DEF ListPods, GoTo, Fail, world
    <3>2. node' = node
      BY <3>1 DEF node
    <3> QED BY <1>0, <1>1, <2>1, <3>1, <3>2 DEF Stays
  <2> QED BY <1>2, <1>4, <2>1 DEF ListPods, GoTo, Fail
<1>5. ASSUME NEW q \in Pods, SkipPod(q) PROVE PodsFit'
  <2>1. /\ UNCHANGED <<at, i, opts, cordoned, podNode, terminating>> /\ pods' = pods \ {q}
        /\ at = "evict" /\ Kind[q] # "plain"
    BY <1>5 DEF SkipPod, Skipped, request, world
  <2>2. node' = node
    BY <2>1 DEF node
  <2> QED BY <1>0, <1>1, <2>1, <2>2 DEF Stays
<1>6. ASSUME NEW q \in Pods, DeletePod(q) PROVE PodsFit'
  <2>1. /\ UNCHANGED <<at, i, opts, cordoned, podNode>> /\ pods' = pods \ {q}
        /\ at = "evict" /\ terminating' = terminating \cup {q}
    BY <1>6 DEF DeletePod, request
  <2>2. node' = node
    BY <2>1 DEF node
  <2> QED BY <1>0, <1>1, <2>1, <2>2 DEF Stays
<1>7. ASSUME NEW q \in Pods, DeletePodFails(q) PROVE PodsFit'
  <2>1. CASE at' = "evict"
    <3>1. UNCHANGED <<i, opts, cordoned, podNode, terminating>> /\ at = "evict" /\ opts.force
      BY <1>7, <2>1 DEF DeletePodFails, GoTo, Fail, request, world
    <3>2. node' = node
      BY <3>1 DEF node
    <3> QED BY <1>0, <1>1, <2>1, <3>1, <3>2
  <2> QED BY <1>2, <1>7, <2>1 DEF DeletePodFails, GoTo, Fail
<1>8. CASE Drained
  <2>1. /\ UNCHANGED <<i, opts, cordoned, podNode, terminating>> /\ at = "evict" /\ pods = {}
        /\ at' = "scripts"
    BY <1>8 DEF Drained, GoTo, request, world
  <2>2. node' = node
    BY <2>1 DEF node
  <2> QED BY <1>0, <1>1, <2>1, <2>2 DEF Stays
<1>9. CASE RunScript
  <2>1. UNCHANGED <<at, i, opts, pods, cordoned, podNode, terminating>>
    BY <1>9 DEF RunScript, request
  <2>2. node' = node
    BY <2>1 DEF node
  <2> QED BY <1>0, <1>1, <2>1, <2>2 DEF Stays
<1>10. CASE StartRun \/ NextMachine \/ ScriptFails \/ ScriptsDone \/ UncordonNode \/ NodeReady
  BY <1>2, <1>10
     DEF StartRun, NextMachine, ScriptFails, ScriptsDone, UncordonNode, NodeReady, Fail, GoTo
<1>11. ASSUME NEW q \in Pods, PodEnds(q) \/ PodVanishes(q) PROVE PodsFit'
  <2>1. /\ UNCHANGED <<at, i, opts, pods, cordoned>>
        /\ terminating' = terminating \ {q}
        /\ Kind[q] = "plain" => podNode' = [podNode EXCEPT ![q] = Pending]
        /\ podNode' \in {podNode, [podNode EXCEPT ![q] = Pending]}
    <3>1. podNode = [podNode EXCEPT ![q] = podNode[q]]
      BY DEF Base, TypeOK
    <3> QED BY <1>11, <3>1 DEF PodEnds, PodVanishes, run
  <2>2. node' = node
    BY <2>1 DEF node
  <2>3. Active => node # Pending
    BY ActiveRun, MachinesAssumption
  <2>4. ASSUME Active, NEW p \in Pods, Stays(node, p)' PROVE Stays(node, p)
    <3>1. podNode \in [Pods -> Nodes \cup {Pending}]
      BY DEF Base, TypeOK
    <3>2. p # q
      BY <2>1, <2>2, <2>3, <2>4, <3>1 DEF Stays
    <3> QED BY <2>1, <2>2, <2>4, <3>1, <3>2 DEF Stays
  <2> QED BY <1>0, <1>1, <2>1, <2>2, <2>4 DEF Active
<1>12. ASSUME NEW q \in Pods, SchedulePod(q) PROVE PodsFit'
  <2>1. UNCHANGED <<at, i, opts, pods, cordoned, terminating>>
    BY <1>12 DEF SchedulePod, run
  <2>2. node' = node
    BY <2>1 DEF node
  <2>3. ASSUME NEW p \in Pods, node \in cordoned, Stays(node, p)' PROVE Stays(node, p)
    <3>1. podNode \in [Pods -> Nodes \cup {Pending}]
      BY DEF Base, TypeOK
    <3>2. PICK n \in ready \ cordoned : podNode' = [podNode EXCEPT ![q] = n]
      BY <1>12 DEF SchedulePod
    <3> QED BY <2>1, <2>2, <2>3, <3>1, <3>2 DEF Stays
  <2> QED BY <1>0, <1>1, <2>1, <2>2, <2>3
<1>13. CASE Cancel \/ (\E n \in Nodes : NodeRecovers(n) \/ NodeGoesDown(n)) \/ UNCHANGED vars
  <2>1. UNCHANGED <<at, i, opts, pods, cordoned, podNode, terminating>>
    BY <1>13 DEF Cancel, NodeRecovers, NodeGoesDown, vars, run, world
  <2>2. node' = node
    BY <2>1 DEF node
  <2> QED BY <1>0, <1>1, <2>1, <2>2 DEF Stays
<1> QED
  BY <1>3, <1>4, <1>5, <1>6, <1>7, <1>8, <1>9, <1>10, <1>11, <1>12, <1>13 DEF Next, Progress

-----------------------------------------------------------------------------
(* The theorems.                                                           *)

LEMMA UpgradeInvInit == Init => UpgradeInv
<1> SUFFICES ASSUME Init PROVE UpgradeInv
  OBVIOUS
<1> USE DEF Init
<1>1. Base
  BY BaseInit
<1>2. ResultFits
  BY DEF ResultFits
<1>3. Done = {}
  BY DEF Done
<1>4. ASSUME NEW n \in Nodes
      PROVE  /\ machine[n].tool = 1 /\ machine[n].kubelet = 1 /\ machine[n].up = TRUE
             /\ machine[n].role = Role[n] /\ machine[n].api = OfRole(Role[n], 1)
  BY InitialMachines
<1>5. ASSUME NEW n \in Nodes PROVE Fits(distro, machine[n], toVersion)
  <2>1. toVersion = 1
    OBVIOUS
  <2> HIDE DEF Init
  <2>4. machine[n].tool = 1 /\ machine[n].kubelet = 1 /\ machine[n].api = OfRole(Role[n], 1)
    BY <1>4
  <2>5. machine[n].tool <= 1 /\ machine[n].kubelet <= machine[n].tool
    BY <2>4
  <2>2. /\ machine[n].tool <= 1 /\ machine[n].kubelet <= machine[n].tool
        /\ Role[n] = "control-plane" => machine[n].api = 1
        /\ Role[n] # "control-plane" => machine[n].api = 0
    BY <2>4, <2>5 DEF OfRole
  <2>3. machine[n].role = "control-plane" =>
          machine[n].kubelet <= machine[n].api /\ machine[n].api <= machine[n].tool
    BY <1>4, <2>2
  <2> QED BY <1>4, <2>1, <2>2, <2>3 DEF Fits
<1>6. MachinesFit
  BY <1>3, <1>5 DEF MachinesFit
<1>7. NodesFit
  BY <1>3, <1>6 DEF NodesFit, NodeFits
<1>8. WorkersFit
  <2> HIDE DEF Init
  <2>1. ASSUME NEW w \in Nodes, NEW c \in Nodes, Role[c] = "control-plane"
        PROVE  machine[w].kubelet <= machine[c].api
    <3>1. machine[w].kubelet = 1
      BY <1>4
    <3>2. machine[c].api = 1
      BY <1>4, <2>1 DEF OfRole
    <3> QED BY <3>1, <3>2
  <2> QED BY <2>1 DEF WorkersFit, Is
<1>9. PodsFit
  BY DEF PodsFit
<1>10. OnlyFailuresStayOut
  BY <1>4 DEF OnlyFailuresStayOut
<1> QED BY <1>1, <1>2, <1>7, <1>8, <1>9, <1>10 DEF UpgradeInv

\* The inductive invariant: what the run has reported, what each machine has
\* installed, which machines are out and which pods are still to go fit the step
\* of the code the run is at.
THEOREM UpgradeInvariant == Spec => []UpgradeInv
<1>1. UpgradeInv /\ [Next]_vars => UpgradeInv'
  <2> SUFFICES ASSUME UpgradeInv, [Next]_vars PROVE UpgradeInv'
    OBVIOUS
  <2>1. Base /\ ResultFits /\ NodesFit /\ WorkersFit /\ PodsFit /\ OnlyFailuresStayOut
    BY DEF UpgradeInv
  <2>2. Base'
    BY <2>1, BaseNext
  <2> QED BY <2>1, <2>2, ResultNext, NodesNext, PodsNext, OutNext DEF UpgradeInv
<1> QED BY UpgradeInvInit, <1>1, PTL DEF Spec

\* Every variable of the upgrade and of the cluster keeps its type.
THEOREM TypeCorrect == Spec => []TypeOK
<1>1. UpgradeInv => TypeOK
  BY DEF UpgradeInv, Base
<1> QED BY <1>1, UpgradeInvariant, PTL

\* No worker's kubelet is newer than an API server, and no part of a machine
\* newer than the part it depends on, whatever runs failed between two scripts of
\* whatever machines: RollingUpgrade orders the machines, and the scripts of each
\* distribution are ordered too.  The exceptions are the control planes of hollow,
\* whose scripts exited with 0 and did nothing, so that the run went on.
THEOREM VersionsAlwaysFit == Spec => []VersionsFit
<1>1. UpgradeInv => VersionsFit
  <2> SUFFICES ASSUME UpgradeInv PROVE VersionsFit
    OBVIOUS
  <2>1. WorkersFit
    BY DEF UpgradeInv
  <2>2. ASSUME NEW n \in Nodes PROVE PartsFit(machine[n])
    <3>1. Fits(distro, machine[n], toVersion) /\ machine[n] \in Machine
      BY DEF UpgradeInv, NodesFit, MachinesFit, Base, TypeOK
    <3>2. machine[n].api \in Nat /\ machine[n].tool \in Nat
      BY <3>1 DEF Machine
    <3> QED BY <3>1, <3>2 DEF Fits, PartsFit
  <2> QED BY <2>1, <2>2 DEF WorkersFit, VersionsFit
<1> QED BY <1>1, UpgradeInvariant, PTL

\* Only the machine being upgraded and those at which a run failed are cordoned
\* or down: upgradeNode leaves no machine out that it reports as upgraded.
THEOREM OnlyFailuresAreOut == Spec => []OnlyFailuresStayOut
<1>1. UpgradeInv => OnlyFailuresStayOut
  BY DEF UpgradeInv
<1> QED BY <1>1, UpgradeInvariant, PTL

\* A run of RollingUpgrade that returns no error has left no node cordoned and
\* brought every part of every machine to its version, whatever earlier runs left,
\* save where a script of this run exited with 0 and did nothing, and for the agents
\* of k3s, which run the old program until they restart.
THEOREM SuccessIsUpgraded == Spec => []SuccessMeansUpgraded
<1>1. UpgradeInv => SuccessMeansUpgraded
  <2> SUFFICES ASSUME UpgradeInv, outcome = "upgraded"
               PROVE  (\A n \in Nodes : Upgraded(n)) /\ cordoned = {}
    BY DEF SuccessMeansUpgraded
  <2>1. Done = Nodes
    BY DoneNodes DEF UpgradeInv, Base, LoopFits
  <2>2. cordoned \subseteq Nodes
    BY DEF UpgradeInv, Base, TypeOK
  <2> QED BY <2>1, <2>2 DEF UpgradeInv, NodesFit, MachinesFit
<1> QED BY <1>1, UpgradeInvariant, PTL

\* UpgradeResult names the machines in the order of the upgrade, each one it
\* reports as upgraded is, as far as its scripts have had their effect, and its
\* counters are those of its list.
THEOREM ResultIsTrue == Spec => []ResultTellsTheTruth
<1>1. UpgradeInv => ResultTellsTheTruth
  <2> SUFFICES ASSUME UpgradeInv PROVE ResultTellsTheTruth
    OBVIOUS
  <2>1. /\ i \in Nat \ {0} /\ completed = i - 1
        /\ failed = IF outcome = "failed" THEN 1 ELSE 0
        /\ outcome = "failed" => i <= Len(ordered)
    BY OrderLen DEF UpgradeInv, Base, TypeOK, LoopFits
  <2>2. nodes \in Seq(Nodes \X BOOLEAN)
    BY DEF UpgradeInv, Base, TypeOK
  <2>3. ASSUME NEW j \in 1 .. i - 1
        PROVE  /\ nodes[j][1] = ordered[j] /\ nodes[j][2] = TRUE
               /\ Upgraded(ordered[j])
    <3>1. nodes[j] = <<ordered[j], TRUE>>
      BY DEF UpgradeInv, ResultFits
    <3>2. ordered[j] \in Done
      BY DEF Done
    <3> QED BY <3>1, <3>2 DEF UpgradeInv, NodesFit, MachinesFit
  <2>4. Cardinality(1 .. i - 1) = i - 1
    BY <2>1, FS_Interval
  <2>5. CASE outcome = "failed"
    <3>1. /\ Len(nodes) = i /\ nodes[i] = <<ordered[i], FALSE>> /\ failed = 1
      BY <2>1, <2>5 DEF UpgradeInv, ResultFits
    <3>2. nodes[i][1] = ordered[i] /\ nodes[i][2] = FALSE
      BY <3>1
    <3>3. DOMAIN nodes = 1 .. i /\ \A j \in 1 .. i : j \in 1 .. i - 1 \/ j = i
      BY <2>1, <2>2, <3>1
    <3>4. i \in 1 .. i /\ i \notin 1 .. i - 1 /\ 1 .. i - 1 \subseteq 1 .. i
      BY <2>1
    <3>5. {j \in DOMAIN nodes : nodes[j][2]} = 1 .. i - 1
      BY <2>3, <3>2, <3>3, <3>4
    <3>6. {j \in DOMAIN nodes : ~nodes[j][2]} = {i}
      BY <2>3, <3>2, <3>3, <3>4
    <3>7. Cardinality({i}) = 1
      BY FS_Singleton
    <3>8. completed = Cardinality({j \in DOMAIN nodes : nodes[j][2]})
      BY <2>1, <2>4, <3>5
    <3>9. failed = Cardinality({j \in DOMAIN nodes : ~nodes[j][2]})
      BY <3>1, <3>6, <3>7
    <3>10. ASSUME NEW j \in DOMAIN nodes
           PROVE  /\ nodes[j][1] = ordered[j]
                  /\ nodes[j][2] => Upgraded(nodes[j][1])
                  /\ ~nodes[j][2] => j = Len(nodes) /\ outcome = "failed"
      <4>1. CASE j \in 1 .. i - 1
        BY <2>3, <4>1
      <4>2. CASE j = i
        BY <2>5, <3>1, <3>2, <4>2
      <4> QED BY <3>3, <4>1, <4>2
    <3> QED BY <3>8, <3>9, <3>10 DEF ResultTellsTheTruth
  <2>6. CASE outcome # "failed"
    <3>1. Len(nodes) = i - 1 /\ failed = 0
      BY <2>1, <2>6 DEF UpgradeInv, ResultFits
    <3>2. DOMAIN nodes = 1 .. i - 1
      BY <2>2, <3>1
    <3>3. {j \in DOMAIN nodes : nodes[j][2]} = 1 .. i - 1
      BY <2>3, <3>2
    <3>4. {j \in DOMAIN nodes : ~nodes[j][2]} = {}
      BY <2>3, <3>2
    <3>5. Cardinality({}) = 0
      BY FS_EmptySet
    <3>6. completed = Cardinality({j \in DOMAIN nodes : nodes[j][2]})
      BY <2>1, <2>4, <3>3
    <3>7. failed = Cardinality({j \in DOMAIN nodes : ~nodes[j][2]})
      BY <3>1, <3>4, <3>5
    <3> QED BY <2>3, <3>2, <3>6, <3>7 DEF ResultTellsTheTruth
  <2> QED BY <2>5, <2>6
<1> QED BY <1>1, UpgradeInvariant, PTL

\* DrainNode is over when the scripts of a machine run: it takes no new pods, and
\* without Force each ordinary pod on it has been told to end.
THEOREM DrainedFirst == Spec => []DrainedBeforeScripts
<1>1. UpgradeInv => DrainedBeforeScripts
  BY DEF UpgradeInv, PodsFit, DrainedBeforeScripts
<1> QED BY <1>1, UpgradeInvariant, PTL
====

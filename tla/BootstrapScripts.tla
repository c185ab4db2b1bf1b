-------------------------- MODULE BootstrapScripts --------------------------
(***************************************************************************)
(* The bootstrap providers of pkg/providers/bootstrap.  Each operation     *)
(* returns the files to write to a machine and the scripts to run there,   *)
(* and changes nothing itself.  A script is one command here; its text is  *)
(* abstracted to the command and the arguments that decide what it does.   *)
(*                                                                         *)
(* `Able', `Effects' and `After' say what the commands do to a machine.    *)
(* They stand for programs outside the repository.  A script that exits    *)
(* with 0 may have done nothing: a download is piped into a shell without  *)
(* pipefail, and a script of several lines has the status of its last.     *)
(***************************************************************************)
EXTENDS Naturals, Sequences

Distros == {"k3s", "k0s", "kubeadm", "talos"}
MachineRoles == {"control-plane", "worker"}

\* The fields of provider.ClusterSpec the scripts depend on.
ClusterSpec == [version : Nat, HAEnabled : BOOLEAN]

\* BootstrapData with its files, then its scripts.
Data(files, scripts) == [files |-> files, scripts |-> scripts]

-----------------------------------------------------------------------------
(* The scripts.                                                            *)

\* k3s: `curl | sh' of an installer, which installs and starts the server or
\* the agent; the server when it is told neither which nor the URL of one.
InstallK3s(v, role) == [do |-> "install-k3s", version |-> v, role |-> role]
Untold == "untold"

K3sInitControlPlane(cluster) == Data({}, <<InstallK3s(cluster.version, "control-plane")>>)
K3sJoinControlPlane(cluster) == Data({}, <<InstallK3s(cluster.version, "control-plane")>>)
K3sJoinWorker(cluster)       == Data({}, <<InstallK3s(cluster.version, "worker")>>)

\* There is one uninstall script for servers and one for agents.
K3sUninstall(role) ==
  Data({}, <<[do |-> "uninstall-k3s",
              role |-> IF role \in {"worker", "agent"} THEN "worker" ELSE "control-plane"]>>)
K3sUpgrade(v) == Data({}, <<InstallK3s(v, Untold)>>)

\* k0s: `curl | sh' gets the program; set the service up from a file, start it.
\* A controller runs a kubelet of its own only with --enable-worker.
GetK0s(v) == [do |-> "get-k0s", version |-> v]
SetupK0s(role, kubelet, file) ==
  [do |-> "setup-k0s", role |-> role, node |-> kubelet, from |-> file]
StartK0s == [do |-> "start-k0s"]
StopK0s  == [do |-> "stop-k0s"]
ResetK0s == [do |-> "reset-k0s"]

K0sInitControlPlane(cluster) ==
  Data({"k0s.yaml"},
       <<GetK0s(cluster.version), SetupK0s("control-plane", cluster.HAEnabled, "k0s.yaml"),
         StartK0s>>)
K0sJoinControlPlane(cluster) ==
  Data({"token"},
       <<GetK0s(cluster.version), SetupK0s("control-plane", FALSE, "token"), StartK0s>>)
K0sJoinWorker(cluster) ==
  Data({"token"}, <<GetK0s(cluster.version), SetupK0s("worker", TRUE, "token"), StartK0s>>)
\* Mutant: the service is stopped and stays installed.
K0sUninstallStopsOnly == Data({}, <<StopK0s>>)
K0sUninstall == Data({}, <<StopK0s, ResetK0s>>)
\* Mutant: the program is replaced under services that go on running the old one.
K0sUpgradeWithoutRestart(v) == Data({}, <<GetK0s(v)>>)
K0sUpgrade(v) == Data({}, <<StopK0s, GetK0s(v), StartK0s>>)

\* kubeadm: packages for kubeadm and the kubelet, which are held, and kubeadm
\* itself.
InstallPackages(v) == [do |-> "install-packages", version |-> v]
RunKubeadm(role)   == [do |-> "kubeadm-init-or-join", role |-> role]
ResetKubeadm       == [do |-> "kubeadm-reset"]
PurgePackages      == [do |-> "purge-packages"]
UpgradeKubeadm(v)  == [do |-> "upgrade-kubeadm", version |-> v]
ApplyUpgrade(v)    == [do |-> "kubeadm-upgrade-apply", version |-> v]
UpgradeKubelet(v)  == [do |-> "upgrade-kubelet", version |-> v]

KubeadmInitControlPlane(cluster) ==
  Data({}, <<InstallPackages(cluster.version), RunKubeadm("control-plane")>>)
KubeadmJoinControlPlane(cluster) ==
  Data({}, <<InstallPackages(cluster.version), RunKubeadm("control-plane")>>)
KubeadmJoinWorker(cluster) ==
  Data({}, <<InstallPackages(cluster.version), RunKubeadm("worker")>>)
KubeadmUninstall == Data({}, <<ResetKubeadm, PurgePackages>>)
\* Mutant: the kubelet is upgraded before the control plane.
KubeadmUpgradeKubeletFirst(v) == Data({}, <<UpgradeKubeadm(v), UpgradeKubelet(v), ApplyUpgrade(v)>>)
KubeadmUpgrade(v) == Data({}, <<UpgradeKubeadm(v), ApplyUpgrade(v), UpgradeKubelet(v)>>)

\* talos: the configurations are generated once, with the first control plane;
\* its machines run an image, and the version of the cluster is not asked for.
GenConfig         == [do |-> "gen-config"]
ApplyConfig(role) == [do |-> "apply-config", role |-> role]
BootstrapTalos    == [do |-> "bootstrap"]
ResetTalos        == [do |-> "reset-talos"]
UpgradeTalos(v)   == [do |-> "upgrade-talos", version |-> v]

TalosInitControlPlane == Data({}, <<GenConfig, ApplyConfig("control-plane"), BootstrapTalos>>)
TalosJoinControlPlane == Data({}, <<ApplyConfig("control-plane")>>)
TalosJoinWorker       == Data({}, <<ApplyConfig("worker")>>)
TalosUninstall        == Data({}, <<ResetTalos>>)
TalosUpgrade(v)       == Data({}, <<UpgradeTalos(v)>>)

\* The operations of the BootstrapProvider of a distribution.
InitControlPlane(distro, cluster) ==
  CASE distro = "k3s"     -> K3sInitControlPlane(cluster)
    [] distro = "k0s"     -> K0sInitControlPlane(cluster)
    [] distro = "kubeadm" -> KubeadmInitControlPlane(cluster)
    [] distro = "talos"   -> TalosInitControlPlane
JoinControlPlane(distro, cluster) ==
  CASE distro = "k3s"     -> K3sJoinControlPlane(cluster)
    [] distro = "k0s"     -> K0sJoinControlPlane(cluster)
    [] distro = "kubeadm" -> KubeadmJoinControlPlane(cluster)
    [] distro = "talos"   -> TalosJoinControlPlane
JoinWorker(distro, cluster) ==
  CASE distro = "k3s"     -> K3sJoinWorker(cluster)
    [] distro = "k0s"     -> K0sJoinWorker(cluster)
    [] distro = "kubeadm" -> KubeadmJoinWorker(cluster)
    [] distro = "talos"   -> TalosJoinWorker
Uninstall(distro, role) ==
  CASE distro = "k3s"     -> K3sUninstall(role)
    [] distro = "k0s"     -> K0sUninstall
    [] distro = "kubeadm" -> KubeadmUninstall
    [] distro = "talos"   -> TalosUninstall
Upgrade(distro, v) ==
  CASE distro = "k3s"     -> K3sUpgrade(v)
    [] distro = "k0s"     -> K0sUpgrade(v)
    [] distro = "kubeadm" -> KubeadmUpgrade(v)
    [] distro = "talos"   -> TalosUpgrade(v)

-----------------------------------------------------------------------------
(* The machines.                                                           *)

\* The versions of what a machine has of a distribution, 0 for nothing: the
\* tool (the program of k3s or k0s, kubeadm, or the image of talos), the
\* control plane and the kubelet; its role, whether it is to run a kubelet, and
\* whether its services run; whether apt holds its packages, and whether it has
\* a k3s server of its own, which is no part of the cluster.
Machine == [tool : Nat, api : Nat, kubelet : Nat,
            role : MachineRoles \cup {"none"}, node : BOOLEAN, up : BOOLEAN,
            held : BOOLEAN, own : BOOLEAN]

Blank == [tool |-> 0, api |-> 0, kubelet |-> 0, role |-> "none", node |-> FALSE, up |-> FALSE,
          held |-> FALSE, own |-> FALSE]

\* A machine of a role runs, all of its parts at one version.
RunsAt(m, v, role) ==
  /\ m.up /\ m.role = role
  /\ m.tool = v /\ m.kubelet = v /\ m.api = IF role = "control-plane" THEN v ELSE 0

\* What a machine is once its tool serves all of its parts.
Started(m) ==
  [m EXCEPT !.up = TRUE,
            !.api = IF m.role = "control-plane" THEN m.tool ELSE 0,
            !.kubelet = IF m.node THEN m.tool ELSE 0]

\* A machine that is no part of a cluster and keeps its tool.
Unset(m) == [Blank EXCEPT !.tool = m.tool, !.own = m.own]

\* The command can succeed on the machine m beside the given files: apt-get
\* changes no package that is held, kubeadm upgrades only a control plane, and
\* there is an uninstall script of k3s for each service it has.
Able(c, m, files) ==
  CASE c.do = "uninstall-k3s" -> m.role = c.role \/ (m.own /\ c.role = "control-plane")
    [] c.do = "setup-k0s"     -> m.tool > 0 /\ c.from \in files
    [] c.do = "start-k0s"     -> m.tool > 0 /\ m.role # "none"
    [] c.do = "stop-k0s"      -> m.tool > 0
    [] c.do = "reset-k0s"     -> m.tool > 0 /\ ~m.up
    [] c.do \in {"kubeadm-init-or-join", "kubeadm-reset"} -> m.tool > 0
    [] c.do = "purge-packages"  -> ~m.held
    [] c.do = "upgrade-kubeadm" -> m.held => m.tool = c.version
    [] c.do = "kubeadm-upgrade-apply" -> m.role = "control-plane" /\ m.tool = c.version
    [] c.do = "upgrade-kubelet" -> m.held => m.kubelet = c.version
    [] c.do = "apply-config"  -> "talos-config" \in files
    [] c.do \in {"bootstrap", "upgrade-talos"} -> m.role # "none"
    [] OTHER -> TRUE

\* The installer of k3s.  As a server it takes over the one that is there.  Not
\* told its role, it puts the new program under an agent, which goes on running
\* the old one until it restarts, and starts a server beside it.
K3sInstalled(c, m) ==
  IF c.role # Untold
    THEN {Started([m EXCEPT !.tool = c.version, !.node = TRUE, !.role = c.role,
                            !.own = m.own /\ c.role = "worker"])}
  ELSE IF m.role = "control-plane" THEN {Started([m EXCEPT !.tool = c.version])}
  ELSE {[m EXCEPT !.tool = c.version, !.own = TRUE, !.kubelet = v] :
          v \in IF m.role = "worker" THEN {m.kubelet, c.version} ELSE {m.kubelet}}

\* The uninstall script of a service of k3s; that of the agent leaves the
\* program to a server that is there.
K3sUninstalled(c, m) ==
  IF c.role = "worker" /\ m.own THEN Unset(m)
  ELSE IF m.role = "worker" /\ c.role = "control-plane" THEN [m EXCEPT !.own = FALSE]
  ELSE Blank

\* What the command makes of the machine when it does its work.
Effects(c, m) ==
  CASE c.do = "install-k3s"   -> K3sInstalled(c, m)
    [] c.do = "uninstall-k3s" -> {K3sUninstalled(c, m)}
    [] c.do = "get-k0s"       -> {[m EXCEPT !.tool = c.version]}
    [] c.do = "setup-k0s"     -> {[m EXCEPT !.role = c.role, !.node = c.node]}
    [] c.do = "start-k0s"     -> {Started(m)}
    [] c.do = "stop-k0s"      -> {[m EXCEPT !.up = FALSE]}
    [] c.do \in {"reset-k0s", "reset-talos"} -> {Unset(m)}
    [] c.do = "install-packages" ->
         {[m EXCEPT !.tool = c.version, !.kubelet = c.version, !.held = TRUE]}
    [] c.do = "kubeadm-init-or-join" ->
         {[m EXCEPT !.role = c.role, !.node = TRUE, !.up = TRUE,
                    !.api = IF c.role = "control-plane" THEN m.tool ELSE 0]}
    [] c.do = "kubeadm-reset" ->
         {[m EXCEPT !.role = "none", !.node = FALSE, !.up = FALSE, !.api = 0]}
    [] c.do = "purge-packages"  -> {[m EXCEPT !.tool = 0, !.kubelet = 0]}
    [] c.do = "upgrade-kubeadm" -> {[m EXCEPT !.tool = c.version]}
    [] c.do = "kubeadm-upgrade-apply" -> {[m EXCEPT !.api = c.version]}
    [] c.do = "upgrade-kubelet" -> {[m EXCEPT !.kubelet = c.version]}
    [] c.do = "apply-config"  -> {Started([m EXCEPT !.role = c.role, !.node = TRUE])}
    [] c.do = "upgrade-talos" -> {Started([m EXCEPT !.tool = c.version])}
    [] OTHER -> {m}

\* The packages that are there are held at another version: apt-get refuses, and
\* only its last line says how the script ends.
Refused(c, m) ==
  c.do = "install-packages" /\ m.held /\ ~(m.tool = c.version /\ m.kubelet = c.version)

\* The states it may leave when it exits with 0, and when it fails half way.
After(c, m) ==
  IF Refused(c, m) THEN {m}
  ELSE Effects(c, m) \cup
         CASE c.do \in {"install-k3s", "get-k0s"} -> {m}
           [] c.do = "install-packages" -> {[m EXCEPT !.held = @ \/ m.tool > 0]}
           [] OTHER -> {}
AfterFailure(c, m) ==
  {m} \cup
    IF c.do = "install-packages"
      THEN {[is EXCEPT !.held = m.held] : is \in After(c, m)}
      ELSE Effects(c, m)

\* What it leaves beside the machine's files.
FilesAfter(c, files) == IF c.do = "gen-config" THEN files \cup {"talos-config"} ELSE files

\* The parts of a machine may run together: no part is newer than the one it
\* depends on.
PartsFit(m) ==
  /\ m.api <= m.tool
  /\ m.role = "control-plane" /\ m.up => m.kubelet <= m.api
=============================================================================

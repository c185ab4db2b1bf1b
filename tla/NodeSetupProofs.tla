--------------------------- MODULE NodeSetupProofs ---------------------------
(***************************************************************************)
(* The machines of a cluster run whole and keep the promises of their last *)
(* operations, for any machines and versions, any sequence of operations,  *)
(* scripts that fail, or exit with 0 and do nothing, and all four          *)
(* distributions; and the waits end in time and do not give up early, for  *)
(* every timeout, pause and interval, and calls of any length.             *)
(*                                                                         *)
(* RunsWhole is not inductive.  Whether a script leaves the parts of a     *)
(* machine fitting depends on those before it and on where an attempt that *)
(* failed has left the machine: `Fits' says this for every distribution,   *)
(* `At' how far the operation that is going on has got.                    *)
(*                                                                         *)
(* WaitsEndInTime is not inductive either: how far the clock may get       *)
(* depends on when the call or the pause that is going on began, and that  *)
(* on when the ticker ticked last.  TimesFit says how these hang together. *)
(***************************************************************************)
EXTENDS NodeSetup, TLAPS

-----------------------------------------------------------------------------
(* The machines.                                                           *)

Parts(tool, api, kubelet, role, kub, up, held, own) ==
  [tool |-> tool, api |-> api, kubelet |-> kubelet, role |-> role, node |-> kub, up |-> up,
   held |-> held, own |-> own]

\* A machine with these parts.
Has(x, tool, api, kubelet, role, kub, up, held, own) ==
  /\ x \in Machine
  /\ x.tool = tool /\ x.api = api /\ x.kubelet = kubelet
  /\ x.role = role /\ x.node = kub /\ x.up = up
  /\ x.held = held /\ x.own = own

\* The parts a control plane has, and a worker has not.
OfRole(role, v) == IF role = "control-plane" THEN v ELSE 0

\* Nothing of the distribution but its tool is left.
Gone(is) ==
  is.api = 0 /\ is.kubelet = 0 /\ is.role = "none" /\ is.node = FALSE /\ is.up = FALSE

\* All the parts of a role run at the version of the tool, which are those of
\* the control plane here.
Serves(is) ==
  /\ is.up /\ is.role \in MachineRoles
  /\ is.tool > 0
  /\ is.api = OfRole(is.role, is.tool)

Runs(is) == Serves(is) /\ is.node = TRUE /\ is.kubelet = is.tool

\* What the last operation on a machine is or was.
Names == {"init", "join", "upgrade", "uninstall"}
Record == [name : Names, role : MachineRoles, version : Nat, done : BOOLEAN, hollow : BOOLEAN]
Adding(l)   == l.name \in {"init", "join"} /\ ~l.done
Promised(l) == l.name # "uninstall" /\ l.done
TakenOut(l) == l.name = "uninstall" /\ l.done

\* The role and the version that were asked for.
Asked(is, l) ==
  /\ l.name # "upgrade" => is.role = l.role
  /\ is.role # "none" => is.tool = l.version

\* k3s: its installer and its uninstaller do all at once.  A server of its own
\* is beside an agent, or where nothing else is.
K3sFits(is, v, l) ==
  /\ is.held = FALSE
  /\ \/ Gone(is) /\ (is.own <=> is.tool > 0)
     \/ /\ Serves(is) /\ is.node = TRUE
        /\ is.own => is.role = "worker"
        /\ ~is.own => is.kubelet = is.tool
  /\ Promised(l) /\ ~l.hollow => Asked(is, l)
  /\ TakenOut(l) => Gone(is) /\ (is.own => l.role = "worker")

K3sAt(is, v, l, scripts, k) ==
  \/ /\ l.name # "uninstall"
     /\ scripts = <<InstallK3s(v, IF l.name = "upgrade" THEN Untold ELSE l.role)>>
     /\ k > 1 /\ ~l.hollow => Asked(is, l)
  \/ /\ l.name = "uninstall"
     /\ scripts = K3sUninstall(l.role).scripts
     /\ k = 1 => is.role \in {"none", l.role}
     /\ k > 1 => Gone(is) /\ (is.own => l.role = "worker")

\* k0s: the tool is never older than what runs, and is replaced under services
\* that go on running.
K0sRuns(is) ==
  is.up /\ is.api = OfRole(is.role, is.tool) /\ is.kubelet = IF is.node THEN is.tool ELSE 0

K0sFits(is, v, l) ==
  /\ is.held = FALSE /\ is.own = FALSE
  /\ is.tool <= v /\ is.api <= is.tool
  /\ is.up => /\ is.role \in MachineRoles /\ is.tool > 0
              /\ is.role = "control-plane" => is.kubelet <= is.api
  /\ Adding(l) => is.role \in {"none", l.role}
  /\ Promised(l) => K0sRuns(is) /\ (~l.hollow => Asked(is, l))
  /\ TakenOut(l) => Gone(is)

K0sAt(is, v, l, scripts, k) ==
  \/ /\ l.name \in {"init", "join"}
     /\ \E kub \in BOOLEAN, file \in {"k0s.yaml", "token"} :
          scripts = <<GetK0s(v), SetupK0s(l.role, kub, file), StartK0s>>
     /\ k > 1 /\ ~l.hollow => is.tool = v
     /\ k > 2 => is.role = l.role
     /\ k > 3 => K0sRuns(is)
  \/ /\ l.name = "upgrade"
     /\ scripts = <<StopK0s, GetK0s(v), StartK0s>>
     /\ k > 2 /\ ~l.hollow => is.tool = v
     /\ k > 3 => K0sRuns(is)
  \/ /\ l.name = "uninstall"
     /\ scripts = <<StopK0s, ResetK0s>>
     /\ k > 2 => Gone(is)

\* kubeadm: a part is upgraded when the one it depends on has been.
KubeadmFits(is, v, l) ==
  /\ is.own = FALSE
  /\ is.kubelet <= is.tool /\ is.tool <= v /\ is.api <= is.tool
  /\ is.held => is.tool > 0
  /\ is.up => is.role \in MachineRoles /\ is.node = TRUE /\ is.tool > 0
  /\ ~is.up => is.role = "none" /\ is.node = FALSE
  /\ is.role = "control-plane" => is.kubelet <= is.api
  /\ is.role # "control-plane" => is.api = 0
  /\ Adding(l) => /\ is.tool \in {0, v} /\ is.kubelet = is.tool
                  /\ is.up => is.api = OfRole(is.role, v)
  /\ Promised(l) => Runs(is) /\ Asked(is, l)
  /\ TakenOut(l) => Gone(is) /\ is.tool = 0

KubeadmAt(is, v, l, scripts, k) ==
  \/ /\ l.name \in {"init", "join"}
     /\ scripts = <<InstallPackages(v), RunKubeadm(l.role)>>
     /\ k > 2 => is.up /\ is.role = l.role
  \/ /\ l.name = "upgrade"
     /\ scripts = <<UpgradeKubeadm(v), ApplyUpgrade(v), UpgradeKubelet(v)>>
     /\ k > 1 => is.tool = v
     /\ k > 2 => is.role = "control-plane" /\ is.api = v
     /\ k > 3 => is.kubelet = v
  \/ /\ l.name = "uninstall"
     /\ scripts = <<ResetKubeadm, PurgePackages>>
     /\ k > 1 => is.up = FALSE
     /\ k > 2 => is.tool = 0 /\ is.kubelet = 0

\* talos: the image is always there, and applying a configuration starts it.
TalosFits(is, v, l) ==
  /\ is.held = FALSE /\ is.own = FALSE
  /\ is.tool > 0
  /\ Gone(is) \/ Runs(is)
  /\ Promised(l) => /\ Runs(is)
                    /\ l.name # "upgrade" => is.role = l.role
                    /\ l.name = "upgrade" => is.tool = l.version
  /\ TakenOut(l) => Gone(is)

TalosAt(is, v, l, scripts, k) ==
  \/ /\ l.name = "init" /\ l.role = "control-plane"
     /\ scripts = <<GenConfig, ApplyConfig("control-plane"), BootstrapTalos>>
     /\ k > 2 => Runs(is) /\ is.role = l.role
  \/ /\ l.name = "join"
     /\ scripts = <<ApplyConfig(l.role)>>
     /\ k > 1 => Runs(is) /\ is.role = l.role
  \/ /\ l.name = "upgrade"
     /\ scripts = <<UpgradeTalos(v)>>
     /\ k > 1 => Runs(is) /\ is.tool = v
  \/ /\ l.name = "uninstall"
     /\ scripts = <<ResetTalos>>
     /\ k > 1 => Gone(is)

\* What a machine is between operations, and how far one is.
Fits(d, is, v, l) ==
  /\ d = "k3s"     => K3sFits(is, v, l)
  /\ d = "k0s"     => K0sFits(is, v, l)
  /\ d = "kubeadm" => KubeadmFits(is, v, l)
  /\ d = "talos"   => TalosFits(is, v, l)

At(d, is, v, l, scripts, k) ==
  /\ Len(scripts) \in Nat /\ k \in 1 .. Len(scripts) + 1
  /\ l.done = FALSE
  /\ l.name # "uninstall" => l.version = v
  /\ d = "k3s"     => K3sAt(is, v, l, scripts, k)
  /\ d = "k0s"     => K0sAt(is, v, l, scripts, k)
  /\ d = "kubeadm" => KubeadmAt(is, v, l, scripts, k)
  /\ d = "talos"   => TalosAt(is, v, l, scripts, k)

SetupTyped ==
  /\ distro \in Distros
  /\ cluster \in [version : Nat, HAEnabled : BOOLEAN] /\ cluster.version > 0
  /\ machine \in [Machines -> Machine]
  /\ last \in [Machines -> Record]
  /\ \A m \in Machines : last[m].name = "init" => last[m].role = "control-plane"

MachinesFit == \A m \in Machines : Fits(distro, machine[m], cluster.version, last[m])

OperationFits ==
  \/ op = NoOperation
  \/ /\ op.on \in Machines
     /\ op.written \in BOOLEAN
     /\ At(distro, machine[op.on], cluster.version, last[op.on], op.data.scripts, op.script)

SetupInv == SetupTyped /\ MachinesFit /\ OperationFits

-----------------------------------------------------------------------------
(* What the commands make of a machine.                                    *)

\* The updates the commands consist of, one part at a time.
LEMMA PartUpdates ==
  ASSUME NEW m \in Machine, NEW v \in Nat, NEW b \in BOOLEAN
  PROVE  /\ [m EXCEPT !.up = b] =
              Parts(m.tool, m.api, m.kubelet, m.role, m.node, b, m.held, m.own)
         /\ [m EXCEPT !.tool = v] =
              Parts(v, m.api, m.kubelet, m.role, m.node, m.up, m.held, m.own)
         /\ [m EXCEPT !.api = v] =
              Parts(m.tool, v, m.kubelet, m.role, m.node, m.up, m.held, m.own)
         /\ [m EXCEPT !.kubelet = v] =
              Parts(m.tool, m.api, v, m.role, m.node, m.up, m.held, m.own)
         /\ [m EXCEPT !.held = b] =
              Parts(m.tool, m.api, m.kubelet, m.role, m.node, m.up, b, m.own)
<1>1. [m EXCEPT !.up = b] = Parts(m.tool, m.api, m.kubelet, m.role, m.node, b, m.held, m.own)
  BY DEF Machine, Parts
<1>2. [m EXCEPT !.tool = v] = Parts(v, m.api, m.kubelet, m.role, m.node, m.up, m.held, m.own)
  BY DEF Machine, Parts
<1>3. [m EXCEPT !.api = v] = Parts(m.tool, v, m.kubelet, m.role, m.node, m.up, m.held, m.own)
  BY DEF Machine, Parts
<1>4. [m EXCEPT !.kubelet = v] = Parts(m.tool, m.api, v, m.role, m.node, m.up, m.held, m.own)
  BY DEF Machine, Parts
<1>5. [m EXCEPT !.held = b] = Parts(m.tool, m.api, m.kubelet, m.role, m.node, m.up, b, m.own)
  BY DEF Machine, Parts
<1> QED BY <1>1, <1>2, <1>3, <1>4, <1>5

\* A machine is its parts.
LEMMA MachineIsParts ==
  ASSUME NEW m \in Machine
  PROVE  m = Parts(m.tool, m.api, m.kubelet, m.role, m.node, m.up, m.held, m.own)
BY DEF Machine, Parts

\* A machine is typed.
LEMMA MachineFields ==
  ASSUME NEW m \in Machine
  PROVE  /\ m.tool \in Nat /\ m.api \in Nat /\ m.kubelet \in Nat
         /\ m.role \in MachineRoles \cup {"none"}
         /\ m.node \in BOOLEAN /\ m.up \in BOOLEAN /\ m.held \in BOOLEAN /\ m.own \in BOOLEAN
BY DEF Machine

LEMMA OfRoleIsVersion ==
  ASSUME NEW role, NEW v \in Nat
  PROVE  OfRole(role, v) \in Nat /\ OfRole(role, v) <= v
BY DEF OfRole

LEMMA StartedParts ==
  ASSUME NEW m \in Machine
  PROVE  Started(m) = Parts(m.tool, OfRole(m.role, m.tool), IF m.node THEN m.tool ELSE 0,
                            m.role, m.node, TRUE, m.held, m.own)
<1> DEFINE n == Started(m)
<1>1. n \in Machine
  BY DEF Machine, Started
<1>2. /\ n.tool = m.tool /\ n.api = OfRole(m.role, m.tool)
      /\ n.kubelet = IF m.node THEN m.tool ELSE 0
  BY DEF Machine, Started, OfRole
<1>3. n.role = m.role /\ n.node = m.node /\ n.up = TRUE /\ n.held = m.held /\ n.own = m.own
  BY DEF Machine, Started
<1> HIDE DEF n
<1>4. n = Parts(n.tool, n.api, n.kubelet, n.role, n.node, n.up, n.held, n.own)
  BY <1>1, MachineIsParts
<1> QED BY <1>2, <1>3, <1>4 DEF n

LEMMA BlankParts == Blank = Parts(0, 0, 0, "none", FALSE, FALSE, FALSE, FALSE)
BY DEF Blank, Parts

LEMMA UnsetParts ==
  ASSUME NEW m \in Machine
  PROVE  Unset(m) = Parts(m.tool, 0, 0, "none", FALSE, FALSE, FALSE, m.own)
<1>1. m.tool \in Nat /\ m.own \in BOOLEAN
  BY DEF Machine
<1>2. Blank \in Machine
  BY DEF Blank, Machine
<1>3. /\ Blank.api = 0 /\ Blank.kubelet = 0 /\ Blank.role = "none"
      /\ Blank.node = FALSE /\ Blank.up = FALSE /\ Blank.held = FALSE
  BY DEF Blank
<1> DEFINE n == [Blank EXCEPT !.tool = m.tool, !.own = m.own]
<1>4. n \in Machine
  BY <1>1, <1>2 DEF Machine
<1>5. /\ n.tool = m.tool /\ n.api = 0 /\ n.kubelet = 0 /\ n.role = "none"
      /\ n.node = FALSE /\ n.up = FALSE /\ n.held = FALSE /\ n.own = m.own
  BY <1>2, <1>3 DEF Machine
<1> HIDE DEF n
<1>6. n = Parts(n.tool, n.api, n.kubelet, n.role, n.node, n.up, n.held, n.own)
  BY <1>4, MachineIsParts
<1>7. n = Parts(m.tool, 0, 0, "none", FALSE, FALSE, FALSE, m.own)
  BY <1>5, <1>6
<1> QED BY <1>7 DEF Unset, n

\* What has none of its parts and is not held is blank but for its tool.
LEMMA GoneIsUnset ==
  ASSUME NEW m \in Machine, Gone(m), m.held = FALSE
  PROVE  m = [Blank EXCEPT !.tool = m.tool, !.own = m.own]
<1>1. m = Parts(m.tool, m.api, m.kubelet, m.role, m.node, m.up, m.held, m.own)
  BY MachineIsParts
<1>2. m = Parts(m.tool, 0, 0, "none", FALSE, FALSE, FALSE, m.own)
  BY <1>1 DEF Gone
<1>3. Unset(m) = Parts(m.tool, 0, 0, "none", FALSE, FALSE, FALSE, m.own)
  BY UnsetParts
<1>4. m = Unset(m)
  BY <1>2, <1>3
<1> QED BY <1>4 DEF Unset

\* k3s.
LEMMA K3sEffects ==
  ASSUME NEW m \in Machine, NEW v \in Nat
  PROVE  /\ \A role \in MachineRoles : \A x \in Effects(InstallK3s(v, role), m) :
              Has(x, v, OfRole(role, v), v, role, TRUE, TRUE, m.held, m.own /\ role = "worker")
         /\ m.role = "control-plane" => \A x \in Effects(InstallK3s(v, Untold), m) :
              Has(x, v, v, IF m.node THEN v ELSE 0, m.role, m.node, TRUE, m.held, m.own)
         /\ m.role # "control-plane" => \A x \in Effects(InstallK3s(v, Untold), m) :
              /\ Has(x, v, m.api, x.kubelet, m.role, m.node, m.up, m.held, TRUE)
              /\ m.role = "none" => x.kubelet = m.kubelet
         /\ \A role : Effects(K3sUninstall(role).scripts[1], m) =
                        {K3sUninstalled(K3sUninstall(role).scripts[1], m)}
<1>0. /\ m.tool \in Nat /\ m.api \in Nat /\ m.kubelet \in Nat
      /\ m.role \in MachineRoles \cup {"none"}
      /\ m.node \in BOOLEAN /\ m.up \in BOOLEAN /\ m.held \in BOOLEAN /\ m.own \in BOOLEAN
  BY MachineFields
<1>1. ASSUME NEW role \in MachineRoles, NEW x \in Effects(InstallK3s(v, role), m)
      PROVE  Has(x, v, OfRole(role, v), v, role, TRUE, TRUE, m.held, m.own /\ role = "worker")
  <2> DEFINE o == m.own /\ role = "worker"
             n == [m EXCEPT !.tool = v, !.node = TRUE, !.role = role, !.own = o]
  <2>0. o \in BOOLEAN
    OBVIOUS
  <2>1. x = Started(n)
    BY DEF Effects, K3sInstalled, InstallK3s, Untold, MachineRoles
  <2> HIDE DEF o
  <2>2. n \in Machine
    BY <2>0 DEF Machine
  <2>3. n.tool = v /\ n.role = role /\ n.node = TRUE /\ n.held = m.held /\ n.own = o
    BY DEF Machine
  <2> HIDE DEF n
  <2>4. x = Parts(v, OfRole(role, v), v, role, TRUE, TRUE, m.held, o)
    BY <2>1, <2>2, <2>3, StartedParts
  <2>5. OfRole(role, v) \in Nat
    BY OfRoleIsVersion
  <2> QED BY <1>0, <2>0, <2>4, <2>5 DEF Parts, Machine, Has, o
<1>2. ASSUME m.role = "control-plane", NEW x \in Effects(InstallK3s(v, Untold), m)
      PROVE  Has(x, v, v, IF m.node THEN v ELSE 0, m.role, m.node, TRUE, m.held, m.own)
  <2> DEFINE n == [m EXCEPT !.tool = v]
  <2>1. x = Started(n)
    BY <1>2 DEF Effects, K3sInstalled, InstallK3s
  <2>2. n \in Machine
    BY DEF Machine
  <2>3. n.tool = v /\ n.role = m.role /\ n.node = m.node /\ n.held = m.held /\ n.own = m.own
    BY DEF Machine
  <2> HIDE DEF n
  <2> DEFINE kubelet == IF m.node THEN v ELSE 0
  <2>4. x = Parts(v, OfRole(m.role, v), kubelet, m.role, m.node, TRUE, m.held, m.own)
    BY <2>1, <2>2, <2>3, StartedParts
  <2>5. OfRole(m.role, v) = v /\ kubelet \in Nat
    BY <1>2 DEF OfRole
  <2> HIDE DEF kubelet
  <2>6. Has(x, v, v, kubelet, m.role, m.node, TRUE, m.held, m.own)
    BY <1>0, <2>4, <2>5 DEF Parts, Machine, Has
  <2> QED BY <2>6 DEF kubelet
<1>3. ASSUME m.role # "control-plane", NEW x \in Effects(InstallK3s(v, Untold), m)
      PROVE  /\ Has(x, v, m.api, x.kubelet, m.role, m.node, m.up, m.held, TRUE)
             /\ m.role = "none" => x.kubelet = m.kubelet
  <2>1. PICK w \in IF m.role = "worker" THEN {m.kubelet, v} ELSE {m.kubelet} :
          x = [m EXCEPT !.tool = v, !.own = TRUE, !.kubelet = w]
    BY <1>3 DEF Effects, K3sInstalled, InstallK3s, Untold, MachineRoles
  <2>2. w \in Nat /\ (m.role = "none" => w = m.kubelet)
    BY <1>0
  <2>3. x = Parts(v, m.api, w, m.role, m.node, m.up, m.held, TRUE)
    BY <2>1, <2>2 DEF Parts, Machine
  <2>4. Has(x, v, m.api, w, m.role, m.node, m.up, m.held, TRUE)
    BY <1>0, <2>2, <2>3 DEF Parts, Machine, Has
  <2>5. x.kubelet = w
    BY <2>4 DEF Has
  <2> QED BY <2>2, <2>4, <2>5
<1>4. ASSUME NEW role
      PROVE  Effects(K3sUninstall(role).scripts[1], m) =
               {K3sUninstalled(K3sUninstall(role).scripts[1], m)}
  BY DEF Effects, K3sUninstall, Data
<1> QED BY <1>1, <1>2, <1>3, <1>4

\* k0s.
LEMMA K0sEffects ==
  ASSUME NEW m \in Machine, NEW v \in Nat
  PROVE  /\ \A x \in Effects(GetK0s(v), m) :
              Has(x, v, m.api, m.kubelet, m.role, m.node, m.up, m.held, m.own)
         /\ \A role \in MachineRoles, b \in BOOLEAN, file \in {"k0s.yaml", "token"} :
              \A x \in Effects(SetupK0s(role, b, file), m) :
                Has(x, m.tool, m.api, m.kubelet, role, b, m.up, m.held, m.own)
         /\ \A x \in Effects(StartK0s, m) :
              Has(x, m.tool, OfRole(m.role, m.tool), IF m.node THEN m.tool ELSE 0,
                  m.role, m.node, TRUE, m.held, m.own)
         /\ \A x \in Effects(StopK0s, m) :
              Has(x, m.tool, m.api, m.kubelet, m.role, m.node, FALSE, m.held, m.own)
         /\ \A x \in Effects(ResetK0s, m) :
              Has(x, m.tool, 0, 0, "none", FALSE, FALSE, FALSE, m.own)
<1>0. /\ m.tool \in Nat /\ m.api \in Nat /\ m.kubelet \in Nat
      /\ m.role \in MachineRoles \cup {"none"}
      /\ m.node \in BOOLEAN /\ m.up \in BOOLEAN /\ m.held \in BOOLEAN /\ m.own \in BOOLEAN
  BY MachineFields
<1>1. ASSUME NEW x \in Effects(GetK0s(v), m)
      PROVE  Has(x, v, m.api, m.kubelet, m.role, m.node, m.up, m.held, m.own)
  <2>1. x = [m EXCEPT !.tool = v]
    BY DEF Effects, GetK0s
  <2>2. x = Parts(v, m.api, m.kubelet, m.role, m.node, m.up, m.held, m.own)
    BY <2>1, PartUpdates
  <2> QED BY <1>0, <2>2 DEF Parts, Machine, Has
<1>2. ASSUME NEW role \in MachineRoles, NEW b \in BOOLEAN, NEW file \in {"k0s.yaml", "token"},
             NEW x \in Effects(SetupK0s(role, b, file), m)
      PROVE  Has(x, m.tool, m.api, m.kubelet, role, b, m.up, m.held, m.own)
  <2>1. x = [m EXCEPT !.role = role, !.node = b]
    BY DEF Effects, SetupK0s
  <2>2. x = Parts(m.tool, m.api, m.kubelet, role, b, m.up, m.held, m.own)
    BY <2>1 DEF Parts, Machine
  <2> QED BY <1>0, <2>2 DEF Parts, Machine, Has
<1>3. ASSUME NEW x \in Effects(StartK0s, m)
      PROVE  Has(x, m.tool, OfRole(m.role, m.tool), IF m.node THEN m.tool ELSE 0,
                 m.role, m.node, TRUE, m.held, m.own)
  <2> DEFINE kubelet == IF m.node THEN m.tool ELSE 0
  <2>1. x = Started(m)
    BY DEF Effects, StartK0s
  <2>2. x = Parts(m.tool, OfRole(m.role, m.tool), kubelet, m.role, m.node, TRUE, m.held, m.own)
    BY <2>1, StartedParts
  <2>3. OfRole(m.role, m.tool) \in Nat /\ kubelet \in Nat
    BY <1>0, OfRoleIsVersion
  <2> HIDE DEF kubelet
  <2>4. Has(x, m.tool, OfRole(m.role, m.tool), kubelet, m.role, m.node, TRUE, m.held, m.own)
    BY <1>0, <2>2, <2>3 DEF Parts, Machine, Has
  <2> QED BY <2>4 DEF kubelet
<1>4. ASSUME NEW x \in Effects(StopK0s, m)
      PROVE  Has(x, m.tool, m.api, m.kubelet, m.role, m.node, FALSE, m.held, m.own)
  <2>1. x = [m EXCEPT !.up = FALSE]
    BY DEF Effects, StopK0s
  <2>2. x = Parts(m.tool, m.api, m.kubelet, m.role, m.node, FALSE, m.held, m.own)
    BY <2>1, PartUpdates
  <2> QED BY <1>0, <2>2 DEF Parts, Machine, Has
<1>5. ASSUME NEW x \in Effects(ResetK0s, m)
      PROVE  Has(x, m.tool, 0, 0, "none", FALSE, FALSE, FALSE, m.own)
  <2>1. x = Unset(m)
    BY DEF Effects, ResetK0s
  <2>2. x = Parts(m.tool, 0, 0, "none", FALSE, FALSE, FALSE, m.own)
    BY <2>1, UnsetParts
  <2> QED BY <1>0, <2>2 DEF Parts, Machine, Has
<1> QED BY <1>1, <1>2, <1>3, <1>4, <1>5

\* kubeadm.
LEMMA KubeadmEffects ==
  ASSUME NEW m \in Machine, NEW v \in Nat
  PROVE  /\ \A x \in Effects(InstallPackages(v), m) :
              Has(x, v, m.api, v, m.role, m.node, m.up, TRUE, m.own)
         /\ \A role \in MachineRoles : \A x \in Effects(RunKubeadm(role), m) :
              Has(x, m.tool, OfRole(role, m.tool), m.kubelet, role, TRUE, TRUE, m.held, m.own)
         /\ \A x \in Effects(ResetKubeadm, m) :
              Has(x, m.tool, 0, m.kubelet, "none", FALSE, FALSE, m.held, m.own)
         /\ \A x \in Effects(PurgePackages, m) :
              Has(x, 0, m.api, 0, m.role, m.node, m.up, m.held, m.own)
         /\ \A x \in Effects(UpgradeKubeadm(v), m) :
              Has(x, v, m.api, m.kubelet, m.role, m.node, m.up, m.held, m.own)
         /\ \A x \in Effects(ApplyUpgrade(v), m) :
              Has(x, m.tool, v, m.kubelet, m.role, m.node, m.up, m.held, m.own)
         /\ \A x \in Effects(UpgradeKubelet(v), m) :
              Has(x, m.tool, m.api, v, m.role, m.node, m.up, m.held, m.own)
<1>0. /\ m.tool \in Nat /\ m.api \in Nat /\ m.kubelet \in Nat
      /\ m.role \in MachineRoles \cup {"none"}
      /\ m.node \in BOOLEAN /\ m.up \in BOOLEAN /\ m.held \in BOOLEAN /\ m.own \in BOOLEAN
  BY MachineFields
<1>1. ASSUME NEW x \in Effects(InstallPackages(v), m)
      PROVE  Has(x, v, m.api, v, m.role, m.node, m.up, TRUE, m.own)
  <2>1. x = [m EXCEPT !.tool = v, !.kubelet = v, !.held = TRUE]
    BY DEF Effects, InstallPackages
  <2>2. x = Parts(v, m.api, v, m.role, m.node, m.up, TRUE, m.own)
    BY <2>1 DEF Parts, Machine
  <2> QED BY <1>0, <2>2 DEF Parts, Machine, Has
<1>2. ASSUME NEW role \in MachineRoles, NEW x \in Effects(RunKubeadm(role), m)
      PROVE  Has(x, m.tool, OfRole(role, m.tool), m.kubelet, role, TRUE, TRUE, m.held, m.own)
  <2> DEFINE api == OfRole(role, m.tool)
  <2>1. x = [m EXCEPT !.role = role, !.node = TRUE, !.up = TRUE, !.api = api]
    BY DEF Effects, RunKubeadm, OfRole
  <2>2. api \in Nat
    BY <1>0, OfRoleIsVersion
  <2> HIDE DEF api
  <2>3. x = Parts(m.tool, api, m.kubelet, role, TRUE, TRUE, m.held, m.own)
    BY <2>1 DEF Parts, Machine
  <2>4. Has(x, m.tool, api, m.kubelet, role, TRUE, TRUE, m.held, m.own)
    BY <1>0, <2>2, <2>3 DEF Parts, Machine, Has
  <2> QED BY <2>4 DEF api
<1>3. ASSUME NEW x \in Effects(ResetKubeadm, m)
      PROVE  Has(x, m.tool, 0, m.kubelet, "none", FALSE, FALSE, m.held, m.own)
  <2>1. x = [m EXCEPT !.role = "none", !.node = FALSE, !.up = FALSE, !.api = 0]
    BY DEF Effects, ResetKubeadm
  <2>2. x = Parts(m.tool, 0, m.kubelet, "none", FALSE, FALSE, m.held, m.own)
    BY <2>1 DEF Parts, Machine
  <2> QED BY <1>0, <2>2 DEF Parts, Machine, Has
<1>4. ASSUME NEW x \in Effects(PurgePackages, m)
      PROVE  Has(x, 0, m.api, 0, m.role, m.node, m.up, m.held, m.own)
  <2>1. x = [m EXCEPT !.tool = 0, !.kubelet = 0]
    BY DEF Effects, PurgePackages
  <2>2. x = Parts(0, m.api, 0, m.role, m.node, m.up, m.held, m.own)
    BY <2>1 DEF Parts, Machine
  <2> QED BY <1>0, <2>2 DEF Parts, Machine, Has
<1>5. ASSUME NEW x \in Effects(UpgradeKubeadm(v), m)
      PROVE  Has(x, v, m.api, m.kubelet, m.role, m.node, m.up, m.held, m.own)
  <2>1. x = [m EXCEPT !.tool = v]
    BY DEF Effects, UpgradeKubeadm
  <2>2. x = Parts(v, m.api, m.kubelet, m.role, m.node, m.up, m.held, m.own)
    BY <2>1, PartUpdates
  <2> QED BY <1>0, <2>2 DEF Parts, Machine, Has
<1>6. ASSUME NEW x \in Effects(ApplyUpgrade(v), m)
      PROVE  Has(x, m.tool, v, m.kubelet, m.role, m.node, m.up, m.held, m.own)
  <2>1. x = [m EXCEPT !.api = v]
    BY DEF Effects, ApplyUpgrade
  <2>2. x = Parts(m.tool, v, m.kubelet, m.role, m.node, m.up, m.held, m.own)
    BY <2>1, PartUpdates
  <2> QED BY <1>0, <2>2 DEF Parts, Machine, Has
<1>7. ASSUME NEW x \in Effects(UpgradeKubelet(v), m)
      PROVE  Has(x, m.tool, m.api, v, m.role, m.node, m.up, m.held, m.own)
  <2>1. x = [m EXCEPT !.kubelet = v]
    BY DEF Effects, UpgradeKubelet
  <2>2. x = Parts(m.tool, m.api, v, m.role, m.node, m.up, m.held, m.own)
    BY <2>1, PartUpdates
  <2> QED BY <1>0, <2>2 DEF Parts, Machine, Has
<1> QED BY <1>1, <1>2, <1>3, <1>4, <1>5, <1>6, <1>7

\* talos.
LEMMA TalosEffects ==
  ASSUME NEW m \in Machine, NEW v \in Nat
  PROVE  /\ Effects(GenConfig, m) = {m} /\ Effects(BootstrapTalos, m) = {m}
         /\ \A role \in MachineRoles : \A x \in Effects(ApplyConfig(role), m) :
              Has(x, m.tool, OfRole(role, m.tool), m.tool, role, TRUE, TRUE, m.held, m.own)
         /\ \A x \in Effects(ResetTalos, m) :
              Has(x, m.tool, 0, 0, "none", FALSE, FALSE, FALSE, m.own)
         /\ \A x \in Effects(UpgradeTalos(v), m) :
              Has(x, v, OfRole(m.role, v), IF m.node THEN v ELSE 0, m.role, m.node, TRUE,
                  m.held, m.own)
<1>0. /\ m.tool \in Nat /\ m.api \in Nat /\ m.kubelet \in Nat
      /\ m.role \in MachineRoles \cup {"none"}
      /\ m.node \in BOOLEAN /\ m.up \in BOOLEAN /\ m.held \in BOOLEAN /\ m.own \in BOOLEAN
  BY MachineFields
<1>1. Effects(GenConfig, m) = {m} /\ Effects(BootstrapTalos, m) = {m}
  BY DEF Effects, GenConfig, BootstrapTalos
<1>2. ASSUME NEW role \in MachineRoles, NEW x \in Effects(ApplyConfig(role), m)
      PROVE  Has(x, m.tool, OfRole(role, m.tool), m.tool, role, TRUE, TRUE, m.held, m.own)
  <2> DEFINE n == [m EXCEPT !.role = role, !.node = TRUE]
  <2>1. x = Started(n)
    BY DEF Effects, ApplyConfig
  <2>2. n \in Machine
    BY DEF Machine
  <2>3. n.tool = m.tool /\ n.role = role /\ n.node = TRUE /\ n.held = m.held /\ n.own = m.own
    BY DEF Machine
  <2> HIDE DEF n
  <2>4. x = Parts(m.tool, OfRole(role, m.tool), m.tool, role, TRUE, TRUE, m.held, m.own)
    BY <2>1, <2>2, <2>3, StartedParts
  <2>5. OfRole(role, m.tool) \in Nat
    BY <1>0, OfRoleIsVersion
  <2> QED BY <1>0, <2>4, <2>5 DEF Parts, Machine, Has
<1>3. ASSUME NEW x \in Effects(ResetTalos, m)
      PROVE  Has(x, m.tool, 0, 0, "none", FALSE, FALSE, FALSE, m.own)
  <2>1. x = Unset(m)
    BY DEF Effects, ResetTalos
  <2>2. x = Parts(m.tool, 0, 0, "none", FALSE, FALSE, FALSE, m.own)
    BY <2>1, UnsetParts
  <2> QED BY <1>0, <2>2 DEF Parts, Machine, Has
<1>4. ASSUME NEW x \in Effects(UpgradeTalos(v), m)
      PROVE  Has(x, v, OfRole(m.role, v), IF m.node THEN v ELSE 0, m.role, m.node, TRUE,
                 m.held, m.own)
  <2> DEFINE n == [m EXCEPT !.tool = v]
             kubelet == IF m.node THEN v ELSE 0
  <2>1. x = Started(n)
    BY DEF Effects, UpgradeTalos
  <2>2. n \in Machine
    BY DEF Machine
  <2>3. n.tool = v /\ n.role = m.role /\ n.node = m.node /\ n.held = m.held /\ n.own = m.own
    BY DEF Machine
  <2> HIDE DEF n
  <2>4. x = Parts(v, OfRole(m.role, v), kubelet, m.role, m.node, TRUE, m.held, m.own)
    BY <2>1, <2>2, <2>3, StartedParts
  <2>5. OfRole(m.role, v) \in Nat /\ kubelet \in Nat
    BY OfRoleIsVersion
  <2> HIDE DEF kubelet
  <2>6. Has(x, v, OfRole(m.role, v), kubelet, m.role, m.node, TRUE, m.held, m.own)
    BY <1>0, <2>4, <2>5 DEF Parts, Machine, Has
  <2> QED BY <2>6 DEF kubelet
<1> QED BY <1>1, <1>2, <1>3, <1>4

\* What a script may leave when it exits with 0: what it is for, or the machine
\* as it was; the packages that are there may be held then.
LEMMA AfterIs ==
  ASSUME NEW c, NEW m, NEW x \in After(c, m)
  PROVE  \/ x \in Effects(c, m)
         \/ c.do \in {"install-k3s", "get-k0s"} /\ x = m
         \/ /\ c.do = "install-packages"
            /\ x = m \/ x = [m EXCEPT !.held = m.held \/ m.tool > 0]
BY DEF After, Refused

LEMMA AfterFailureIs ==
  ASSUME NEW c, NEW m, NEW x \in AfterFailure(c, m)
  PROVE  \/ x = m
         \/ c.do # "install-packages" /\ x \in Effects(c, m)
         \/ /\ c.do = "install-packages"
            /\ \E is \in After(c, m) : x = [is EXCEPT !.held = m.held]
BY DEF AfterFailure

-----------------------------------------------------------------------------
(* One script of each distribution: the machine stays what it may be, and  *)
(* the operation gets on.                                                  *)

LEMMA K3sScript ==
  ASSUME NEW m \in Machine, NEW v \in Nat, v > 0, NEW l \in Record, l.done = FALSE,
         l.name # "uninstall" => l.version = v,
         NEW scripts, NEW k \in 1 .. Len(scripts), NEW x \in Effects(scripts[k], m),
         K3sFits(m, v, l), K3sAt(m, v, l, scripts, k)
  PROVE  x \in Machine /\ K3sFits(x, v, l) /\ K3sAt(x, v, l, scripts, k + 1)
<1>0. /\ m.tool \in Nat /\ m.api \in Nat /\ m.kubelet \in Nat
      /\ m.role \in MachineRoles \cup {"none"}
      /\ m.node \in BOOLEAN /\ m.up \in BOOLEAN /\ m.held \in BOOLEAN /\ m.own \in BOOLEAN
  BY MachineFields
<1>00. l.role \in MachineRoles /\ l.name \in Names
  BY DEF Record
<1>1. CASE l.name \in {"init", "join"}
  <2>1. scripts = <<InstallK3s(v, l.role)>>
    BY <1>1 DEF K3sAt
  <2>2. k = 1 /\ scripts[k] = InstallK3s(v, l.role)
    BY <2>1
  <2>3. Has(x, v, OfRole(l.role, v), v, l.role, TRUE, TRUE, m.held, m.own /\ l.role = "worker")
    BY <1>00, <2>2, K3sEffects
  <2>4. K3sFits(x, v, l)
    <3>1. Serves(x) /\ x.node = TRUE /\ x.kubelet = x.tool
      BY <1>00, <2>3 DEF Has, Serves
    <3>2. x.own => x.role = "worker"
      BY <2>3 DEF Has
    <3>3. x.held = FALSE
      BY <2>3 DEF Has, K3sFits
    <3> QED BY <3>1, <3>2, <3>3 DEF K3sFits, Promised, TakenOut
  <2>5. Asked(x, l)
    BY <1>1, <2>3 DEF Has, Asked
  <2>6. K3sAt(x, v, l, scripts, k + 1)
    BY <1>1, <2>1, <2>5 DEF K3sAt
  <2> QED BY <2>3, <2>4, <2>6 DEF Has
<1>2. CASE l.name = "upgrade"
  <2>1. scripts = <<InstallK3s(v, Untold)>>
    BY <1>2 DEF K3sAt
  <2>2. k = 1 /\ scripts[k] = InstallK3s(v, Untold)
    BY <2>1
  <2>3. CASE m.role = "control-plane"
    <3>1. Has(x, v, v, IF m.node THEN v ELSE 0, m.role, m.node, TRUE, m.held, m.own)
      BY <2>2, <2>3, K3sEffects
    <3>2. m.node = TRUE /\ m.own = FALSE
      BY <1>0, <2>3 DEF K3sFits, Gone
    <3>3. x.tool = v /\ x.api = v /\ x.kubelet = v /\ x.role = m.role
          /\ x.node = TRUE /\ x.up = TRUE /\ x.own = FALSE /\ x.held = m.held
      BY <3>1, <3>2 DEF Has
    <3>4. Serves(x)
      BY <2>3, <3>3 DEF Serves, MachineRoles, OfRole
    <3>5. K3sFits(x, v, l)
      BY <3>3, <3>4 DEF K3sFits, Promised, TakenOut
    <3>6. Asked(x, l)
      BY <1>2, <3>3 DEF Asked
    <3>7. K3sAt(x, v, l, scripts, k + 1)
      BY <1>2, <2>1, <3>6 DEF K3sAt
    <3> QED BY <3>1, <3>5, <3>7 DEF Has
  <2>4. CASE m.role # "control-plane"
    <3>1. /\ Has(x, v, m.api, x.kubelet, m.role, m.node, m.up, m.held, TRUE)
          /\ m.role = "none" => x.kubelet = m.kubelet
      BY <2>2, <2>4, K3sEffects
    <3>2. x.tool = v /\ x.api = m.api /\ x.role = m.role
          /\ x.node = m.node /\ x.up = m.up /\ x.own = TRUE /\ x.held = m.held
      BY <3>1 DEF Has
    <3>3. ASSUME Gone(m) PROVE K3sFits(x, v, l)
      <4>1. Gone(x)
        BY <3>1, <3>2, <3>3 DEF Gone
      <4> QED BY <3>2, <4>1 DEF K3sFits, Promised, TakenOut
    <3>4. ASSUME Serves(m), m.node = TRUE PROVE K3sFits(x, v, l)
      <4>1. Serves(x) /\ x.role = "worker"
        BY <2>4, <3>2, <3>4 DEF Serves, MachineRoles, OfRole
      <4> QED BY <3>2, <3>4, <4>1 DEF K3sFits, Promised, TakenOut
    <3>5. K3sFits(x, v, l)
      BY <3>3, <3>4 DEF K3sFits
    <3>6. Asked(x, l)
      BY <1>2, <3>2 DEF Asked
    <3>7. K3sAt(x, v, l, scripts, k + 1)
      BY <1>2, <2>1, <3>6 DEF K3sAt
    <3> QED BY <3>1, <3>5, <3>7 DEF Has
  <2> QED BY <2>3, <2>4
<1>3. CASE l.name = "uninstall"
  <2>1. scripts = K3sUninstall(l.role).scripts
    BY <1>3 DEF K3sAt
  <2>2. Len(scripts) = 1
    BY <2>1 DEF K3sUninstall, Data
  <2>3. k = 1 /\ scripts[1].role = l.role
    BY <1>00, <2>1, <2>2 DEF K3sUninstall, Data, MachineRoles
  <2>4. x = K3sUninstalled(scripts[1], m)
    BY <2>1, <2>3, K3sEffects
  <2>5. ~(m.role = "worker" /\ l.role = "control-plane")
    BY <1>3, <2>3 DEF K3sAt
  <2>6. CASE l.role = "worker" /\ m.own
    <3>1. x = Parts(m.tool, 0, 0, "none", FALSE, FALSE, FALSE, m.own)
      BY <2>3, <2>4, <2>6, UnsetParts DEF K3sUninstalled
    <3>2. /\ x \in Machine
          /\ x.tool = m.tool /\ x.api = 0 /\ x.kubelet = 0 /\ x.role = "none"
          /\ x.node = FALSE /\ x.up = FALSE /\ x.held = FALSE /\ x.own = m.own
      BY <1>0, <3>1 DEF Parts, Machine
    <3>3. m.tool > 0
      BY <2>6 DEF K3sFits, Serves
    <3>4. Gone(x)
      BY <3>2 DEF Gone
    <3>5. K3sFits(x, v, l)
      BY <1>3, <2>6, <3>2, <3>3, <3>4 DEF K3sFits, Promised, TakenOut
    <3>6. K3sAt(x, v, l, scripts, k + 1)
      BY <1>3, <2>1, <2>3, <2>6, <3>4 DEF K3sAt
    <3> QED BY <3>2, <3>5, <3>6
  <2>7. CASE ~(l.role = "worker" /\ m.own)
    <3>1. x = Blank
      BY <2>3, <2>4, <2>5, <2>7 DEF K3sUninstalled
    <3>2. x = Parts(0, 0, 0, "none", FALSE, FALSE, FALSE, FALSE)
      BY <3>1, BlankParts
    <3>3. /\ x \in Machine
          /\ x.tool = 0 /\ x.api = 0 /\ x.kubelet = 0 /\ x.role = "none"
          /\ x.node = FALSE /\ x.up = FALSE /\ x.held = FALSE /\ x.own = FALSE
      BY <3>2 DEF Parts, Machine
    <3>4. Gone(x)
      BY <3>3 DEF Gone
    <3>5. K3sFits(x, v, l)
      BY <1>3, <3>3, <3>4 DEF K3sFits, Promised, TakenOut
    <3>6. K3sAt(x, v, l, scripts, k + 1)
      BY <1>3, <2>1, <2>3, <3>3, <3>4 DEF K3sAt
    <3> QED BY <3>3, <3>5, <3>6
  <2> QED BY <2>6, <2>7
<1> QED BY <1>00, <1>1, <1>2, <1>3 DEF Names

LEMMA TalosScript ==
  ASSUME NEW m \in Machine, NEW v \in Nat, v > 0, NEW l \in Record, l.done = FALSE,
         l.name # "uninstall" => l.version = v,
         NEW scripts, NEW k \in 1 .. Len(scripts), NEW x \in Effects(scripts[k], m), NEW fs,
         TalosFits(m, v, l), TalosAt(m, v, l, scripts, k), Able(scripts[k], m, fs)
  PROVE  x \in Machine /\ TalosFits(x, v, l) /\ TalosAt(x, v, l, scripts, k + 1)
<1>0. /\ m.tool \in Nat /\ m.role \in MachineRoles \cup {"none"}
      /\ l.role \in MachineRoles /\ m.tool > 0 /\ m.held = FALSE /\ m.own = FALSE
  BY MachineFields DEF Record, TalosFits
<1>1. ASSUME scripts[k] = ApplyConfig(l.role)
      PROVE  x \in Machine /\ Runs(x) /\ x.role = l.role /\ TalosFits(x, v, l)
  <2>1. Has(x, m.tool, OfRole(l.role, m.tool), m.tool, l.role, TRUE, TRUE, m.held, m.own)
    BY <1>0, <1>1, TalosEffects
  <2>2. Runs(x)
    BY <1>0, <2>1 DEF Has, Runs, Serves
  <2> QED BY <1>0, <2>1, <2>2 DEF Has, TalosFits, Promised, TakenOut
<1>2. CASE l.name = "init"
  <2>1. /\ scripts = <<GenConfig, ApplyConfig("control-plane"), BootstrapTalos>>
        /\ l.role = "control-plane"
        /\ k > 2 => Runs(m) /\ m.role = l.role
    BY <1>2 DEF TalosAt
  <2>2. \/ k = 1 /\ scripts[k] = GenConfig
        \/ k = 2 /\ scripts[k] = ApplyConfig(l.role)
        \/ k = 3 /\ scripts[k] = BootstrapTalos
    BY <2>1
  <2>3. CASE k = 2
    <3>1. x \in Machine /\ Runs(x) /\ x.role = l.role /\ TalosFits(x, v, l)
      BY <1>1, <2>2, <2>3
    <3> QED BY <1>2, <2>1, <2>3, <3>1 DEF TalosAt
  <2>4. CASE k # 2
    <3>1. x = m
      BY <2>2, <2>4, TalosEffects
    <3>2. TalosAt(x, v, l, scripts, k + 1)
      BY <1>2, <2>1, <2>2, <2>4, <3>1 DEF TalosAt
    <3> QED BY <3>1, <3>2
  <2> QED BY <2>3, <2>4
<1>3. CASE l.name = "join"
  <2>1. scripts = <<ApplyConfig(l.role)>>
    BY <1>3 DEF TalosAt
  <2>2. k = 1 /\ scripts[k] = ApplyConfig(l.role)
    BY <2>1
  <2>3. x \in Machine /\ Runs(x) /\ x.role = l.role /\ TalosFits(x, v, l)
    BY <1>1, <2>2
  <2> QED BY <1>3, <2>1, <2>3 DEF TalosAt
<1>4. CASE l.name = "upgrade"
  <2>1. scripts = <<UpgradeTalos(v)>>
    BY <1>4 DEF TalosAt
  <2>2. k = 1 /\ scripts[k] = UpgradeTalos(v)
    BY <2>1
  <2>3. m.role # "none"
    BY <2>2 DEF Able, UpgradeTalos
  <2>4. Runs(m)
    BY <2>3 DEF TalosFits, Gone
  <2>5. Has(x, v, OfRole(m.role, v), IF m.node THEN v ELSE 0, m.role, m.node, TRUE, m.held, m.own)
    BY <2>2, TalosEffects
  <2>6. Runs(x) /\ x.tool = v
    BY <2>4, <2>5 DEF Has, Runs, Serves
  <2>7. TalosFits(x, v, l)
    BY <1>0, <1>4, <2>5, <2>6 DEF Has, TalosFits, TakenOut, Promised
  <2>8. TalosAt(x, v, l, scripts, k + 1)
    BY <1>4, <2>1, <2>6 DEF TalosAt
  <2> QED BY <2>5, <2>7, <2>8 DEF Has
<1>5. CASE l.name = "uninstall"
  <2>1. scripts = <<ResetTalos>>
    BY <1>5 DEF TalosAt
  <2>2. k = 1 /\ scripts[k] = ResetTalos
    BY <2>1
  <2>3. Has(x, m.tool, 0, 0, "none", FALSE, FALSE, FALSE, m.own)
    BY <2>2, TalosEffects
  <2>4. Gone(x)
    BY <2>3 DEF Has, Gone
  <2>5. TalosFits(x, v, l)
    BY <1>0, <1>5, <2>3, <2>4 DEF Has, TalosFits, Promised
  <2>6. TalosAt(x, v, l, scripts, k + 1)
    BY <1>5, <2>1, <2>4 DEF TalosAt
  <2> QED BY <2>3, <2>5, <2>6 DEF Has
<1> QED BY <1>2, <1>3, <1>4, <1>5 DEF Record, Names

LEMMA K0sScript ==
  ASSUME NEW m \in Machine, NEW v \in Nat, v > 0, NEW l \in Record, l.done = FALSE,
         l.name # "uninstall" => l.version = v,
         NEW scripts, NEW k \in 1 .. Len(scripts), NEW x \in Effects(scripts[k], m), NEW fs,
         K0sFits(m, v, l), K0sAt(m, v, l, scripts, k), Able(scripts[k], m, fs)
  PROVE  x \in Machine /\ K0sFits(x, v, l) /\ K0sAt(x, v, l, scripts, k + 1)
<1>0. /\ m.tool \in Nat /\ m.api \in Nat /\ m.kubelet \in Nat
      /\ m.role \in MachineRoles \cup {"none"}
      /\ m.node \in BOOLEAN /\ m.up \in BOOLEAN
      /\ l.role \in MachineRoles /\ l.name \in Names
  BY MachineFields DEF Record
<1>1. /\ m.held = FALSE /\ m.own = FALSE /\ m.tool <= v /\ m.api <= m.tool
      /\ m.up => /\ m.role \in MachineRoles /\ m.tool > 0
                 /\ m.role = "control-plane" => m.kubelet <= m.api
  BY DEF K0sFits
<1>2. ~Promised(l) /\ ~TakenOut(l)
  BY DEF Promised, TakenOut
<1>a. ASSUME scripts[k] = GetK0s(v)
      PROVE  /\ x \in Machine /\ K0sFits(x, v, l)
             /\ x.tool = v /\ x.role = m.role /\ x.up = m.up
  <2>1. Has(x, v, m.api, m.kubelet, m.role, m.node, m.up, m.held, m.own)
    BY <1>a, K0sEffects
  <2>2. /\ x \in Machine
        /\ x.tool = v /\ x.api = m.api /\ x.kubelet = m.kubelet
        /\ x.role = m.role /\ x.up = m.up /\ x.held = FALSE /\ x.own = FALSE
    BY <1>1, <2>1 DEF Has
  <2>3. x.tool <= v /\ x.api <= x.tool
    BY <1>0, <1>1, <2>2
  <2>4. x.up => /\ x.role \in MachineRoles /\ x.tool > 0
                /\ x.role = "control-plane" => x.kubelet <= x.api
    BY <1>1, <2>2
  <2>5. Adding(l) => x.role \in {"none", l.role}
    BY <2>2 DEF K0sFits
  <2> QED BY <1>2, <2>2, <2>3, <2>4, <2>5 DEF K0sFits
<1>b. ASSUME scripts[k] = StartK0s
      PROVE  /\ x \in Machine /\ K0sFits(x, v, l) /\ K0sRuns(x)
             /\ x.tool = m.tool /\ x.role = m.role
  <2>1. Has(x, m.tool, OfRole(m.role, m.tool), IF m.node THEN m.tool ELSE 0,
            m.role, m.node, TRUE, m.held, m.own)
    BY <1>b, K0sEffects
  <2>2. m.tool > 0 /\ m.role # "none"
    BY <1>b DEF Able, StartK0s
  <2>3. /\ x \in Machine
        /\ x.tool = m.tool /\ x.api = OfRole(m.role, m.tool)
        /\ x.kubelet = IF m.node THEN m.tool ELSE 0
        /\ x.role = m.role /\ x.node = m.node /\ x.up = TRUE
        /\ x.held = FALSE /\ x.own = FALSE
    BY <1>1, <2>1 DEF Has
  <2>4. OfRole(m.role, m.tool) <= m.tool
    BY <1>0, OfRoleIsVersion
  <2>5. x.tool <= v /\ x.api <= x.tool
    BY <1>1, <2>3, <2>4
  <2>6. x.role \in MachineRoles /\ x.tool > 0 /\ (x.role = "control-plane" => x.kubelet <= x.api)
    BY <1>0, <2>2, <2>3 DEF OfRole
  <2>7. K0sRuns(x)
    BY <2>3 DEF K0sRuns
  <2>8. Adding(l) => x.role \in {"none", l.role}
    BY <2>3 DEF K0sFits
  <2> QED BY <1>2, <2>3, <2>5, <2>6, <2>7, <2>8 DEF K0sFits
<1>c. ASSUME scripts[k] = StopK0s
      PROVE  x \in Machine /\ K0sFits(x, v, l)
  <2>1. Has(x, m.tool, m.api, m.kubelet, m.role, m.node, FALSE, m.held, m.own)
    BY <1>c, K0sEffects
  <2>2. /\ x \in Machine
        /\ x.tool = m.tool /\ x.api = m.api /\ x.role = m.role /\ x.up = FALSE
        /\ x.held = FALSE /\ x.own = FALSE
    BY <1>1, <2>1 DEF Has
  <2> QED BY <1>1, <1>2, <2>2 DEF K0sFits
<1>3. CASE l.name \in {"init", "join"}
  <2>1. PICK kub \in BOOLEAN, file \in {"k0s.yaml", "token"} :
          scripts = <<GetK0s(v), SetupK0s(l.role, kub, file), StartK0s>>
    BY <1>3 DEF K0sAt
  <2>2. /\ k > 1 /\ ~l.hollow => m.tool = v
        /\ k > 2 => m.role = l.role
    BY <1>3 DEF K0sAt
  <2>3. \/ k = 1 /\ scripts[k] = GetK0s(v)
        \/ k = 2 /\ scripts[k] = SetupK0s(l.role, kub, file)
        \/ k = 3 /\ scripts[k] = StartK0s
    BY <2>1
  <2>4. Adding(l)
    BY <1>3 DEF Adding
  <2>5. CASE k = 1
    <3>1. x \in Machine /\ K0sFits(x, v, l) /\ x.tool = v
      BY <1>a, <2>3, <2>5
    <3>2. K0sAt(x, v, l, scripts, k + 1)
      BY <1>3, <2>1, <2>5, <3>1 DEF K0sAt
    <3> QED BY <3>1, <3>2
  <2>6. CASE k = 2
    <3>1. Has(x, m.tool, m.api, m.kubelet, l.role, kub, m.up, m.held, m.own)
      <4>1. x \in Effects(SetupK0s(l.role, kub, file), m)
        BY <2>3, <2>6
      <4> QED BY <1>0, <4>1, K0sEffects
    <3>2. /\ x \in Machine
          /\ x.tool = m.tool /\ x.api = m.api /\ x.kubelet = m.kubelet
          /\ x.role = l.role /\ x.up = m.up /\ x.held = FALSE /\ x.own = FALSE
      BY <1>1, <3>1 DEF Has
    <3>3. m.up => m.role = l.role
      BY <1>1, <2>4 DEF K0sFits, MachineRoles
    <3>4. x.up => /\ x.role \in MachineRoles /\ x.tool > 0
                  /\ x.role = "control-plane" => x.kubelet <= x.api
      BY <1>1, <3>2, <3>3
    <3>5. K0sFits(x, v, l)
      BY <1>1, <1>2, <3>2, <3>4 DEF K0sFits
    <3>6. K0sAt(x, v, l, scripts, k + 1)
      BY <1>3, <2>1, <2>2, <2>6, <3>2 DEF K0sAt
    <3> QED BY <3>2, <3>5, <3>6
  <2>7. CASE k = 3
    <3>1. /\ x \in Machine /\ K0sFits(x, v, l) /\ K0sRuns(x)
          /\ x.tool = m.tool /\ x.role = m.role
      BY <1>b, <2>3, <2>7
    <3>2. K0sAt(x, v, l, scripts, k + 1)
      BY <1>3, <2>1, <2>2, <2>7, <3>1 DEF K0sAt
    <3> QED BY <3>1, <3>2
  <2> QED BY <2>3, <2>5, <2>6, <2>7
<1>4. CASE l.name = "upgrade"
  <2>1. /\ scripts = <<StopK0s, GetK0s(v), StartK0s>>
        /\ k > 2 /\ ~l.hollow => m.tool = v
    BY <1>4 DEF K0sAt
  <2>2. \/ k = 1 /\ scripts[k] = StopK0s
        \/ k = 2 /\ scripts[k] = GetK0s(v)
        \/ k = 3 /\ scripts[k] = StartK0s
    BY <2>1
  <2>3. CASE k = 1
    <3>1. x \in Machine /\ K0sFits(x, v, l)
      BY <1>c, <2>2, <2>3
    <3>2. K0sAt(x, v, l, scripts, k + 1)
      BY <1>4, <2>1, <2>3 DEF K0sAt
    <3> QED BY <3>1, <3>2
  <2>4. CASE k = 2
    <3>1. x \in Machine /\ K0sFits(x, v, l) /\ x.tool = v
      BY <1>a, <2>2, <2>4
    <3>2. K0sAt(x, v, l, scripts, k + 1)
      BY <1>4, <2>1, <2>4, <3>1 DEF K0sAt
    <3> QED BY <3>1, <3>2
  <2>5. CASE k = 3
    <3>1. x \in Machine /\ K0sFits(x, v, l) /\ K0sRuns(x) /\ x.tool = m.tool
      BY <1>b, <2>2, <2>5
    <3>2. K0sAt(x, v, l, scripts, k + 1)
      BY <1>4, <2>1, <2>5, <3>1 DEF K0sAt
    <3> QED BY <3>1, <3>2
  <2> QED BY <2>2, <2>3, <2>4, <2>5
<1>5. CASE l.name = "uninstall"
  <2>1. scripts = <<StopK0s, ResetK0s>>
    BY <1>5 DEF K0sAt
  <2>2. \/ k = 1 /\ scripts[k] = StopK0s
        \/ k = 2 /\ scripts[k] = ResetK0s
    BY <2>1
  <2>3. CASE k = 1
    <3>1. x \in Machine /\ K0sFits(x, v, l)
      BY <1>c, <2>2, <2>3
    <3>2. K0sAt(x, v, l, scripts, k + 1)
      BY <1>5, <2>1, <2>3 DEF K0sAt
    <3> QED BY <3>1, <3>2
  <2>4. CASE k = 2
    <3>1. Has(x, m.tool, 0, 0, "none", FALSE, FALSE, FALSE, m.own)
      <4>1. x \in Effects(ResetK0s, m)
        BY <2>2, <2>4
      <4> QED BY <4>1, K0sEffects
    <3>2. /\ x \in Machine
          /\ x.tool = m.tool /\ x.api = 0 /\ x.kubelet = 0
          /\ x.role = "none" /\ x.node = FALSE /\ x.up = FALSE
          /\ x.held = FALSE /\ x.own = FALSE
      BY <1>1, <3>1 DEF Has
    <3>3. K0sFits(x, v, l)
      BY <1>0, <1>1, <1>2, <3>2 DEF K0sFits
    <3>4. K0sAt(x, v, l, scripts, k + 1)
      BY <1>5, <2>1, <2>4, <3>2 DEF K0sAt, Gone
    <3> QED BY <3>2, <3>3, <3>4
  <2> QED BY <2>2, <2>3, <2>4
<1> QED BY <1>0, <1>3, <1>4, <1>5 DEF Names

\* Apt may refuse, or leave the packages as they are: then those that were there
\* when an operation began that adds a machine are those it asks for.
LEMMA KubeadmScript ==
  ASSUME NEW m \in Machine, NEW v \in Nat, v > 0, NEW l \in Record, l.done = FALSE,
         l.name # "uninstall" => l.version = v,
         NEW scripts, NEW k \in 1 .. Len(scripts), NEW x \in After(scripts[k], m), NEW fs,
         KubeadmFits(m, v, l), KubeadmAt(m, v, l, scripts, k), Able(scripts[k], m, fs)
  PROVE  x \in Machine /\ KubeadmFits(x, v, l) /\ KubeadmAt(x, v, l, scripts, k + 1)
<1>0. /\ m.tool \in Nat /\ m.api \in Nat /\ m.kubelet \in Nat
      /\ m.role \in MachineRoles \cup {"none"}
      /\ m.node \in BOOLEAN /\ m.up \in BOOLEAN /\ m.held \in BOOLEAN
      /\ l.role \in MachineRoles /\ l.name \in Names
  BY MachineFields DEF Record
<1>1. ~Promised(l) /\ ~TakenOut(l)
  BY DEF Promised, TakenOut
<1>2. /\ m.own = FALSE
      /\ m.kubelet <= m.tool /\ m.tool <= v /\ m.api <= m.tool
      /\ m.held => m.tool > 0
      /\ m.up => m.role \in MachineRoles /\ m.node = TRUE /\ m.tool > 0
      /\ ~m.up => m.role = "none" /\ m.node = FALSE
      /\ m.role = "control-plane" => m.kubelet <= m.api
      /\ m.role # "control-plane" => m.api = 0
  BY DEF KubeadmFits
<1>3. scripts[k].do # "install-packages" /\ scripts[k].do \notin {"install-k3s", "get-k0s"}
        => x \in Effects(scripts[k], m)
  BY AfterIs
<1>4. CASE l.name \in {"init", "join"}
  <2>1. scripts = <<InstallPackages(v), RunKubeadm(l.role)>>
    BY <1>4 DEF KubeadmAt
  <2>2. /\ Adding(l)
        /\ m.tool \in {0, v} /\ m.kubelet = m.tool
        /\ m.up => m.api = OfRole(m.role, v)
    BY <1>4 DEF Adding, KubeadmFits
  <2>3. \/ k = 1 /\ scripts[k] = InstallPackages(v)
        \/ k = 2 /\ scripts[k] = RunKubeadm(l.role)
    BY <2>1
  <2>4. CASE k = 1
    <3>1. /\ x \in Machine
          /\ x.api = m.api /\ x.role = m.role /\ x.node = m.node /\ x.up = m.up
          /\ x.own = m.own
          /\ \/ x.tool = v /\ x.kubelet = v
             \/ x.tool = m.tool /\ x.kubelet = m.kubelet /\ (x.held => m.held \/ m.tool > 0)
      <4>1. CASE x \in Effects(InstallPackages(v), m)
        <5>1. Has(x, v, m.api, v, m.role, m.node, m.up, TRUE, m.own)
          BY <4>1, KubeadmEffects
        <5> QED BY <5>1 DEF Has
      <4>2. CASE x = m
        BY <4>2
      <4>3. CASE x = [m EXCEPT !.held = m.held \/ m.tool > 0]
        <5> DEFINE b == m.held \/ m.tool > 0
        <5>1. b \in BOOLEAN
          OBVIOUS
        <5>2. x = [m EXCEPT !.held = b]
          BY <4>3
        <5>3. b => m.held \/ m.tool > 0
          OBVIOUS
        <5> HIDE DEF b
        <5>4. /\ x \in Machine /\ x.held = b
              /\ x.tool = m.tool /\ x.kubelet = m.kubelet
              /\ x.api = m.api /\ x.role = m.role /\ x.node = m.node /\ x.up = m.up
              /\ x.own = m.own
          BY <5>1, <5>2 DEF Machine
        <5> QED BY <5>3, <5>4
      <4> QED BY <2>3, <2>4, <4>1, <4>2, <4>3, AfterIs DEF InstallPackages
    <3>2. x.tool \in {0, v} /\ x.kubelet = x.tool
      BY <2>2, <3>1
    <3>3. x.kubelet <= x.tool /\ x.tool <= v /\ x.api <= x.tool
      BY <1>0, <1>2, <3>1, <3>2
    <3>4. x.held => x.tool > 0
      BY <1>2, <3>1
    <3>5. x.up => x.role \in MachineRoles /\ x.node = TRUE /\ x.tool > 0
      BY <1>2, <3>1
    <3>6. x.up => x.api = OfRole(x.role, v)
      BY <2>2, <3>1
    <3>7. x.role = "control-plane" => x.kubelet <= x.api
      <4>1. x.role = "control-plane" => x.up
        BY <1>2, <3>1
      <4>2. x.kubelet <= v
        BY <1>0, <3>2
      <4> QED BY <3>6, <4>1, <4>2 DEF OfRole
    <3>8. KubeadmFits(x, v, l)
      BY <1>1, <1>2, <3>1, <3>2, <3>3, <3>4, <3>5, <3>6, <3>7 DEF KubeadmFits
    <3>9. KubeadmAt(x, v, l, scripts, k + 1)
      BY <1>4, <2>1, <2>4 DEF KubeadmAt
    <3> QED BY <3>1, <3>8, <3>9
  <2>5. CASE k = 2
    <3>1. x \in Effects(RunKubeadm(l.role), m)
      BY <1>3, <2>3, <2>5 DEF RunKubeadm
    <3>2. Has(x, m.tool, OfRole(l.role, m.tool), m.kubelet, l.role, TRUE, TRUE, m.held, m.own)
      BY <1>0, <3>1, KubeadmEffects
    <3>3. m.tool > 0
      BY <2>3, <2>5 DEF Able, RunKubeadm
    <3>4. /\ x \in Machine
          /\ x.tool = v /\ x.api = OfRole(l.role, v) /\ x.kubelet = v
          /\ x.role = l.role /\ x.node = TRUE /\ x.up = TRUE
          /\ x.own = FALSE
      BY <1>2, <2>2, <3>2, <3>3 DEF Has
    <3>5. OfRole(l.role, v) <= v
      BY OfRoleIsVersion
    <3>6. KubeadmFits(x, v, l)
      BY <1>0, <1>1, <3>4, <3>5 DEF KubeadmFits, OfRole, MachineRoles
    <3>7. KubeadmAt(x, v, l, scripts, k + 1)
      BY <1>4, <2>1, <2>5, <3>4 DEF KubeadmAt
    <3> QED BY <3>4, <3>6, <3>7
  <2> QED BY <2>3, <2>4, <2>5
<1>5. CASE l.name = "upgrade"
  <2>1. /\ scripts = <<UpgradeKubeadm(v), ApplyUpgrade(v), UpgradeKubelet(v)>>
        /\ k > 1 => m.tool = v
        /\ k > 2 => m.role = "control-plane" /\ m.api = v
    BY <1>5 DEF KubeadmAt
  <2>2. ~Adding(l)
    BY <1>5 DEF Adding
  <2>3. \/ k = 1 /\ scripts[k] = UpgradeKubeadm(v)
        \/ k = 2 /\ scripts[k] = ApplyUpgrade(v)
        \/ k = 3 /\ scripts[k] = UpgradeKubelet(v)
    BY <2>1
  <2>4. CASE k = 1
    <3>1. x \in Effects(UpgradeKubeadm(v), m)
      BY <1>3, <2>3, <2>4 DEF UpgradeKubeadm
    <3>2. Has(x, v, m.api, m.kubelet, m.role, m.node, m.up, m.held, m.own)
      BY <3>1, KubeadmEffects
    <3>3. /\ x \in Machine
          /\ x.tool = v /\ x.api = m.api /\ x.kubelet = m.kubelet
          /\ x.role = m.role /\ x.node = m.node /\ x.up = m.up
          /\ x.held = m.held /\ x.own = FALSE
      BY <1>2, <3>2 DEF Has
    <3>4. x.kubelet <= x.tool /\ x.tool <= v /\ x.api <= x.tool
      BY <1>0, <1>2, <3>3
    <3>5. KubeadmFits(x, v, l)
      BY <1>1, <1>2, <2>2, <3>3, <3>4 DEF KubeadmFits
    <3>6. KubeadmAt(x, v, l, scripts, k + 1)
      BY <1>5, <2>1, <2>4, <3>3 DEF KubeadmAt
    <3> QED BY <3>3, <3>5, <3>6
  <2>5. CASE k = 2
    <3>1. x \in Effects(ApplyUpgrade(v), m)
      BY <1>3, <2>3, <2>5 DEF ApplyUpgrade
    <3>2. Has(x, m.tool, v, m.kubelet, m.role, m.node, m.up, m.held, m.own)
      BY <3>1, KubeadmEffects
    <3>3. m.role = "control-plane" /\ m.tool = v
      BY <2>1, <2>3, <2>5 DEF Able, ApplyUpgrade
    <3>4. /\ x \in Machine
          /\ x.tool = v /\ x.api = v /\ x.kubelet = m.kubelet
          /\ x.role = "control-plane" /\ x.node = m.node /\ x.up = m.up
          /\ x.held = m.held /\ x.own = FALSE
      BY <1>2, <3>2, <3>3 DEF Has
    <3>5. x.kubelet <= x.tool /\ x.tool <= v /\ x.api <= x.tool
      BY <1>0, <1>2, <3>4
    <3>6. x.role = "control-plane" => x.kubelet <= x.api
      BY <1>0, <1>2, <3>4
    <3>7. KubeadmFits(x, v, l)
      BY <1>1, <1>2, <2>2, <3>3, <3>4, <3>5, <3>6 DEF KubeadmFits
    <3>8. KubeadmAt(x, v, l, scripts, k + 1)
      BY <1>5, <2>1, <2>5, <3>4 DEF KubeadmAt
    <3> QED BY <3>4, <3>7, <3>8
  <2>6. CASE k = 3
    <3>1. x \in Effects(UpgradeKubelet(v), m)
      BY <1>3, <2>3, <2>6 DEF UpgradeKubelet
    <3>2. Has(x, m.tool, m.api, v, m.role, m.node, m.up, m.held, m.own)
      BY <3>1, KubeadmEffects
    <3>3. m.role = "control-plane" /\ m.tool = v /\ m.api = v
      BY <2>1, <2>6
    <3>4. /\ x \in Machine
          /\ x.tool = v /\ x.api = v /\ x.kubelet = v
          /\ x.role = "control-plane" /\ x.node = m.node /\ x.up = m.up
          /\ x.held = m.held /\ x.own = FALSE
      BY <1>2, <3>2, <3>3 DEF Has
    <3>5. x.kubelet <= x.tool /\ x.tool <= v /\ x.api <= x.tool
      BY <3>4
    <3>6. KubeadmFits(x, v, l)
      BY <1>1, <1>2, <2>2, <3>3, <3>4, <3>5 DEF KubeadmFits
    <3>7. KubeadmAt(x, v, l, scripts, k + 1)
      BY <1>5, <2>1, <2>6, <3>4 DEF KubeadmAt
    <3> QED BY <3>4, <3>6, <3>7
  <2> QED BY <2>3, <2>4, <2>5, <2>6
<1>6. CASE l.name = "uninstall"
  <2>1. scripts = <<ResetKubeadm, PurgePackages>> /\ (k > 1 => m.up = FALSE)
    BY <1>6 DEF KubeadmAt
  <2>2. ~Adding(l)
    BY <1>6 DEF Adding
  <2>3. \/ k = 1 /\ scripts[k] = ResetKubeadm
        \/ k = 2 /\ scripts[k] = PurgePackages
    BY <2>1
  <2>4. CASE k = 1
    <3>1. x \in Effects(ResetKubeadm, m)
      BY <1>3, <2>3, <2>4 DEF ResetKubeadm
    <3>2. Has(x, m.tool, 0, m.kubelet, "none", FALSE, FALSE, m.held, m.own)
      BY <3>1, KubeadmEffects
    <3>3. /\ x \in Machine
          /\ x.tool = m.tool /\ x.api = 0 /\ x.kubelet = m.kubelet
          /\ x.role = "none" /\ x.node = FALSE /\ x.up = FALSE
          /\ x.held = m.held /\ x.own = FALSE
      BY <1>2, <3>2 DEF Has
    <3>4. x.kubelet <= x.tool /\ x.tool <= v /\ x.api <= x.tool
      BY <1>0, <1>2, <3>3
    <3>5. KubeadmFits(x, v, l)
      BY <1>1, <1>2, <2>2, <3>3, <3>4 DEF KubeadmFits
    <3>6. KubeadmAt(x, v, l, scripts, k + 1)
      BY <1>6, <2>1, <2>4, <3>3 DEF KubeadmAt
    <3> QED BY <3>3, <3>5, <3>6
  <2>5. CASE k = 2
    <3>1. x \in Effects(PurgePackages, m)
      BY <1>3, <2>3, <2>5 DEF PurgePackages
    <3>2. Has(x, 0, m.api, 0, m.role, m.node, m.up, m.held, m.own)
      BY <3>1, KubeadmEffects
    <3>3. m.up = FALSE /\ m.role = "none" /\ m.node = FALSE /\ m.api = 0
      BY <1>2, <2>1, <2>5
    <3>4. m.held = FALSE
      <4>1. ~m.held
        BY <2>3, <2>5 DEF Able, PurgePackages
      <4> QED BY <1>0, <4>1
    <3>5. /\ x \in Machine
          /\ x.tool = 0 /\ x.api = 0 /\ x.kubelet = 0
          /\ x.role = "none" /\ x.node = FALSE /\ x.up = FALSE
          /\ x.held = FALSE /\ x.own = FALSE
      BY <1>2, <3>2, <3>3, <3>4 DEF Has
    <3>6. KubeadmFits(x, v, l)
      BY <1>1, <2>2, <3>5 DEF KubeadmFits
    <3>7. KubeadmAt(x, v, l, scripts, k + 1)
      BY <1>6, <2>1, <2>5, <3>5 DEF KubeadmAt
    <3> QED BY <3>5, <3>6, <3>7
  <2> QED BY <2>3, <2>4, <2>5
<1> QED BY <1>0, <1>4, <1>5, <1>6 DEF Names

\* Where a script that fails leaves the machine.
LEMMA KubeadmFailure ==
  ASSUME NEW m \in Machine, NEW v \in Nat, v > 0, NEW l \in Record, l.done = FALSE,
         l.name # "uninstall" => l.version = v,
         NEW scripts, NEW k \in 1 .. Len(scripts), NEW x \in AfterFailure(scripts[k], m), NEW fs,
         KubeadmFits(m, v, l), KubeadmAt(m, v, l, scripts, k), Able(scripts[k], m, fs)
  PROVE  x \in Machine /\ KubeadmFits(x, v, l)
<1>1. CASE x = m
  BY <1>1
<1>2. CASE scripts[k].do # "install-packages" /\ x \in Effects(scripts[k], m)
  <2>1. x \in After(scripts[k], m)
    BY <1>2 DEF After, Refused
  <2> QED BY <2>1, KubeadmScript
<1>3. CASE scripts[k].do = "install-packages"
           /\ \E is \in After(scripts[k], m) : x = [is EXCEPT !.held = m.held]
  <2>1. PICK is \in After(scripts[k], m) : x = [is EXCEPT !.held = m.held]
    BY <1>3
  <2>2. is \in Machine /\ KubeadmFits(is, v, l) /\ KubeadmAt(is, v, l, scripts, k + 1)
    BY KubeadmScript
  <2>3. m.held \in BOOLEAN /\ m.tool \in Nat /\ (m.held => m.tool > 0) /\ is.tool \in Nat
    BY <2>2, MachineFields DEF KubeadmFits
  <2>4. /\ x \in Machine
        /\ x.tool = is.tool /\ x.api = is.api /\ x.kubelet = is.kubelet
        /\ x.role = is.role /\ x.node = is.node /\ x.up = is.up
        /\ x.held = m.held /\ x.own = is.own
    BY <2>1, <2>2, <2>3 DEF Machine
  <2>5. m.tool > 0 => is.tool > 0
    <3>1. CASE is \in Effects(scripts[k], m)
      <4>1. scripts[k] = InstallPackages(v)
        <5>1. CASE l.name \in {"init", "join"}
          <6>1. scripts = <<InstallPackages(v), RunKubeadm(l.role)>>
            BY <5>1 DEF KubeadmAt
          <6>2. k \in {1, 2}
            BY <6>1
          <6> QED BY <1>3, <6>1, <6>2 DEF RunKubeadm
        <5>2. CASE l.name = "upgrade"
          <6>1. scripts = <<UpgradeKubeadm(v), ApplyUpgrade(v), UpgradeKubelet(v)>>
            BY <5>2 DEF KubeadmAt
          <6>2. k \in {1, 2, 3}
            BY <6>1
          <6> QED BY <1>3, <6>1, <6>2 DEF UpgradeKubeadm, ApplyUpgrade, UpgradeKubelet
        <5>3. CASE l.name = "uninstall"
          <6>1. scripts = <<ResetKubeadm, PurgePackages>>
            BY <5>3 DEF KubeadmAt
          <6>2. k \in {1, 2}
            BY <6>1
          <6> QED BY <1>3, <6>1, <6>2 DEF ResetKubeadm, PurgePackages
        <5> QED BY <5>1, <5>2, <5>3 DEF Record, Names
      <4>2. Has(is, v, m.api, v, m.role, m.node, m.up, TRUE, m.own)
        BY <3>1, <4>1, KubeadmEffects
      <4> QED BY <4>2 DEF Has
    <3>2. CASE is = m
      BY <3>2
    <3>3. CASE is = [m EXCEPT !.held = m.held \/ m.tool > 0]
      <4>1. is.tool = m.tool
        BY <3>3 DEF Machine
      <4> QED BY <4>1
    <3> QED BY <1>3, <3>1, <3>2, <3>3, AfterIs
  <2>6. x.held => x.tool > 0
    BY <2>3, <2>4, <2>5
  <2>7. KubeadmFits(x, v, l)
    BY <2>2, <2>4, <2>6 DEF KubeadmFits, Runs, Serves, Asked, Gone
  <2> QED BY <2>4, <2>7
<1> QED BY <1>1, <1>2, <1>3, AfterFailureIs

-----------------------------------------------------------------------------
(* An operation begins, gets on and ends, whatever the distribution.       *)

\* The same operation, one of whose scripts may have missed its effect.
SameOperation(y, l) ==
  y.name = l.name /\ y.role = l.role /\ y.version = l.version /\ y.done = l.done

\* Less is asked of an operation one of whose scripts has missed its effect.
LEMMA HollowAsksLess ==
  ASSUME NEW d, NEW is, NEW v, NEW l, NEW y, SameOperation(y, l), l.hollow => y.hollow
  PROVE  /\ Fits(d, is, v, l) => Fits(d, is, v, y)
         /\ \A scripts, k : At(d, is, v, l, scripts, k) => At(d, is, v, y, scripts, k)
<1>1. /\ Adding(y) <=> Adding(l)
      /\ Promised(y) <=> Promised(l)
      /\ TakenOut(y) <=> TakenOut(l)
      /\ Asked(is, y) <=> Asked(is, l)
  BY DEF SameOperation, Adding, Promised, TakenOut, Asked
<1>2. K3sFits(is, v, l) => K3sFits(is, v, y)
  BY <1>1 DEF SameOperation, K3sFits
<1>3. K0sFits(is, v, l) => K0sFits(is, v, y)
  BY <1>1 DEF SameOperation, K0sFits
<1>4. KubeadmFits(is, v, l) => KubeadmFits(is, v, y)
  BY <1>1 DEF SameOperation, KubeadmFits
<1>5. TalosFits(is, v, l) => TalosFits(is, v, y)
  BY <1>1 DEF SameOperation, TalosFits
<1>6. ASSUME NEW scripts, NEW k
      PROVE  /\ K3sAt(is, v, l, scripts, k) => K3sAt(is, v, y, scripts, k)
             /\ K0sAt(is, v, l, scripts, k) => K0sAt(is, v, y, scripts, k)
             /\ KubeadmAt(is, v, l, scripts, k) => KubeadmAt(is, v, y, scripts, k)
             /\ TalosAt(is, v, l, scripts, k) => TalosAt(is, v, y, scripts, k)
  <2>1. K3sAt(is, v, l, scripts, k) => K3sAt(is, v, y, scripts, k)
    BY <1>1 DEF SameOperation, K3sAt
  <2>2. K0sAt(is, v, l, scripts, k) => K0sAt(is, v, y, scripts, k)
    BY <1>1 DEF SameOperation, K0sAt
  <2>3. KubeadmAt(is, v, l, scripts, k) => KubeadmAt(is, v, y, scripts, k)
    BY DEF SameOperation, KubeadmAt
  <2>4. TalosAt(is, v, l, scripts, k) => TalosAt(is, v, y, scripts, k)
    BY DEF SameOperation, TalosAt
  <2> QED BY <2>1, <2>2, <2>3, <2>4
<1> QED BY <1>2, <1>3, <1>4, <1>5, <1>6 DEF Fits, At, SameOperation

\* One script that has had its effect, or missed it.
LEMMA ScriptFits ==
  ASSUME NEW d \in Distros, NEW m \in Machine, NEW v \in Nat, v > 0,
         NEW l \in Record, NEW y,
         NEW scripts, NEW k, k <= Len(scripts), NEW fs,
         Fits(d, m, v, l), At(d, m, v, l, scripts, k), Able(scripts[k], m, fs),
         NEW x \in After(scripts[k], m), SameOperation(y, l), l.hollow => y.hollow,
         x \notin Effects(scripts[k], m) => y.hollow
  PROVE  x \in Machine /\ Fits(d, x, v, y) /\ At(d, x, v, y, scripts, k + 1)
<1>0. /\ k \in 1 .. Len(scripts) /\ k + 1 \in 1 .. Len(scripts) + 1
      /\ l.done = FALSE /\ (l.name # "uninstall" => l.version = v)
      /\ Len(scripts) \in Nat
  BY DEF At
<1>1. SUFFICES /\ x \in Machine
               /\ \/ Fits(d, x, v, l) /\ At(d, x, v, l, scripts, k + 1)
                  \/ Fits(d, x, v, y) /\ At(d, x, v, y, scripts, k + 1)
  BY HollowAsksLess
<1>2. CASE d = "kubeadm"
  BY <1>0, <1>2, KubeadmScript DEF Fits, At
<1>3. CASE x \in Effects(scripts[k], m)
  <2>1. CASE d = "k3s"
    BY <1>0, <1>3, <2>1, K3sScript DEF Fits, At
  <2>2. CASE d = "k0s"
    BY <1>0, <1>3, <2>2, K0sScript DEF Fits, At
  <2>3. CASE d = "talos"
    BY <1>0, <1>3, <2>3, TalosScript DEF Fits, At
  <2> QED BY <1>2, <2>1, <2>2, <2>3 DEF Distros
<1>4. CASE x \notin Effects(scripts[k], m) /\ d # "kubeadm"
  <2>1. y.hollow
    BY <1>4
  <2>2. Fits(d, m, v, y) /\ At(d, m, v, y, scripts, k)
    BY HollowAsksLess
  <2>3. CASE d = "k3s"
    <3>1. /\ scripts[k].do # "install-packages"
          /\ y.name = "uninstall" => scripts[k].do # "install-k3s"
      <4>1. CASE y.name # "uninstall"
        <5>1. scripts = <<InstallK3s(v, IF y.name = "upgrade" THEN Untold ELSE y.role)>>
          BY <2>2, <2>3, <4>1 DEF At, K3sAt
        <5>2. k = 1
          BY <1>0, <5>1
        <5> QED BY <4>1, <5>1, <5>2 DEF InstallK3s
      <4>2. CASE y.name = "uninstall"
        <5>1. scripts = K3sUninstall(y.role).scripts
          BY <2>2, <2>3, <4>2 DEF At, K3sAt
        <5>2. Len(scripts) = 1 /\ scripts[1].do = "uninstall-k3s"
          BY <5>1 DEF K3sUninstall, Data
        <5> QED BY <1>0, <5>2
      <4> QED BY <4>1, <4>2
    <3>2. x = m /\ scripts[k].do \in {"install-k3s", "get-k0s"}
      BY <1>4, <3>1, AfterIs
    <3>3. y.name # "uninstall"
      <4>1. CASE y.name = "uninstall"
        <5>1. scripts = K3sUninstall(y.role).scripts
          BY <2>2, <2>3, <4>1 DEF At, K3sAt
        <5>2. Len(scripts) = 1 /\ scripts[1].do = "uninstall-k3s"
          BY <5>1 DEF K3sUninstall, Data
        <5> QED BY <1>0, <3>2, <5>2
      <4> QED BY <4>1
    <3>4. K3sAt(m, v, y, scripts, k + 1)
      BY <2>1, <2>2, <2>3, <3>3 DEF At, K3sAt
    <3> QED BY <1>0, <2>2, <2>3, <3>2, <3>4 DEF At
  <2>4. CASE d = "k0s"
    <3>1. \/ /\ y.name \in {"init", "join"}
             /\ \E kub \in BOOLEAN, file \in {"k0s.yaml", "token"} :
                  scripts = <<GetK0s(v), SetupK0s(y.role, kub, file), StartK0s>>
          \/ y.name = "upgrade" /\ scripts = <<StopK0s, GetK0s(v), StartK0s>>
          \/ y.name = "uninstall" /\ scripts = <<StopK0s, ResetK0s>>
      BY <2>2, <2>4 DEF At, K0sAt
    <3>2. /\ scripts[k].do \notin {"install-packages", "install-k3s"}
          /\ scripts[k].do = "get-k0s" =>
               \/ y.name \in {"init", "join"} /\ k = 1
               \/ y.name = "upgrade" /\ k = 2
      <4>1. k \in {1, 2, 3}
        BY <1>0, <3>1
      <4> QED BY <1>0, <3>1, <4>1 DEF GetK0s, SetupK0s, StartK0s, StopK0s, ResetK0s
    <3>3. x = m /\ scripts[k].do = "get-k0s"
      BY <1>4, <3>2, AfterIs
    <3>4. K0sAt(m, v, y, scripts, k + 1)
      BY <2>1, <3>1, <3>2, <3>3 DEF K0sAt
    <3> QED BY <1>0, <2>2, <2>4, <3>3, <3>4 DEF At
  <2>5. CASE d = "talos"
    <3>1. \/ scripts = <<GenConfig, ApplyConfig("control-plane"), BootstrapTalos>>
          \/ scripts = <<ApplyConfig(y.role)>>
          \/ scripts = <<UpgradeTalos(v)>>
          \/ scripts = <<ResetTalos>>
      BY <2>2, <2>5 DEF At, TalosAt
    <3>2. k \in {1, 2, 3}
      BY <1>0, <3>1
    <3>3. scripts[k].do \notin {"install-packages", "install-k3s", "get-k0s"}
      BY <1>0, <3>1, <3>2 DEF GenConfig, ApplyConfig, BootstrapTalos, UpgradeTalos, ResetTalos
    <3> QED BY <1>4, <3>3, AfterIs
  <2> QED BY <1>4, <2>3, <2>4, <2>5 DEF Distros
<1> QED BY <1>2, <1>3, <1>4

\* A script that fails, before or after its effect.
LEMMA FailureFits ==
  ASSUME NEW d \in Distros, NEW m \in Machine, NEW v \in Nat, v > 0,
         NEW l \in Record, NEW scripts, NEW k, k <= Len(scripts), NEW fs,
         Fits(d, m, v, l), At(d, m, v, l, scripts, k), Able(scripts[k], m, fs),
         NEW x \in AfterFailure(scripts[k], m)
  PROVE  x \in Machine /\ Fits(d, x, v, l)
<1>0. /\ k \in 1 .. Len(scripts)
      /\ l.done = FALSE /\ (l.name # "uninstall" => l.version = v)
  BY DEF At
<1>1. CASE d = "kubeadm"
  BY <1>0, <1>1, KubeadmFailure DEF Fits, At
<1>2. CASE x = m
  BY <1>2
<1>3. CASE d # "kubeadm" /\ x # m
  <2>1. scripts[k].do # "install-packages"
    <3>1. CASE d = "k3s"
      <4>1. \/ scripts = <<InstallK3s(v, IF l.name = "upgrade" THEN Untold ELSE l.role)>>
            \/ scripts = K3sUninstall(l.role).scripts
        BY <3>1 DEF At, K3sAt
      <4>2. CASE scripts = <<InstallK3s(v, IF l.name = "upgrade" THEN Untold ELSE l.role)>>
        <5>1. k = 1
          BY <1>0, <4>2
        <5> QED BY <4>2, <5>1 DEF InstallK3s
      <4>3. CASE scripts = K3sUninstall(l.role).scripts
        <5>1. Len(scripts) = 1 /\ scripts[1].do = "uninstall-k3s"
          BY <4>3 DEF K3sUninstall, Data
        <5> QED BY <1>0, <5>1
      <4> QED BY <4>1, <4>2, <4>3
    <3>2. CASE d = "k0s"
      <4>1. \/ \E kub \in BOOLEAN, file \in {"k0s.yaml", "token"} :
                 scripts = <<GetK0s(v), SetupK0s(l.role, kub, file), StartK0s>>
            \/ scripts = <<StopK0s, GetK0s(v), StartK0s>>
            \/ scripts = <<StopK0s, ResetK0s>>
        BY <3>2 DEF At, K0sAt
      <4>2. k \in {1, 2, 3}
        BY <1>0, <4>1
      <4> QED BY <1>0, <4>1, <4>2 DEF GetK0s, SetupK0s, StartK0s, StopK0s, ResetK0s
    <3>3. CASE d = "talos"
      <4>1. \/ scripts = <<GenConfig, ApplyConfig("control-plane"), BootstrapTalos>>
            \/ scripts = <<ApplyConfig(l.role)>>
            \/ scripts = <<UpgradeTalos(v)>>
            \/ scripts = <<ResetTalos>>
        BY <3>3 DEF At, TalosAt
      <4>2. k \in {1, 2, 3}
        BY <1>0, <4>1
      <4> QED BY <1>0, <4>1, <4>2
          DEF GenConfig, ApplyConfig, BootstrapTalos, UpgradeTalos, ResetTalos
    <3> QED BY <1>3, <3>1, <3>2, <3>3 DEF Distros
  <2>2. x \in Effects(scripts[k], m)
    BY <1>3, <2>1, AfterFailureIs
  <2>3. x \in After(scripts[k], m)
    BY <2>1, <2>2 DEF After, Refused
  <2>4. SameOperation(l, l)
    BY DEF SameOperation
  <2> QED BY <2>2, <2>3, <2>4, ScriptFits
<1> QED BY <1>1, <1>2, <1>3

\* All scripts have run: the operation has done what it is for.
LEMMA ScriptsDoneFits ==
  ASSUME NEW d \in Distros, NEW m \in Machine, NEW v \in Nat,
         NEW l \in Record, NEW scripts, NEW k, ~(k <= Len(scripts)),
         Fits(d, m, v, l), At(d, m, v, l, scripts, k)
  PROVE  Fits(d, m, v, [l EXCEPT !.done = TRUE])
<1> DEFINE n == [l EXCEPT !.done = TRUE]
<1>1. /\ n.name = l.name /\ n.role = l.role /\ n.version = l.version
      /\ n.hollow = l.hollow /\ n.done = TRUE
      /\ l.name \in Names
  BY DEF Record
<1> HIDE DEF n
<1>2. l.done = FALSE /\ (l.name # "uninstall" => l.version = v)
  BY DEF At
<1>20. k = Len(scripts) + 1
  BY DEF At
<1>3. /\ ~Adding(n)
      /\ Promised(n) <=> l.name # "uninstall"
      /\ TakenOut(n) <=> l.name = "uninstall"
      /\ Asked(m, n) <=> Asked(m, l)
  BY <1>1 DEF Adding, Promised, TakenOut, Asked
<1>4. CASE d = "k3s"
  <2>1. K3sFits(m, v, l) /\ K3sAt(m, v, l, scripts, k)
    BY <1>4 DEF Fits, At
  <2>2. k > 1
    <3>1. CASE l.name = "uninstall"
      <4>1. scripts = K3sUninstall(l.role).scripts
        BY <2>1, <3>1 DEF K3sAt
      <4>2. Len(scripts) = 1
        BY <4>1 DEF K3sUninstall, Data
      <4> QED BY <1>20, <4>2
    <3>2. CASE l.name # "uninstall"
      <4>1. Len(scripts) = 1
        BY <2>1, <3>2 DEF K3sAt
      <4> QED BY <1>20, <4>1
    <3> QED BY <3>1, <3>2
  <2>3. K3sFits(m, v, n)
    BY <1>1, <1>3, <2>1, <2>2 DEF K3sFits, K3sAt
  <2> QED BY <1>4, <2>3 DEF Fits, n
<1>5. CASE d = "k0s"
  <2>1. K0sFits(m, v, l) /\ K0sAt(m, v, l, scripts, k)
    BY <1>5 DEF Fits, At
  <2>2. CASE l.name = "uninstall"
    <3>1. scripts = <<StopK0s, ResetK0s>> /\ (k > 2 => Gone(m))
      BY <2>1, <2>2 DEF K0sAt
    <3>2. k = 3
      BY <1>20, <3>1
    <3>3. K0sFits(m, v, n)
      BY <1>3, <2>1, <2>2, <3>1, <3>2 DEF K0sFits
    <3> QED BY <1>5, <3>3 DEF Fits, n
  <2>3. CASE l.name # "uninstall"
    <3>1. Len(scripts) = 3
      BY <2>1, <2>3 DEF K0sAt
    <3>2. k = 4
      BY <1>20, <3>1
    <3>3. /\ K0sRuns(m)
          /\ ~l.hollow => m.tool = v /\ (l.name # "upgrade" => m.role = l.role)
      BY <2>1, <2>3, <3>2 DEF K0sAt
    <3>4. ~l.hollow => Asked(m, l)
      BY <1>2, <2>3, <3>3 DEF Asked
    <3>5. K0sFits(m, v, n)
      BY <1>1, <1>3, <2>1, <2>3, <3>3, <3>4 DEF K0sFits
    <3> QED BY <1>5, <3>5 DEF Fits, n
  <2> QED BY <2>2, <2>3
<1>6. CASE d = "kubeadm"
  <2>1. KubeadmFits(m, v, l) /\ KubeadmAt(m, v, l, scripts, k)
    BY <1>6 DEF Fits, At
  <2>2. ASSUME l.name = "uninstall" PROVE KubeadmFits(m, v, n)
    <3>1. /\ scripts = <<ResetKubeadm, PurgePackages>>
          /\ k > 1 => m.up = FALSE
          /\ k > 2 => m.tool = 0 /\ m.kubelet = 0
      BY <2>1, <2>2 DEF KubeadmAt
    <3>2. k = 3
      BY <1>20, <3>1
    <3>3. Gone(m) /\ m.tool = 0
      BY <2>1, <3>1, <3>2 DEF KubeadmFits, Gone
    <3> QED BY <1>3, <2>1, <2>2, <3>3 DEF KubeadmFits
  <2>3. ASSUME l.name # "uninstall", Runs(m), Asked(m, l) PROVE KubeadmFits(m, v, n)
    BY <1>3, <2>1, <2>3 DEF KubeadmFits
  <2>4. ASSUME l.name = "upgrade" PROVE Runs(m) /\ Asked(m, l)
    <3>1. /\ scripts = <<UpgradeKubeadm(v), ApplyUpgrade(v), UpgradeKubelet(v)>>
          /\ k > 1 => m.tool = v
          /\ k > 2 => m.role = "control-plane" /\ m.api = v
          /\ k > 3 => m.kubelet = v
      BY <2>1, <2>4 DEF KubeadmAt
    <3>2. k = 4
      BY <1>20, <3>1
    <3>3. m.tool = v /\ m.role = "control-plane" /\ m.api = v /\ m.kubelet = v
      BY <3>1, <3>2
    <3>4. m.up /\ m.node = TRUE /\ m.tool > 0
      BY <2>1, <3>3 DEF KubeadmFits
    <3> QED BY <1>2, <2>4, <3>3, <3>4 DEF Runs, Serves, OfRole, MachineRoles, Asked
  <2>5. ASSUME l.name \in {"init", "join"} PROVE Runs(m) /\ Asked(m, l)
    <3>1. /\ scripts = <<InstallPackages(v), RunKubeadm(l.role)>>
          /\ k > 2 => m.up /\ m.role = l.role
      BY <2>1, <2>5 DEF KubeadmAt
    <3>2. k = 3
      BY <1>20, <3>1
    <3>3. m.up /\ m.role = l.role /\ Adding(l)
      BY <1>2, <2>5, <3>1, <3>2 DEF Adding
    <3>4. /\ m.tool = v /\ m.kubelet = v /\ m.api = OfRole(m.role, v)
          /\ m.node = TRUE /\ m.tool > 0 /\ m.role \in MachineRoles
      BY <2>1, <3>3 DEF KubeadmFits
    <3> QED BY <1>2, <2>5, <3>3, <3>4 DEF Runs, Serves, Asked
  <2>6. KubeadmFits(m, v, n)
    BY <1>1, <2>2, <2>3, <2>4, <2>5 DEF Names
  <2> QED BY <1>6, <2>6 DEF Fits, n
<1>7. CASE d = "talos"
  <2>1. TalosFits(m, v, l) /\ TalosAt(m, v, l, scripts, k)
    BY <1>7 DEF Fits, At
  <2>2. CASE l.name = "uninstall"
    <3>1. scripts = <<ResetTalos>> /\ (k > 1 => Gone(m))
      BY <2>1, <2>2 DEF TalosAt
    <3>2. k = 2
      BY <1>20, <3>1
    <3>3. TalosFits(m, v, n)
      BY <1>3, <2>1, <2>2, <3>1, <3>2 DEF TalosFits
    <3> QED BY <1>7, <3>3 DEF Fits, n
  <2>3. CASE l.name # "uninstall"
    <3>1. \/ Len(scripts) = 3 /\ (k > 2 => Runs(m) /\ m.role = l.role) /\ l.name = "init"
          \/ Len(scripts) = 1 /\ (k > 1 => Runs(m) /\ m.role = l.role) /\ l.name = "join"
          \/ Len(scripts) = 1 /\ (k > 1 => Runs(m) /\ m.tool = v) /\ l.name = "upgrade"
      BY <2>1, <2>3 DEF TalosAt
    <3>20. ASSUME Len(scripts) = 3 PROVE k = 4
      BY <1>20, <3>20
    <3>21. ASSUME Len(scripts) = 1 PROVE k = 2
      BY <1>20, <3>21
    <3>3. /\ Runs(m)
          /\ l.name # "upgrade" => m.role = l.role
          /\ l.name = "upgrade" => m.tool = l.version
      BY <1>2, <3>1, <3>20, <3>21
    <3>4. TalosFits(m, v, n)
      BY <1>1, <1>3, <2>1, <2>3, <3>3 DEF TalosFits
    <3> QED BY <1>7, <3>4 DEF Fits, n
  <2> QED BY <2>2, <2>3
<1> QED BY <1>4, <1>5, <1>6, <1>7 DEF Distros

\* Nothing is promised of an operation that begins; a machine is added that is
\* out, or where adding it was tried.
LEMMA BegunFits ==
  ASSUME NEW d \in Distros, NEW m \in Machine, NEW v \in Nat, NEW l, NEW n, n.done = FALSE,
         Fits(d, m, v, l),
         n.name \in {"init", "join"} =>
           /\ TakenOut(l) \/ Adding(l)
           /\ d = "k0s" => m.role \in {"none", n.role}
  PROVE  Fits(d, m, v, n)
<1>1. ~Promised(n) /\ ~TakenOut(n) /\ (Adding(n) <=> n.name \in {"init", "join"})
  BY DEF Promised, TakenOut, Adding
<1>2. CASE d = "k3s"
  BY <1>1, <1>2 DEF Fits, K3sFits
<1>3. CASE d = "k0s"
  BY <1>1, <1>3 DEF Fits, K0sFits
<1>4. CASE d = "kubeadm"
  BY <1>1, <1>4 DEF Fits, KubeadmFits, Gone
<1>5. CASE d = "talos"
  BY <1>1, <1>5 DEF Fits, TalosFits
<1> QED BY <1>2, <1>3, <1>4, <1>5 DEF Distros

\* The first script of each operation comes next.
LEMMA InitBegun ==
  ASSUME NEW d \in Distros, NEW m, NEW c \in ClusterSpec, NEW l, l.name = "init",
         l.role = "control-plane", l.version = c.version, l.done = FALSE
  PROVE  At(d, m, c.version, l, InitControlPlane(d, c).scripts, 1)
<1> DEFINE s == InitControlPlane(d, c).scripts
<1>1. c.HAEnabled \in BOOLEAN
  BY DEF ClusterSpec
<1>2. CASE d = "k3s"
  <2>1. s = <<InstallK3s(c.version, "control-plane")>>
    BY <1>2 DEF InitControlPlane, K3sInitControlPlane, Data
  <2> HIDE DEF s
  <2>2. K3sAt(m, c.version, l, s, 1) /\ Len(s) \in Nat /\ 1 \in 1 .. Len(s) + 1
    BY <2>1 DEF K3sAt
  <2> QED BY <1>2, <2>2 DEF At, s
<1>3. CASE d = "k0s"
  <2>1. s = <<GetK0s(c.version), SetupK0s("control-plane", c.HAEnabled, "k0s.yaml"), StartK0s>>
    BY <1>3 DEF InitControlPlane, K0sInitControlPlane, Data
  <2> HIDE DEF s
  <2>2. K0sAt(m, c.version, l, s, 1) /\ Len(s) \in Nat /\ 1 \in 1 .. Len(s) + 1
    BY <1>1, <2>1 DEF K0sAt
  <2> QED BY <1>3, <2>2 DEF At, s
<1>4. CASE d = "kubeadm"
  <2>1. s = <<InstallPackages(c.version), RunKubeadm("control-plane")>>
    BY <1>4 DEF InitControlPlane, KubeadmInitControlPlane, Data
  <2> HIDE DEF s
  <2>2. KubeadmAt(m, c.version, l, s, 1) /\ Len(s) \in Nat /\ 1 \in 1 .. Len(s) + 1
    BY <2>1 DEF KubeadmAt
  <2> QED BY <1>4, <2>2 DEF At, s
<1>5. CASE d = "talos"
  <2>1. s = <<GenConfig, ApplyConfig("control-plane"), BootstrapTalos>>
    BY <1>5 DEF InitControlPlane, TalosInitControlPlane, Data
  <2> HIDE DEF s
  <2>2. TalosAt(m, c.version, l, s, 1) /\ Len(s) \in Nat /\ 1 \in 1 .. Len(s) + 1
    BY <2>1 DEF TalosAt
  <2> QED BY <1>5, <2>2 DEF At, s
<1> QED BY <1>2, <1>3, <1>4, <1>5 DEF Distros

LEMMA JoinBegun ==
  ASSUME NEW d \in Distros, NEW m, NEW c \in ClusterSpec, NEW role \in MachineRoles,
         NEW l, l.name = "join", l.role = role, l.version = c.version, l.done = FALSE
  PROVE  LET data == IF role = "control-plane" THEN JoinControlPlane(d, c) ELSE JoinWorker(d, c)
         IN  At(d, m, c.version, l, data.scripts, 1)
<1> DEFINE data == IF role = "control-plane" THEN JoinControlPlane(d, c) ELSE JoinWorker(d, c)
           s == data.scripts
<1>1. CASE d = "k3s"
  <2>1. s = <<InstallK3s(c.version, role)>>
    BY <1>1 DEF JoinControlPlane, JoinWorker, K3sJoinControlPlane, K3sJoinWorker, Data, MachineRoles
  <2> HIDE DEF s
  <2>2. K3sAt(m, c.version, l, s, 1) /\ Len(s) \in Nat /\ 1 \in 1 .. Len(s) + 1
    BY <2>1 DEF K3sAt
  <2> QED BY <1>1, <2>2 DEF At, s
<1>2. CASE d = "k0s"
  <2>1. CASE role = "worker"
    <3>1. s = <<GetK0s(c.version), SetupK0s("worker", TRUE, "token"), StartK0s>>
      BY <1>2, <2>1 DEF JoinWorker, K0sJoinWorker, Data
    <3> HIDE DEF s
    <3>2. s = <<GetK0s(c.version), SetupK0s(l.role, TRUE, "token"), StartK0s>>
      BY <2>1, <3>1
    <3>3. \E kub \in BOOLEAN, file \in {"k0s.yaml", "token"} :
            s = <<GetK0s(c.version), SetupK0s(l.role, kub, file), StartK0s>>
      BY <3>2, Zenon
    <3>4. ~(1 > 1) /\ ~(1 > 2) /\ ~(1 > 3)
      OBVIOUS
    <3>5. K0sAt(m, c.version, l, s, 1)
      BY <3>3, <3>4, Zenon DEF K0sAt
    <3>6. Len(s) \in Nat /\ 1 \in 1 .. Len(s) + 1
      BY <3>1
    <3> QED BY <1>2, <3>5, <3>6 DEF At, s
  <2>2. CASE role = "control-plane"
    <3>1. s = <<GetK0s(c.version), SetupK0s("control-plane", FALSE, "token"), StartK0s>>
      BY <1>2, <2>2 DEF JoinControlPlane, K0sJoinControlPlane, Data
    <3> HIDE DEF s
    <3>2. s = <<GetK0s(c.version), SetupK0s(l.role, FALSE, "token"), StartK0s>>
      BY <2>2, <3>1
    <3>3. \E kub \in BOOLEAN, file \in {"k0s.yaml", "token"} :
            s = <<GetK0s(c.version), SetupK0s(l.role, kub, file), StartK0s>>
      BY <3>2, Zenon
    <3>4. ~(1 > 1) /\ ~(1 > 2) /\ ~(1 > 3)
      OBVIOUS
    <3>5. K0sAt(m, c.version, l, s, 1)
      BY <3>3, <3>4, Zenon DEF K0sAt
    <3>6. Len(s) \in Nat /\ 1 \in 1 .. Len(s) + 1
      BY <3>1
    <3> QED BY <1>2, <3>5, <3>6 DEF At, s
  <2> QED BY <2>1, <2>2 DEF MachineRoles
<1>3. CASE d = "kubeadm"
  <2>1. s = <<InstallPackages(c.version), RunKubeadm(role)>>
    BY <1>3 DEF JoinControlPlane, JoinWorker, KubeadmJoinControlPlane, KubeadmJoinWorker, Data,
                MachineRoles
  <2> HIDE DEF s
  <2>2. KubeadmAt(m, c.version, l, s, 1) /\ Len(s) \in Nat /\ 1 \in 1 .. Len(s) + 1
    BY <2>1 DEF KubeadmAt
  <2> QED BY <1>3, <2>2 DEF At, s
<1>4. CASE d = "talos"
  <2>1. s = <<ApplyConfig(role)>>
    BY <1>4 DEF JoinControlPlane, JoinWorker, TalosJoinControlPlane, TalosJoinWorker, Data,
                MachineRoles
  <2> HIDE DEF s
  <2>2. TalosAt(m, c.version, l, s, 1) /\ Len(s) \in Nat /\ 1 \in 1 .. Len(s) + 1
    BY <2>1 DEF TalosAt
  <2> QED BY <1>4, <2>2 DEF At, s
<1> QED BY <1>1, <1>2, <1>3, <1>4 DEF Distros

LEMMA UninstallBegun ==
  ASSUME NEW d \in Distros, NEW m, NEW v, NEW role \in MachineRoles, m.role \in {"none", role},
         NEW l, l.name = "uninstall", l.role = role, l.done = FALSE
  PROVE  At(d, m, v, l, Uninstall(d, role).scripts, 1)
<1> DEFINE s == Uninstall(d, role).scripts
<1>1. CASE d = "k3s"
  <2>1. s = K3sUninstall(role).scripts
    BY <1>1 DEF Uninstall
  <2>2. Len(s) = 1
    BY <2>1 DEF K3sUninstall, Data
  <2> HIDE DEF s
  <2>3. K3sAt(m, v, l, s, 1) /\ Len(s) \in Nat /\ 1 \in 1 .. Len(s) + 1
    BY <2>1, <2>2 DEF K3sAt
  <2> QED BY <1>1, <2>3 DEF At, s
<1>2. CASE d = "k0s"
  <2>1. s = <<StopK0s, ResetK0s>>
    BY <1>2 DEF Uninstall, K0sUninstall, Data
  <2> HIDE DEF s
  <2>2. K0sAt(m, v, l, s, 1) /\ Len(s) \in Nat /\ 1 \in 1 .. Len(s) + 1
    BY <2>1 DEF K0sAt
  <2> QED BY <1>2, <2>2 DEF At, s
<1>3. CASE d = "kubeadm"
  <2>1. s = <<ResetKubeadm, PurgePackages>>
    BY <1>3 DEF Uninstall, KubeadmUninstall, Data
  <2> HIDE DEF s
  <2>2. KubeadmAt(m, v, l, s, 1) /\ Len(s) \in Nat /\ 1 \in 1 .. Len(s) + 1
    BY <2>1 DEF KubeadmAt
  <2> QED BY <1>3, <2>2 DEF At, s
<1>4. CASE d = "talos"
  <2>1. s = <<ResetTalos>>
    BY <1>4 DEF Uninstall, TalosUninstall, Data
  <2> HIDE DEF s
  <2>2. TalosAt(m, v, l, s, 1) /\ Len(s) \in Nat /\ 1 \in 1 .. Len(s) + 1
    BY <2>1 DEF TalosAt
  <2> QED BY <1>4, <2>2 DEF At, s
<1> QED BY <1>1, <1>2, <1>3, <1>4 DEF Distros

LEMMA UpgradeBegun ==
  ASSUME NEW d \in Distros, NEW m, NEW v, NEW l, l.name = "upgrade", l.version = v, l.done = FALSE
  PROVE  At(d, m, v, l, Upgrade(d, v).scripts, 1)
<1> DEFINE s == Upgrade(d, v).scripts
<1>1. CASE d = "k3s"
  <2>1. s = <<InstallK3s(v, Untold)>>
    BY <1>1 DEF Upgrade, K3sUpgrade, Data
  <2> HIDE DEF s
  <2>2. K3sAt(m, v, l, s, 1) /\ Len(s) \in Nat /\ 1 \in 1 .. Len(s) + 1
    BY <2>1 DEF K3sAt
  <2> QED BY <1>1, <2>2 DEF At, s
<1>2. CASE d = "k0s"
  <2>1. s = <<StopK0s, GetK0s(v), StartK0s>>
    BY <1>2 DEF Upgrade, K0sUpgrade, Data
  <2> HIDE DEF s
  <2>2. K0sAt(m, v, l, s, 1) /\ Len(s) \in Nat /\ 1 \in 1 .. Len(s) + 1
    BY <2>1 DEF K0sAt
  <2> QED BY <1>2, <2>2 DEF At, s
<1>3. CASE d = "kubeadm"
  <2>1. s = <<UpgradeKubeadm(v), ApplyUpgrade(v), UpgradeKubelet(v)>>
    BY <1>3 DEF Upgrade, KubeadmUpgrade, Data
  <2> HIDE DEF s
  <2>2. KubeadmAt(m, v, l, s, 1) /\ Len(s) \in Nat /\ 1 \in 1 .. Len(s) + 1
    BY <2>1 DEF KubeadmAt
  <2> QED BY <1>3, <2>2 DEF At, s
<1>4. CASE d = "talos"
  <2>1. s = <<UpgradeTalos(v)>>
    BY <1>4 DEF Upgrade, TalosUpgrade, Data
  <2> HIDE DEF s
  <2>2. TalosAt(m, v, l, s, 1) /\ Len(s) \in Nat /\ 1 \in 1 .. Len(s) + 1
    BY <2>1 DEF TalosAt
  <2> QED BY <1>4, <2>2 DEF At, s
<1> QED BY <1>1, <1>2, <1>3, <1>4 DEF Distros

\* The version asked for may rise while no machine is being added.
LEMMA LaterFits ==
  ASSUME NEW d \in Distros, NEW m \in Machine, NEW v \in Nat, NEW w \in Nat, v <= w,
         NEW l, ~Adding(l), Fits(d, m, v, l)
  PROVE  Fits(d, m, w, l)
<1>1. m.tool \in Nat
  BY MachineFields
<1>2. CASE d = "k3s"
  BY <1>2 DEF Fits, K3sFits
<1>3. CASE d = "k0s"
  BY <1>1, <1>3 DEF Fits, K0sFits
<1>4. CASE d = "kubeadm"
  BY <1>1, <1>4 DEF Fits, KubeadmFits
<1>5. CASE d = "talos"
  BY <1>5 DEF Fits, TalosFits
<1> QED BY <1>2, <1>3, <1>4, <1>5 DEF Distros

\* The packages are no longer held.
LEMMA UnheldFits ==
  ASSUME NEW d \in Distros, NEW m \in Machine, NEW v, NEW l, Fits(d, m, v, l)
  PROVE  [m EXCEPT !.held = FALSE] \in Machine /\ Fits(d, [m EXCEPT !.held = FALSE], v, l)
<1> DEFINE x == [m EXCEPT !.held = FALSE]
<1>1. /\ x \in Machine
      /\ x.tool = m.tool /\ x.api = m.api /\ x.kubelet = m.kubelet
      /\ x.role = m.role /\ x.node = m.node /\ x.up = m.up
      /\ x.held = FALSE /\ x.own = m.own
  BY DEF Machine
<1> HIDE DEF x
<1>2. (Gone(x) <=> Gone(m)) /\ (Serves(x) <=> Serves(m)) /\ (Asked(x, l) <=> Asked(m, l))
  BY <1>1 DEF Gone, Serves, Asked
<1>3. (Runs(x) <=> Runs(m)) /\ (K0sRuns(x) <=> K0sRuns(m))
  BY <1>1, <1>2 DEF Runs, K0sRuns
<1>4. CASE d = "k3s"
  BY <1>1, <1>2, <1>4 DEF Fits, K3sFits, x
<1>5. CASE d = "k0s"
  BY <1>1, <1>2, <1>3, <1>5 DEF Fits, K0sFits, x
<1>6. CASE d = "kubeadm"
  BY <1>1, <1>2, <1>3, <1>6 DEF Fits, KubeadmFits, x
<1>7. CASE d = "talos"
  BY <1>1, <1>2, <1>3, <1>7 DEF Fits, TalosFits, x
<1> QED BY <1>1, <1>4, <1>5, <1>6, <1>7 DEF Distros, x

-----------------------------------------------------------------------------
(* The steps of NodeSetup.                                                 *)

\* What the record of an operation that begins says.
Begun(name, role, v) ==
  [name |-> name, role |-> role, version |-> v, done |-> FALSE, hollow |-> FALSE]

\* What SetupInv says of one machine.
LEMMA SetupFields ==
  ASSUME SetupInv
  PROVE  /\ distro \in Distros /\ cluster \in ClusterSpec
         /\ cluster.version \in Nat /\ cluster.version > 0
         /\ machine \in [Machines -> Machine] /\ last \in [Machines -> Record]
         /\ \A m \in Machines : /\ machine[m] \in Machine /\ last[m] \in Record
                                /\ Fits(distro, machine[m], cluster.version, last[m])
                                /\ last[m].name = "init" => last[m].role = "control-plane"
BY DEF SetupInv, SetupTyped, MachinesFit, ClusterSpec

\* An operation begins.
LEMMA BeginSetup ==
  ASSUME SetupInv, NEW m \in Machines, NEW name \in Names, NEW role \in MachineRoles,
         NEW v \in Nat, NEW data, Begin(m, name, role, v, data),
         name = "init" => role = "control-plane",
         cluster' \in ClusterSpec, cluster'.version > 0,
         Fits(distro, machine[m], cluster'.version, Begun(name, role, v)),
         At(distro, machine[m], cluster'.version, Begun(name, role, v), data.scripts, 1),
         \A other \in Machines : Fits(distro, machine[other], cluster'.version, last[other])
  PROVE  SetupInv'
<1> DEFINE n == Begun(name, role, v)
<1>1. /\ op' = Operation(m, data) /\ distro' = distro /\ machine' = machine
      /\ last' = [last EXCEPT ![m] = n]
  BY DEF Begin, Begun
<1>2. n \in Record /\ n.name = name /\ n.role = role
  BY DEF Begun, Record
<1> HIDE DEF n
<1>3. last'[m] = n /\ \A other \in Machines \ {m} : last'[other] = last[other]
  BY <1>1, SetupFields
<1>4. SetupTyped'
  <2>1. last' \in [Machines -> Record]
    BY <1>1, <1>2, SetupFields
  <2>2. \A other \in Machines : last'[other].name = "init" => last'[other].role = "control-plane"
    BY <1>2, <1>3, SetupFields
  <2> QED BY <1>1, <2>1, <2>2, SetupFields DEF SetupTyped, ClusterSpec
<1>5. MachinesFit'
  BY <1>1, <1>3 DEF MachinesFit, n
<1>6. OperationFits'
  <2>1. op'.on = m /\ op'.written = FALSE /\ op'.script = 1 /\ op'.data = data
    BY <1>1 DEF Operation
  <2> QED BY <1>1, <1>3, <2>1 DEF OperationFits, n
<1> QED BY <1>4, <1>5, <1>6 DEF SetupInv

LEMMA InitBegins ==
  ASSUME SetupInv, NEW m \in Machines, BeginInit(m)
  PROVE  SetupInv'
<1> DEFINE n == Begun("init", "control-plane", cluster.version)
<1>1. /\ cluster' = cluster
      /\ Begin(m, "init", "control-plane", cluster.version, InitControlPlane(distro, cluster))
  BY DEF BeginInit
<1>2. "init" \in Names /\ "control-plane" \in MachineRoles
  BY DEF Names, MachineRoles
<1>3. /\ n.name = "init" /\ n.role = "control-plane"
      /\ n.version = cluster.version /\ n.done = FALSE
  BY DEF Begun
<1>4. /\ TakenOut(last[m]) \/ Adding(last[m])
      /\ distro = "k0s" => machine[m].role \in {"none", "control-plane"}
  <2>1. CASE Done(m, "uninstall")
    <3>1. TakenOut(last[m])
      BY <2>1 DEF Done, TakenOut
    <3>2. distro = "k0s" => Gone(machine[m])
      BY <3>1, SetupFields DEF Fits, K0sFits
    <3> QED BY <3>1, <3>2 DEF Gone
  <2>2. CASE Tried(m, "init")
    <3>1. Adding(last[m]) /\ last[m].role = "control-plane"
      BY <2>2, SetupFields DEF Tried, Adding
    <3>2. distro = "k0s" => machine[m].role \in {"none", "control-plane"}
      BY <3>1, SetupFields DEF Fits, K0sFits
    <3> QED BY <3>1, <3>2
  <2> QED BY <2>1, <2>2 DEF BeginInit
<1> HIDE DEF n
<1>5. Fits(distro, machine[m], cluster.version, n)
  BY <1>3, <1>4, SetupFields, BegunFits
<1>6. At(distro, machine[m], cluster.version, n, InitControlPlane(distro, cluster).scripts, 1)
  BY <1>3, SetupFields, InitBegun
<1> QED BY <1>1, <1>2, <1>5, <1>6, SetupFields, BeginSetup DEF n

LEMMA JoinBegins ==
  ASSUME SetupInv, NEW m \in Machines, NEW role \in MachineRoles, BeginJoin(m, role)
  PROVE  SetupInv'
<1> DEFINE data == IF role = "control-plane" THEN JoinControlPlane(distro, cluster)
                   ELSE JoinWorker(distro, cluster)
           n == Begun("join", role, cluster.version)
<1>1. /\ cluster' = cluster /\ Begin(m, "join", role, cluster.version, data)
      /\ machine[m].role \in {"none", role}
  BY DEF BeginJoin
<1>2. "join" \in Names /\ "join" # "init"
  BY DEF Names
<1>3. n.name = "join" /\ n.role = role /\ n.version = cluster.version /\ n.done = FALSE
  BY DEF Begun
<1>4. TakenOut(last[m]) \/ Adding(last[m])
  BY DEF BeginJoin, Done, Tried, TakenOut, Adding
<1>5. At(distro, machine[m], cluster.version, n, data.scripts, 1)
  <2> HIDE DEF n
  <2> QED BY <1>3, SetupFields, JoinBegun
<1> HIDE DEF n, data
<1>6. Fits(distro, machine[m], cluster.version, n)
  BY <1>1, <1>3, <1>4, SetupFields, BegunFits
<1> QED BY <1>1, <1>2, <1>5, <1>6, SetupFields, BeginSetup DEF n

LEMMA UninstallBegins ==
  ASSUME SetupInv, NEW m \in Machines, NEW role \in MachineRoles, BeginUninstall(m, role)
  PROVE  SetupInv'
<1> DEFINE n == Begun("uninstall", role, 1)
<1>1. /\ cluster' = cluster /\ Begin(m, "uninstall", role, 1, Uninstall(distro, role))
      /\ machine[m].role \in {"none", role}
  BY DEF BeginUninstall
<1>2. "uninstall" \in Names /\ "uninstall" # "init" /\ 1 \in Nat
  BY DEF Names
<1>3. n.name = "uninstall" /\ n.role = role /\ n.done = FALSE
  BY DEF Begun
<1> HIDE DEF n
<1>4. Fits(distro, machine[m], cluster.version, n)
  BY <1>3, SetupFields, BegunFits
<1>5. At(distro, machine[m], cluster.version, n, Uninstall(distro, role).scripts, 1)
  BY <1>1, <1>3, SetupFields, UninstallBegun
<1> QED BY <1>1, <1>2, <1>4, <1>5, SetupFields, BeginSetup DEF n

\* The version of the cluster rises with the first upgrade, while no machine is
\* half added.
LEMMA UpgradeBegins ==
  ASSUME SetupInv, NEW m \in Machines, NEW v \in cluster.version .. MaxVersion,
         BeginUpgrade(m, v)
  PROVE  SetupInv'
<1> DEFINE role == last[m].role
           n == Begun("upgrade", role, v)
<1>1. /\ cluster' = [cluster EXCEPT !.version = v]
      /\ Begin(m, "upgrade", role, v, Upgrade(distro, v))
  BY DEF BeginUpgrade
<1>2. v \in Nat /\ cluster.version <= v /\ v > 0
  BY SetupFields
<1>3. cluster' \in ClusterSpec /\ cluster'.version = v
  BY <1>1, <1>2, SetupFields DEF ClusterSpec
<1>4. role \in MachineRoles /\ "upgrade" \in Names /\ "upgrade" # "init"
  BY SetupFields DEF Record, Names
<1> HIDE DEF role
<1>5. n.name = "upgrade" /\ n.role = role /\ n.version = v /\ n.done = FALSE
  BY DEF Begun
<1>6. ASSUME NEW other \in Machines
      PROVE  Fits(distro, machine[other], v, last[other])
  <2>1. ~Adding(last[other])
    BY SetupFields DEF BeginUpgrade, Tried, Adding
  <2> QED BY <1>2, <2>1, SetupFields, LaterFits
<1> HIDE DEF n
<1>7. Fits(distro, machine[m], v, n)
  BY <1>2, <1>5, <1>6, SetupFields, BegunFits
<1>8. At(distro, machine[m], v, n, Upgrade(distro, v).scripts, 1)
  BY <1>5, SetupFields, UpgradeBegun
<1> QED BY <1>1, <1>2, <1>3, <1>4, <1>6, <1>7, <1>8, BeginSetup DEF n

\* The hold on the packages of a machine is lifted, while no operation goes on.
LEMMA PackagesUnheld ==
  ASSUME SetupInv, NEW m \in Machines, Unhold(m)
  PROVE  SetupInv'
<1> DEFINE x == [machine[m] EXCEPT !.held = FALSE]
<1>1. /\ machine' = [machine EXCEPT ![m] = x]
      /\ UNCHANGED <<distro, cluster, last, op>> /\ op = NoOperation
  BY DEF Unhold, Idle
<1>2. x \in Machine /\ Fits(distro, x, cluster.version, last[m])
  BY SetupFields, UnheldFits
<1> HIDE DEF x
<1>3. machine'[m] = x /\ \A other \in Machines \ {m} : machine'[other] = machine[other]
  BY <1>1, SetupFields
<1>4. machine' \in [Machines -> Machine]
  BY <1>1, <1>2, SetupFields
<1>5. SetupTyped'
  BY <1>1, <1>4 DEF SetupInv, SetupTyped
<1>6. MachinesFit'
  BY <1>1, <1>2, <1>3, SetupFields DEF MachinesFit
<1>7. OperationFits'
  BY <1>1 DEF OperationFits, NoOperation, Operation
<1> QED BY <1>5, <1>6, <1>7 DEF SetupInv

\* What OperationFits says of an operation that is going on.
LEMMA Going ==
  ASSUME SetupInv, op.written
  PROVE  /\ op.on \in Machines /\ op.written = TRUE
         /\ At(distro, machine[op.on], cluster.version, last[op.on], op.data.scripts, op.script)
<1>1. op # NoOperation
  BY DEF NoOperation, Operation
<1>2. OperationFits
  BY DEF SetupInv
<1> QED BY <1>1, <1>2 DEF OperationFits

LEMMA FilesWritten ==
  ASSUME SetupInv, WriteFiles
  PROVE  SetupInv'
<1>1. OperationFits
  BY DEF SetupInv
<1>2. /\ op.on \in Machines
      /\ At(distro, machine[op.on], cluster.version, last[op.on], op.data.scripts, op.script)
  BY <1>1 DEF OperationFits, WriteFiles
<1>3. UNCHANGED <<distro, machine, last, cluster>>
  BY DEF WriteFiles
<1>4. SetupTyped' /\ MachinesFit'
  BY <1>3 DEF SetupInv, SetupTyped, MachinesFit
<1>5. op' = [op EXCEPT !.written = TRUE]
  BY DEF WriteFiles
<1>6. op'.on = op.on /\ op'.data = op.data /\ op'.script = op.script /\ op'.written = TRUE
  BY <1>5
<1>7. OperationFits'
  BY <1>2, <1>3, <1>6 DEF OperationFits
<1> QED BY <1>4, <1>7 DEF SetupInv

\* The record of an operation after one of its scripts.
LEMMA HollowRecord ==
  ASSUME NEW l \in Record, NEW b \in BOOLEAN
  PROVE  LET y == [l EXCEPT !.hollow = l.hollow \/ b] IN
         /\ y \in Record /\ SameOperation(y, l)
         /\ l.hollow => y.hollow
         /\ b => y.hollow
<1> DEFINE h == l.hollow \/ b
           y == [l EXCEPT !.hollow = h]
<1>1. l.hollow \in BOOLEAN
  BY DEF Record
<1>2. h \in BOOLEAN /\ (l.hollow => h) /\ (b => h)
  BY <1>1
<1> HIDE DEF h
<1>3. y \in Record /\ y.hollow = h
  BY <1>2 DEF Record
<1>4. SameOperation(y, l)
  BY DEF Record, SameOperation
<1> QED BY <1>2, <1>3, <1>4 DEF h

LEMMA ScriptRuns ==
  ASSUME SetupInv, RunScript
  PROVE  SetupInv'
<1> DEFINE m == op.on
           scripts == op.data.scripts
<1>1. op.written /\ op.script <= Len(scripts) /\ Able(Command, machine[m], files[Place(m)])
  BY DEF RunScript, Running, CanRun
<1>2. /\ m \in Machines /\ op.written = TRUE
      /\ At(distro, machine[m], cluster.version, last[m], scripts, op.script)
  BY <1>1, Going
<1>3. PICK x \in After(Command, machine[m]) :
        /\ machine' = [machine EXCEPT ![m] = x]
        /\ last' = [last EXCEPT ![m].hollow = @ \/ x \notin Effects(Command, machine[m])]
  BY DEF RunScript
<1> DEFINE b == x \notin Effects(Command, machine[m])
           y == [last[m] EXCEPT !.hollow = last[m].hollow \/ b]
<1>4. b \in BOOLEAN /\ last' = [last EXCEPT ![m] = y]
  BY <1>3
<1>5. /\ y \in Record /\ SameOperation(y, last[m])
      /\ last[m].hollow => y.hollow
      /\ x \notin Effects(Command, machine[m]) => y.hollow
  <2>1. last[m] \in Record
    BY <1>2, SetupFields
  <2>2. b <=> x \notin Effects(Command, machine[m])
    OBVIOUS
  <2> HIDE DEF b, m
  <2> QED BY <1>4, <2>1, <2>2, HollowRecord
<1> HIDE DEF b, y
<1>6. /\ x \in Machine /\ Fits(distro, x, cluster.version, y)
      /\ At(distro, x, cluster.version, y, scripts, op.script + 1)
  <2>1. Command = scripts[op.script]
    BY DEF Command
  <2>2. machine[m] \in Machine /\ last[m] \in Record
        /\ Fits(distro, machine[m], cluster.version, last[m])
    BY <1>2, SetupFields
  <2> HIDE DEF m, scripts
  <2> QED BY <1>1, <1>2, <1>3, <1>5, <2>1, <2>2, SetupFields, ScriptFits
<1>7. /\ op' = [op EXCEPT !.script = op.script + 1]
      /\ UNCHANGED <<distro, cluster>>
  BY DEF RunScript
<1>8. op'.on = m /\ op'.data = op.data /\ op'.written = TRUE /\ op'.script = op.script + 1
  BY <1>2, <1>7
<1> HIDE DEF m, scripts
<1>9. /\ machine'[m] = x /\ \A other \in Machines \ {m} : machine'[other] = machine[other]
      /\ last'[m] = y /\ \A other \in Machines \ {m} : last'[other] = last[other]
  BY <1>2, <1>3, <1>4, SetupFields
<1>10. SetupTyped'
  <2>1. machine' \in [Machines -> Machine] /\ last' \in [Machines -> Record]
    BY <1>3, <1>4, <1>5, <1>6, SetupFields
  <2>2. \A other \in Machines : last'[other].name = "init" => last'[other].role = "control-plane"
    BY <1>2, <1>5, <1>9, SetupFields DEF SameOperation
  <2> QED BY <1>7, <2>1, <2>2 DEF SetupInv, SetupTyped
<1>11. MachinesFit'
  BY <1>6, <1>7, <1>9, SetupFields DEF MachinesFit
<1>12. OperationFits'
  BY <1>2, <1>6, <1>7, <1>8, <1>9 DEF OperationFits, scripts
<1> QED BY <1>10, <1>11, <1>12 DEF SetupInv

LEMMA ScriptFailsFits ==
  ASSUME SetupInv, ScriptFails
  PROVE  SetupInv'
<1> DEFINE m == op.on
           scripts == op.data.scripts
<1>1. op.written /\ op.script <= Len(scripts)
  BY DEF ScriptFails, Running
<1>2. m \in Machines /\ At(distro, machine[m], cluster.version, last[m], scripts, op.script)
  BY <1>1, Going
<1>3. UNCHANGED <<distro, last, cluster>> /\ op' = NoOperation
  BY DEF ScriptFails
<1>4. OperationFits'
  BY <1>3 DEF OperationFits, NoOperation, Operation
<1>5. CASE machine' = machine
  <2>1. SetupTyped' /\ MachinesFit'
    BY <1>3, <1>5 DEF SetupInv, SetupTyped, MachinesFit
  <2> QED BY <1>4, <2>1 DEF SetupInv
<1>6. ASSUME CanRun, NEW x \in AfterFailure(Command, machine[m]),
             machine' = [machine EXCEPT ![m] = x]
      PROVE  SetupInv'
  <2>1. machine[m] \in Machine /\ last[m] \in Record
        /\ Fits(distro, machine[m], cluster.version, last[m])
    BY <1>2, SetupFields
  <2>2. Able(Command, machine[m], files[Place(m)]) /\ Command = scripts[op.script]
    BY <1>6 DEF CanRun, Command
  <2>3. x \in Machine /\ Fits(distro, x, cluster.version, last[m])
    <3> HIDE DEF m, scripts
    <3> QED BY <1>1, <1>2, <1>6, <2>1, <2>2, SetupFields, FailureFits
  <2> HIDE DEF m, scripts
  <2>4. machine'[m] = x /\ \A other \in Machines \ {m} : machine'[other] = machine[other]
    BY <1>2, <1>6, SetupFields
  <2>5. machine' \in [Machines -> Machine]
    BY <1>6, <2>3, SetupFields
  <2>6. SetupTyped'
    BY <1>3, <2>5 DEF SetupInv, SetupTyped
  <2>7. MachinesFit'
    BY <1>3, <2>3, <2>4, SetupFields DEF MachinesFit
  <2> QED BY <1>4, <2>6, <2>7 DEF SetupInv
<1> QED BY <1>5, <1>6 DEF ScriptFails

LEMMA OperationDone ==
  ASSUME SetupInv, ScriptsDone
  PROVE  SetupInv'
<1> DEFINE m == op.on
           scripts == op.data.scripts
           l == [last[m] EXCEPT !.done = TRUE]
<1>1. op.written /\ ~(op.script <= Len(scripts))
  BY DEF ScriptsDone, Running
<1>2. m \in Machines /\ At(distro, machine[m], cluster.version, last[m], scripts, op.script)
  BY <1>1, Going
<1>3. /\ UNCHANGED <<distro, machine, cluster>> /\ op' = NoOperation
      /\ last' = [last EXCEPT ![m] = l]
  BY DEF ScriptsDone
<1>4. OperationFits'
  BY <1>3 DEF OperationFits, NoOperation, Operation
<1>5. last[m] \in Record /\ machine[m] \in Machine
      /\ Fits(distro, machine[m], cluster.version, last[m])
  BY <1>2, SetupFields
<1>6. l \in Record /\ l.name = last[m].name /\ l.role = last[m].role
  BY <1>5 DEF Record
<1>7. Fits(distro, machine[m], cluster.version, l)
  <2> HIDE DEF m, scripts
  <2> QED BY <1>1, <1>2, <1>5, SetupFields, ScriptsDoneFits
<1> HIDE DEF m, scripts, l
<1>8. last'[m] = l /\ \A other \in Machines \ {m} : last'[other] = last[other]
  BY <1>2, <1>3, SetupFields
<1>9. SetupTyped'
  <2>1. last' \in [Machines -> Record]
    BY <1>3, <1>6, SetupFields
  <2>2. \A other \in Machines : last'[other].name = "init" => last'[other].role = "control-plane"
    BY <1>2, <1>6, <1>8, SetupFields
  <2> QED BY <1>3, <2>1, <2>2 DEF SetupInv, SetupTyped
<1>10. MachinesFit'
  BY <1>3, <1>7, <1>8, SetupFields DEF MachinesFit
<1> QED BY <1>4, <1>9, <1>10 DEF SetupInv

\* Steps that leave the machines and the operation alone.
LEMMA SetupStays ==
  ASSUME SetupInv, UNCHANGED <<distro, cluster, machine, last, op>>
  PROVE  SetupInv'
BY DEF SetupInv, SetupTyped, MachinesFit, OperationFits

LEMMA SetupNext ==
  ASSUME SetupInv, [Next]_vars
  PROVE  SetupInv'
<1>1. CASE \E m \in Machines :
             \/ BeginInit(m)
             \/ \E role \in MachineRoles : BeginJoin(m, role) \/ BeginUninstall(m, role)
             \/ \E v \in cluster.version .. MaxVersion : BeginUpgrade(m, v)
             \/ Unhold(m)
  BY <1>1, InitBegins, JoinBegins, UninstallBegins, UpgradeBegins, PackagesUnheld
<1>2. CASE WriteFiles \/ RunScript \/ ScriptFails \/ ScriptsDone
  BY <1>2, FilesWritten, ScriptRuns, ScriptFailsFits, OperationDone
<1>3. ASSUME NEW timeout \in Timeouts, WaitForAPI(timeout)
      PROVE  SetupInv'
  BY <1>3, SetupStays DEF WaitForAPI, nodes
<1>4. ASSUME NEW timeout \in Timeouts, NEW n \in 1 .. Cardinality(Machines),
             WaitForNodes(n, timeout)
      PROVE  SetupInv'
  BY <1>4, SetupStays DEF WaitForNodes, nodes
<1>5. CASE Waiting
  BY <1>5, SetupStays DEF Waiting, nodes
<1>6. CASE Cancel
  BY <1>6, SetupStays DEF Cancel, nodes
<1>7. CASE UNCHANGED vars
  BY <1>7, SetupStays DEF vars, nodes
<1> QED BY <1>1, <1>2, <1>3, <1>4, <1>5, <1>6, <1>7 DEF Next

LEMMA SetupInit ==
  ASSUME Init
  PROVE  SetupInv
<1>1. distro \in Distros
  BY NodeSetupAssumption DEF Init
<1>2. cluster \in ClusterSpec /\ cluster.version = 1
  BY DEF Init, ClusterSpec
<1> DEFINE t == IF distro = "talos" THEN 1 ELSE 0
           is == [Blank EXCEPT !.tool = t]
           l == [name |-> "uninstall", role |-> "control-plane", version |-> 1,
                 done |-> TRUE, hollow |-> FALSE]
<1>3. /\ is \in Machine /\ Gone(is) /\ is.tool = t /\ is.api = 0 /\ is.kubelet = 0
      /\ is.up = FALSE /\ is.role = "none" /\ is.node = FALSE
      /\ is.held = FALSE /\ is.own = FALSE
  <2>1. Blank \in Machine /\ t \in Nat
    BY DEF Machine, Blank
  <2> HIDE DEF t
  <2>2. /\ Blank.api = 0 /\ Blank.kubelet = 0 /\ Blank.role = "none" /\ Blank.node = FALSE
        /\ Blank.up = FALSE /\ Blank.held = FALSE /\ Blank.own = FALSE
    BY DEF Blank
  <2>3. /\ is \in Machine
        /\ is.tool = t /\ is.api = 0 /\ is.kubelet = 0 /\ is.role = "none" /\ is.node = FALSE
        /\ is.up = FALSE /\ is.held = FALSE /\ is.own = FALSE
    BY <2>1, <2>2 DEF Machine
  <2> QED BY <2>3 DEF Gone
<1>4. machine = [m \in Machines |-> is] /\ last = [m \in Machines |-> l]
  BY DEF Init
<1>5. l.name = "uninstall" /\ l.done = TRUE /\ l \in Record
  BY DEF Record, Names, MachineRoles
<1>6. t \in Nat /\ (distro = "talos" => t = 1) /\ (distro # "talos" => t = 0)
  OBVIOUS
<1> HIDE DEF is, l, t
<1>7. ~Adding(l) /\ ~Promised(l) /\ TakenOut(l) /\ l.name # "init"
  BY <1>5 DEF Adding, Promised, TakenOut
<1>8. Fits(distro, is, cluster.version, l)
  <2>1. CASE distro = "k3s"
    BY <1>3, <1>6, <1>7, <2>1 DEF Fits, K3sFits
  <2>2. CASE distro = "k0s"
    BY <1>2, <1>3, <1>6, <1>7, <2>2 DEF Fits, K0sFits
  <2>3. CASE distro = "kubeadm"
    BY <1>2, <1>3, <1>6, <1>7, <2>3 DEF Fits, KubeadmFits
  <2>4. CASE distro = "talos"
    BY <1>3, <1>6, <1>7, <2>4 DEF Fits, TalosFits
  <2> QED BY <1>1, <2>1, <2>2, <2>3, <2>4 DEF Distros
<1>9. SetupTyped
  <2>1. machine \in [Machines -> Machine] /\ last \in [Machines -> Record]
    BY <1>3, <1>4, <1>5
  <2>2. \A m \in Machines : last[m].name = "init" => last[m].role = "control-plane"
    BY <1>4, <1>7
  <2> QED BY <1>1, <1>2, <2>1, <2>2 DEF SetupTyped, ClusterSpec
<1>10. MachinesFit
  BY <1>4, <1>8 DEF MachinesFit
<1>11. OperationFits
  BY DEF Init, OperationFits
<1> QED BY <1>9, <1>10, <1>11 DEF SetupInv

\* What a machine is between operations and how far the operation on one is, for
\* any machines, versions, operations and failures, and also where scripts exit
\* with 0 and do nothing.
THEOREM SetupInvariant == Spec => []SetupInv
<1>1. Init => SetupInv
  BY SetupInit
<1>2. SetupInv /\ [Next]_vars => SetupInv'
  BY SetupNext
<1> QED BY <1>1, <1>2, PTL DEF Spec

\* A machine whose services run has its tool, a role, and no part newer than
\* the one it depends on, also where scripts failed half way and were run again,
\* or exited with 0 and did nothing.
THEOREM MachinesRunWhole == Spec => []RunsWhole
<1>1. SetupInv => RunsWhole
  <2> SUFFICES ASSUME SetupInv, NEW m \in Machines
               PROVE  /\ PartsFit(machine[m])
                      /\ machine[m].up => machine[m].role # "none" /\ machine[m].tool > 0
                      /\ machine[m].own => machine[m].tool > 0
    BY DEF RunsWhole
  <2> DEFINE is == machine[m]
  <2>1. distro \in Distros /\ is \in Machine /\ Fits(distro, is, cluster.version, last[m])
    BY SetupFields
  <2> HIDE DEF is
  <2>2. is.tool \in Nat /\ is.api \in Nat /\ is.kubelet \in Nat
    BY <2>1, MachineFields
  <2> SUFFICES /\ PartsFit(is)
               /\ is.up => is.role # "none" /\ is.tool > 0
               /\ is.own => is.tool > 0
    BY DEF is
  <2>3. CASE distro = "k3s"
    <3>1. K3sFits(is, cluster.version, last[m])
      BY <2>1, <2>3 DEF Fits
    <3>2. CASE Gone(is)
      <4>1. is.own => is.tool > 0
        BY <3>1, <3>2 DEF K3sFits, Gone, Serves
      <4> QED BY <2>2, <3>2, <4>1 DEF Gone, PartsFit
    <3>3. CASE Serves(is)
      <4>1. is.role = "control-plane" => is.kubelet = is.tool
        BY <3>1, <3>3 DEF K3sFits, Gone, Serves, MachineRoles
      <4> QED BY <2>2, <3>3, <4>1 DEF Serves, OfRole, PartsFit, MachineRoles
    <3> QED BY <3>1, <3>2, <3>3 DEF K3sFits
  <2>4. CASE distro = "k0s"
    <3>1. /\ is.api <= is.tool /\ is.own = FALSE
          /\ is.up => /\ is.role \in MachineRoles /\ is.tool > 0
                      /\ is.role = "control-plane" => is.kubelet <= is.api
      BY <2>1, <2>4 DEF Fits, K0sFits
    <3> QED BY <2>2, <3>1 DEF PartsFit, MachineRoles
  <2>5. CASE distro = "kubeadm"
    <3>1. /\ is.api <= is.tool /\ is.own = FALSE
          /\ is.up => is.role \in MachineRoles /\ is.tool > 0
          /\ is.role = "control-plane" => is.kubelet <= is.api
      BY <2>1, <2>5 DEF Fits, KubeadmFits
    <3> QED BY <2>2, <3>1 DEF PartsFit, MachineRoles
  <2>6. CASE distro = "talos"
    <3>1. (Gone(is) \/ Runs(is)) /\ is.own = FALSE
      BY <2>1, <2>6 DEF Fits, TalosFits
    <3>2. CASE Gone(is)
      BY <2>2, <3>1, <3>2 DEF Gone, PartsFit
    <3>3. CASE Runs(is)
      BY <2>2, <3>1, <3>3 DEF Runs, Serves, OfRole, PartsFit, MachineRoles
    <3> QED BY <3>1, <3>2, <3>3
  <2> QED BY <2>1, <2>3, <2>4, <2>5, <2>6 DEF Distros
<1> QED BY <1>1, SetupInvariant, PTL

\* What an operation whose scripts had their effects was for holds until the
\* next one on that machine, and an uninstall that returned without an error has
\* taken the machine out.
THEOREM OperationsKeepPromises == Spec => []PromisesKept
<1>1. SetupInv => PromisesKept
  <2> SUFFICES ASSUME SetupInv, NEW m \in Machines
               PROVE  /\ Member(m) /\ ~last[m].hollow =>
                           /\ last[m].name # "upgrade" => machine[m].role = last[m].role
                           /\ machine[m].role # "none" => RunsAsAsked(machine[m], last[m])
                      /\ Done(m, "uninstall") => IsRemoved(machine[m], last[m])
    BY DEF PromisesKept
  <2> DEFINE is == machine[m]
             l == last[m]
             v == cluster.version
  <2>1. distro \in Distros /\ is \in Machine /\ l \in Record /\ Fits(distro, is, v, l)
    BY SetupFields
  <2>2. ASSUME Member(m), ~l.hollow
        PROVE  /\ l.name # "upgrade" => is.role = l.role
               /\ is.role # "none" => RunsAsAsked(is, l)
    <3>1. Promised(l)
      BY <2>2 DEF Member, Done, Promised
    <3> HIDE DEF is, l, v
    <3>2. CASE distro = "k3s"
      <4>1. Asked(is, l) /\ K3sFits(is, v, l)
        BY <2>1, <2>2, <3>1, <3>2 DEF Fits, K3sFits
      <4>2. is.role # "none" =>
              Serves(is) /\ is.node = TRUE /\ (is.own \/ is.kubelet = is.tool)
        BY <4>1 DEF K3sFits, Gone
      <4> QED BY <4>1, <4>2 DEF Asked, Serves, OfRole, RunsAsAsked
    <3>3. CASE distro = "k0s"
      <4>1. Asked(is, l) /\ K0sRuns(is)
        BY <2>1, <2>2, <3>1, <3>3 DEF Fits, K0sFits
      <4> QED BY <4>1 DEF Asked, K0sRuns, OfRole, RunsAsAsked
    <3>4. CASE distro = "kubeadm"
      <4>1. Asked(is, l) /\ Runs(is)
        BY <2>1, <3>1, <3>4 DEF Fits, KubeadmFits
      <4> QED BY <4>1 DEF Asked, Runs, Serves, OfRole, RunsAsAsked
    <3>5. CASE distro = "talos"
      <4>1. /\ Runs(is)
            /\ l.name # "upgrade" => is.role = l.role
            /\ l.name = "upgrade" => is.tool = l.version
        BY <2>1, <3>1, <3>5 DEF Fits, TalosFits
      <4> QED BY <3>5, <4>1 DEF Runs, Serves, OfRole, RunsAsAsked
    <3> QED BY <2>1, <3>2, <3>3, <3>4, <3>5 DEF Distros
  <2>3. ASSUME Done(m, "uninstall")
        PROVE  IsRemoved(is, l)
    <3>1. TakenOut(l)
      BY <2>3 DEF Done, TakenOut
    <3> HIDE DEF is, l, v
    <3>2. Gone(is)
      BY <2>1, <3>1 DEF Fits, K3sFits, K0sFits, KubeadmFits, TalosFits, Distros
    <3>3. is.held \in BOOLEAN /\ is.tool \in Nat
      BY <2>1, MachineFields
    <3>4. /\ is.held = FALSE
          /\ is.tool > 0 => distro \in {"k0s", "talos"} \/ is.own
          /\ is.own => distro = "k3s" /\ l.role = "worker"
      <4>1. CASE distro = "k3s"
        BY <2>1, <3>1, <3>2, <4>1 DEF Fits, K3sFits, Serves, Gone
      <4>2. CASE distro = "k0s"
        BY <2>1, <4>2 DEF Fits, K0sFits
      <4>3. CASE distro = "kubeadm"
        <5>1. is.tool = 0 /\ is.own = FALSE /\ (is.held => is.tool > 0)
          BY <2>1, <3>1, <4>3 DEF Fits, KubeadmFits
        <5> QED BY <3>3, <5>1
      <4>4. CASE distro = "talos"
        BY <2>1, <4>4 DEF Fits, TalosFits
      <4> QED BY <2>1, <4>1, <4>2, <4>3, <4>4 DEF Distros
    <3>5. is = [Blank EXCEPT !.tool = is.tool, !.own = is.own]
      BY <2>1, <3>2, <3>4, GoneIsUnset
    <3> QED BY <3>4, <3>5 DEF IsRemoved
  <2> QED BY <2>2, <2>3
<1> QED BY <1>1, SetupInvariant, PTL

-----------------------------------------------------------------------------
(* The waits.                                                              *)

\* No wait is going on: the clock and the timers are at their start.
AtRest ==
  /\ waitAt = "call"
  /\ clock = 0 /\ deadline = 0 /\ wake = 0 /\ began = 0
  /\ backoff = Start /\ due = Interval
  /\ ~tick

\* WaitForAPI: a pause begins before the deadline has passed, and is shorter
\* than twice the limit; an attempt begins where a pause ends.
ApiTimes ==
  /\ began < deadline + 2 * Limit
  /\ waitAt = "call" => clock <= began + CallTime
  /\ waitAt = "select" => wake < deadline + 2 * Limit /\ clock <= wake

\* WaitForNodes, in a call, none having been slow: one that began late is the
\* first of its kind, and no tick comes while it lasts.
NodesCallTimes ==
  /\ 2 * clock <= 2 * began + Interval
  /\ \/ began <= deadline /\ (tick => due > began + Interval)
     \/ 2 * began <= 2 * deadline + Interval /\ 2 * due > 2 * began + Interval /\ ~tick

\* WaitForNodes, in its select, no call having been slow.
NodesSelectTimes ==
  /\ clock <= deadline + Interval
  /\ tick /\ clock > deadline =>
       2 * clock <= 2 * deadline + Interval /\ 2 * due > 2 * clock + Interval

\* However slow the calls are, time passes in the select only until the tick
\* after the last call.
NodesTimes ==
  /\ clock < due /\ due <= clock + Interval
  /\ waitAt = "call" => clock <= began + CallTime
  /\ waitAt = "select" => /\ clock <= began + CallTime + Interval
                          /\ tick \/ due <= began + CallTime + Interval
  /\ ~slow => /\ waitAt = "call" => NodesCallTimes
              /\ waitAt = "select" => NodesSelectTimes

TimesFit ==
  /\ wait \in WaitKinds \cup {"none"}
  /\ waitAt \in {"call", "select"}
  /\ clock \in Nat /\ deadline \in Nat /\ wake \in Nat /\ due \in Nat /\ began \in Nat
  /\ backoff \in Nat
  /\ backoff < 2 * Limit /\ began <= clock
  /\ wait = "none" => AtRest
  /\ wait # "none" => answer = "none" /\ deadline \in Timeouts
  /\ wait = "api"   => ApiTimes
  /\ wait = "nodes" => NodesTimes

\* The constants, as the steps below use them.
LEMMA Constants ==
  /\ Start \in Nat /\ Start < 2 * Limit /\ Limit \in Nat /\ Limit > 0
  /\ CallTime \in Nat /\ Interval \in Nat /\ Interval > 0 /\ Horizon \in Nat
  /\ \A t \in Timeouts : t \in Nat /\ t + 2 * Interval < Horizon
BY WaitsAssumption

\* A wait that returns leaves the clock and the timers at rest.
LEMMA ReturnRests ==
  ASSUME NEW a, Return(a)
  PROVE  TimesFit'
<1>1. wait' = "none" /\ AtRest'
  BY DEF Return, Reset, AtRest
<1> QED
  BY <1>1, Constants DEF TimesFit, AtRest, WaitKinds

\* The beginning of a wait.
LEMMA BeginFits ==
  ASSUME TimesFit, NEW kind \in WaitKinds, NEW timeout \in Timeouts, NEW now,
         BeginWait(kind, timeout, now)
  PROVE  TimesFit'
<1>1. AtRest
  BY DEF BeginWait, TimesFit
<1>2. timeout \in Nat
  BY Constants
<1>3. /\ wait' = kind /\ deadline' = timeout /\ waitAt' = "call"
      /\ clock' = 0 /\ began' = 0 /\ wake' = 0
      /\ backoff' = Start /\ due' = Interval /\ ~tick' /\ answer' = "none"
  BY <1>1 DEF BeginWait, AtRest, ticker
<1>4. CASE kind = "api"
  BY <1>2, <1>3, <1>4, Constants DEF TimesFit, ApiTimes, WaitKinds
<1>5. CASE kind = "nodes"
  <2>1. NodesTimes'
    BY <1>2, <1>3, Constants DEF NodesTimes, NodesCallTimes
  <2> QED
    BY <1>2, <1>3, <1>5, <2>1, Constants DEF TimesFit, WaitKinds
<1> QED
  BY <1>4, <1>5 DEF WaitKinds

\* An attempt of WaitForAPI that failed, and the end of a pause.
LEMMA ApiNotYetFits ==
  ASSUME TimesFit, ApiNotYet
  PROVE  TimesFit'
<1>1. CASE clock > deadline
  <2>1. Return("timeout")
    BY <1>1 DEF ApiNotYet
  <2> QED
    BY <2>1, ReturnRests
<1>2. CASE ~(clock > deadline)
  <2>1. /\ wait = "api" /\ wait' = "api" /\ waitAt' = "select" /\ wake' = clock + backoff
        /\ UNCHANGED <<clock, deadline, backoff, began, due, tick, answer>>
    BY <1>2 DEF ApiNotYet, ticker
  <2> QED
    BY <1>2, <2>1, Constants DEF TimesFit, ApiTimes, WaitKinds
<1> QED
  BY <1>1, <1>2

LEMMA PauseEndsFits ==
  ASSUME TimesFit, NEW now, PauseEnds(now)
  PROVE  TimesFit'
<1>1. /\ wait = "api" /\ waitAt = "select" /\ clock = wake
      /\ backoff' = IF backoff < Limit THEN 2 * backoff ELSE backoff
      /\ waitAt' = "call" /\ began' = clock
      /\ UNCHANGED <<wait, clock, deadline, wake, due, tick, answer>>
  BY DEF PauseEnds, ticker
<1>2. backoff' \in Nat /\ backoff' < 2 * Limit
  BY <1>1, Constants DEF TimesFit
<1> QED
  BY <1>1, <1>2, Constants DEF TimesFit, ApiTimes, WaitKinds

\* WaitForNodes goes on to its select.
LEMMA NodesNotYetFits ==
  ASSUME TimesFit, NodesNotYet
  PROVE  TimesFit'
<1>1. /\ wait = "nodes" /\ waitAt = "call" /\ waitAt' = "select"
      /\ UNCHANGED <<wait, clock, deadline, backoff, wake, due, tick, began, slow, answer>>
  BY DEF NodesNotYet, CallDisappoints, timing, ticker
<1>2. NodesTimes /\ clock \in Nat /\ deadline \in Nat /\ due \in Nat /\ began \in Nat
  BY <1>1 DEF TimesFit
<1>3. NodesCallTimes => NodesSelectTimes'
  BY <1>1, <1>2, Constants DEF NodesCallTimes, NodesSelectTimes
<1>4. NodesTimes'
  BY <1>1, <1>2, <1>3, Constants DEF NodesTimes
<1> QED
  BY <1>1, <1>4 DEF TimesFit, WaitKinds

\* A tick is received, perhaps after the deadline.
LEMMA TickReceivedFits ==
  ASSUME TimesFit, NEW now, TickReceived(now)
  PROVE  TimesFit'
<1>1. /\ wait = "nodes" /\ waitAt = "select" /\ tick /\ ~tick'
      /\ waitAt' = "call" /\ began' = clock
      /\ UNCHANGED <<wait, clock, deadline, backoff, wake, due, slow, answer>>
  BY DEF TickReceived, TimesFit
<1>2. NodesTimes /\ clock \in Nat /\ deadline \in Nat /\ due \in Nat
  BY <1>1 DEF TimesFit
<1>3. NodesSelectTimes => NodesCallTimes'
  BY <1>1, <1>2, Constants DEF NodesCallTimes, NodesSelectTimes
<1>4. NodesTimes'
  BY <1>1, <1>2, <1>3, Constants DEF NodesTimes
<1> QED
  BY <1>1, <1>4 DEF TimesFit, WaitKinds

\* Time passes.
LEMMA TimePassesFits ==
  ASSUME TimesFit, TimePasses
  PROVE  TimesFit'
<1>1. /\ wait # "none" /\ clock' = clock + 1
      /\ UNCHANGED <<wait, waitAt, deadline, backoff, wake, began, answer>>
  BY DEF TimePasses
<1>2. \/ waitAt = "call" /\ clock < began + CallTime
      \/ wait = "api" /\ waitAt = "select" /\ clock < wake
      \/ wait = "nodes" /\ waitAt = "select" /\ clock < deadline /\ ~tick
  BY DEF TimePasses
<1>3. CASE wait = "api"
  <2>1. UNCHANGED <<due, tick>>
    BY <1>3 DEF TimePasses, ticker
  <2> QED
    BY <1>1, <1>2, <1>3, <2>1, Constants DEF TimesFit, ApiTimes, WaitKinds
<1>4. CASE wait = "nodes"
  <2>1. \/ clock' = due /\ tick' /\ due' = due + Interval
        \/ clock' # due /\ tick' = tick /\ due' = due
    BY <1>4 DEF TimePasses, ticker
  <2>2. /\ NodesTimes /\ clock \in Nat /\ deadline \in Nat /\ due \in Nat /\ began \in Nat
        /\ began <= clock
    BY <1>4 DEF TimesFit
  <2>3. clock' < due' /\ due' <= clock' + Interval /\ due' \in Nat
    BY <1>1, <2>1, <2>2, Constants DEF NodesTimes
  <2>4. ~slow' => ~slow /\ (waitAt = "call" => ~(2 * (clock' - began) > Interval))
    BY <1>4 DEF TimePasses
  <2>5. CASE waitAt = "call"
    <3>1. clock < began + CallTime
      BY <1>2, <1>4, <2>5
    <3>2. ASSUME ~slow' PROVE NodesCallTimes'
      <4>1. NodesCallTimes
        BY <2>2, <2>4, <2>5, <3>2 DEF NodesTimes
      <4>2. ~(2 * (clock' - began) > Interval)
        BY <2>4, <2>5, <3>2
      <4>3. 2 * clock' <= 2 * began + Interval
        BY <1>1, <2>2, <4>2, Constants
      <4> QED
        BY <1>1, <2>1, <2>2, <4>1, <4>3, Constants DEF NodesTimes, NodesCallTimes
    <3>3. NodesTimes'
      BY <1>1, <2>2, <2>3, <2>5, <3>1, <3>2, Constants DEF NodesTimes
    <3> QED
      BY <1>1, <1>4, <2>2, <2>3, <3>3 DEF TimesFit, WaitKinds
  <2>6. CASE waitAt = "select"
    <3>1. clock < deadline /\ ~tick
      BY <1>2, <1>4, <2>6
    <3>2. NodesSelectTimes'
      BY <1>1, <2>2, <3>1, Constants DEF NodesSelectTimes
    <3>3. clock' <= began + CallTime + Interval /\ (tick' \/ due' <= began + CallTime + Interval)
      BY <1>1, <2>1, <2>2, <2>6, <3>1, Constants DEF NodesTimes
    <3>4. NodesTimes'
      BY <1>1, <2>3, <2>6, <3>2, <3>3 DEF NodesTimes
    <3> QED
      BY <1>1, <1>4, <2>2, <2>3, <3>4 DEF TimesFit, WaitKinds
  <2> QED
    BY <2>5, <2>6 DEF TimesFit
<1> QED
  BY <1>1, <1>3, <1>4 DEF TimesFit, WaitKinds

\* Where the clock has stopped a call has been slow.
LEMMA TickerGoesOnFits ==
  ASSUME TimesFit, TickerGoesOn
  PROVE  TimesFit'
<1>1. /\ wait = "nodes" /\ waitAt = "call" /\ clock = Horizon /\ tick'
      /\ UNCHANGED <<wait, waitAt, clock, deadline, backoff, wake, due, began, slow, answer>>
  BY DEF TickerGoesOn
<1>2. /\ NodesTimes /\ deadline \in Timeouts
      /\ clock \in Nat /\ deadline \in Nat /\ due \in Nat /\ began \in Nat
  BY <1>1 DEF TimesFit
<1>3. deadline + 2 * Interval < clock
  BY <1>1, <1>2, Constants
<1>4. ~NodesCallTimes
  BY <1>2, <1>3, Constants DEF NodesCallTimes
<1>5. NodesTimes'
  BY <1>1, <1>2, <1>4 DEF NodesTimes
<1> QED
  BY <1>1, <1>5 DEF TimesFit, WaitKinds

\* A step that changes nothing of the times.
LEMMA QuietFits ==
  ASSUME TimesFit,
         UNCHANGED <<wait, waitAt, clock, deadline, backoff, wake, due, tick, began, slow>>,
         answer' = answer \/ wait = "none"
  PROVE  TimesFit'
BY DEF TimesFit, AtRest, ApiTimes, NodesTimes, NodesCallTimes, NodesSelectTimes

\* The steps of a wait that is going on.
LEMMA WaitStepFits ==
  ASSUME TimesFit, NEW apiNow, NEW nodesNow, WaitStep(apiNow, nodesNow)
  PROVE  TimesFit'
<1>1. CASE CallSucceeds
  BY <1>1, ReturnRests DEF CallSucceeds
<1>2. CASE DeadlineReceived
  BY <1>2, ReturnRests DEF DeadlineReceived
<1>3. CASE DoneReceived
  BY <1>3, ReturnRests DEF DoneReceived
<1> QED
  BY <1>1, <1>2, <1>3, ApiNotYetFits, PauseEndsFits, NodesNotYetFits, TickReceivedFits,
     TimePassesFits, TickerGoesOnFits DEF WaitStep

\* The operations on machines and the runner leave the waits alone.
LEMMA SetupLeavesWaits ==
  ASSUME NEW m \in Machines,
         \/ BeginInit(m)
         \/ \E role \in MachineRoles : BeginJoin(m, role) \/ BeginUninstall(m, role)
         \/ \E v \in cluster.version .. MaxVersion : BeginUpgrade(m, v)
         \/ Unhold(m)
  PROVE  UNCHANGED waits
BY DEF BeginInit, BeginJoin, BeginUninstall, BeginUpgrade, Begin, Unhold

LEMMA RunnerLeavesWaits ==
  ASSUME WriteFiles \/ RunScript \/ ScriptFails \/ ScriptsDone
  PROVE  UNCHANGED waits
BY DEF WriteFiles, RunScript, ScriptFails, ScriptsDone

\* Every step of NodeSetup keeps the times fitting.
LEMMA NextFits ==
  ASSUME TimesFit, [Next]_vars
  PROVE  TimesFit'
<1>1. CASE UNCHANGED waits
  BY <1>1, QuietFits DEF waits, timing, ticker
<1>2. ASSUME NEW timeout \in Timeouts, WaitForAPI(timeout)
      PROVE  TimesFit'
  <2>1. PICK now \in ApiAnswers : BeginWait("api", timeout, now)
    BY <1>2 DEF WaitForAPI
  <2> QED
    BY <2>1, BeginFits DEF WaitKinds
<1>3. ASSUME NEW timeout \in Timeouts, NEW n, WaitForNodes(n, timeout)
      PROVE  TimesFit'
  <2>1. CASE NoClient
    BY <2>1, QuietFits DEF NoClient, timing, ticker
  <2>2. CASE \E now \in EnoughReady(n) : BeginWait("nodes", timeout, now)
    BY <2>2, BeginFits DEF WaitKinds
  <2> QED
    BY <1>3, <2>1, <2>2 DEF WaitForNodes
<1>4. CASE Waiting
  BY <1>4, WaitStepFits DEF Waiting
<1>5. CASE Cancel
  BY <1>5, QuietFits DEF Cancel, CancelWait, timing, ticker
<1>6. CASE UNCHANGED vars
  BY <1>1, <1>6 DEF vars
<1> QED
  BY <1>1, <1>2, <1>3, <1>4, <1>5, <1>6, SetupLeavesWaits, RunnerLeavesWaits DEF Next

LEMMA TimesAlwaysFit == Spec => []TimesFit
<1>1. Init => TimesFit
  <2> SUFFICES ASSUME Init PROVE TimesFit
    OBVIOUS
  <2>1. wait = "none" /\ AtRest
    BY DEF Init, WaitsInit, AtRest
  <2> QED
    BY <2>1, Constants DEF TimesFit, AtRest, WaitKinds
<1>2. TimesFit /\ [Next]_vars => TimesFit'
  BY NextFits
<1> QED
  BY <1>1, <1>2, PTL DEF Spec

\* A wait of the control-plane provider ends: WaitForAPI at most one pause and
\* one call after its deadline, WaitForNodes one interval after it if none of its
\* calls takes more than half of one.
THEOREM WaitsEnd == Spec => []WaitsEndInTime
<1>1. ASSUME TimesFit, wait = "api"
      PROVE  clock < deadline + 2 * Limit + CallTime
  BY <1>1, Constants DEF TimesFit, ApiTimes
<1>2. ASSUME TimesFit, wait = "nodes", ~slow
      PROVE  clock <= deadline + Interval
  BY <1>2, Constants DEF TimesFit, NodesTimes, NodesCallTimes, NodesSelectTimes
<1>3. TimesFit => WaitsEndInTime
  BY <1>1, <1>2 DEF WaitsEndInTime
<1> QED
  BY <1>3, TimesAlwaysFit, PTL

\* A wait that times out has looked for what it waits for until its deadline, or
\* no longer before than a call and a tick take.
THEOREM NoWaitGivesUpEarly == Spec => LooksUntilDeadline
<1> DEFINE Looked ==
      \/ done
      \/ began + CallTime + (IF wait = "nodes" THEN Interval ELSE 0) >= deadline
<1>1. ASSUME TimesFit, ApiNotYet, answer' = "timeout", wait # "none"
      PROVE  Looked
  <2>1. wait = "api" /\ waitAt = "call"
    BY <1>1 DEF ApiNotYet, CallDisappoints
  <2>2. clock > deadline
    BY <1>1 DEF ApiNotYet, TimesFit
  <2>3. clock <= began + CallTime
    BY <1>1, <2>1 DEF TimesFit, ApiTimes
  <2> QED
    BY <1>1, <2>1, <2>2, <2>3, Constants DEF TimesFit
<1>2. ASSUME TimesFit, DeadlineReceived
      PROVE  Looked
  <2>1. wait = "nodes" /\ clock >= deadline
        /\ clock <= began + CallTime + Interval
    BY <1>2 DEF DeadlineReceived, TimesFit, NodesTimes
  <2> QED
    BY <1>2, <2>1, Constants DEF TimesFit
<1>3. ASSUME TimesFit, NEW apiNow, NEW nodesNow, WaitStep(apiNow, nodesNow),
             answer' = "timeout", wait # "none"
      PROVE  ApiNotYet \/ DeadlineReceived
  <2>1. ~CallSucceeds /\ ~DoneReceived
    BY <1>3 DEF CallSucceeds, DoneReceived, Return
  <2>2. answer = "none"
    BY <1>3 DEF TimesFit
  <2>3. /\ ~PauseEnds(apiNow) /\ ~NodesNotYet /\ ~TickReceived(nodesNow)
        /\ ~TimePasses /\ ~TickerGoesOn
    BY <1>3, <2>2 DEF PauseEnds, NodesNotYet, TickReceived, TimePasses, TickerGoesOn
  <2> QED
    BY <1>3, <2>1, <2>3 DEF WaitStep
<1>4. ASSUME TimesFit, Next, answer' = "timeout", wait # "none"
      PROVE  Waiting
  <2>1. answer = "none"
    BY <1>4 DEF TimesFit
  <2>2. ~UNCHANGED waits
    BY <1>4, <2>1 DEF waits
  <2>3. ~Cancel
    BY <1>4, <2>1 DEF Cancel, CancelWait
  <2>4. \A timeout \in Timeouts : ~WaitForAPI(timeout)
    BY <1>4 DEF WaitForAPI, BeginWait
  <2>5. \A timeout \in Timeouts : \A n : ~WaitForNodes(n, timeout)
    BY <1>4 DEF WaitForNodes, BeginWait, NoClient
  <2> QED
    BY <1>4, <2>2, <2>3, <2>4, <2>5, SetupLeavesWaits, RunnerLeavesWaits DEF Next
<1>5. TimesFit /\ [Next]_vars => [answer' = "timeout" /\ wait # "none" => Looked]_waits
  <2> SUFFICES ASSUME TimesFit, [Next]_vars, ~UNCHANGED waits, answer' = "timeout", wait # "none"
               PROVE  Looked
    OBVIOUS
  <2>1. Next
    BY DEF vars
  <2>2. PICK apiNow \in ApiAnswers, nodesNow \in EnoughReady(expected) :
          WaitStep(apiNow, nodesNow)
    BY <2>1, <1>4 DEF Waiting
  <2> QED
    BY <2>2, <1>1, <1>2, <1>3
<1> QED
  BY <1>5, TimesAlwaysFit, PTL DEF Spec, LooksUntilDeadline
=============================================================================

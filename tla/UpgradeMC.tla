------------------------------ MODULE UpgradeMC ------------------------------
(* RollingUpgrade with the values of its constants for TLC.                 *)
EXTENDS RollingUpgrade

CONSTANTS c1, c2, w1, plain, daemon, mirror

\* A worker is listed first, so that the order of the upgrade is not the
\* caller's.
ThreeMachines == <<w1, c1, c2>>
RoleOf(machines) ==
  [m \in {machines[j] : j \in DOMAIN machines} |->
     IF m \in {c1, c2} THEN "control-plane" ELSE "worker"]
ThreeRoles == RoleOf(ThreeMachines)

\* Strict, and as lenient as it gets.
TwoOptions == {[ignoreDaemonSets |-> TRUE, force |-> FALSE],
               [ignoreDaemonSets |-> FALSE, force |-> TRUE]}

SomePods == {plain, daemon, mirror}
SomeKinds == [p \in SomePods |->
  CASE p = daemon -> "daemonset" [] p = mirror -> "mirror" [] OTHER -> "plain"]

\* The ordinary pod on a node of either role, the daemon set's where it meets the
\* worker's upgrade, the mirror pod of a control-plane node.
SomePlacements ==
  {[p \in SomePods |-> CASE p = plain -> n [] p = daemon -> w1 [] p = mirror -> c1] :
     n \in {c1, w1}}
=============================================================================

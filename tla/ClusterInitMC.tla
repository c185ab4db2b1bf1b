---------------------------- MODULE ClusterInitMC ----------------------------
(* ClusterInit with the values of its constants for TLC.                    *)
EXTENDS ClusterInit

CONSTANTS h1, h2, h3

Node(role, host) == [role |-> role, host |-> host]

InitPhases == <<"validate", "connect", "bootstrap", "kubeconfig">>

\* Three hosts are enough for a first node, a join and a last node.
ThreeNodes == <<Node("server", h1), Node("agent", h2), Node("agent", h3)>>
TwoNodes   == <<Node("server", h1), Node("agent", h2)>>

\* One host as control plane and worker.
SharedHost == <<Node("server", h1), Node("agent", h1)>>

ThreeServers == <<Node("server", h1), Node("server", h2), Node("server", h3)>>

\* An even number of servers and none at all, which do not validate.
TwoServers == <<Node("server", h1), Node("server", h2), Node("agent", h3)>>
NoServer   == <<Node("agent", h1)>>

NoHooks == << >>

\* Hooks of every shape.  init itself adds none; those who build the pipeline
\* with WithHooks do.
SomeHooks == <<{"pre", "post", "onError"}, {"post"}, {"pre", "onError"}>>

InitConfigs == {ThreeNodes, ThreeServers, SharedHost, TwoServers, NoServer}
OneConfig  == {TwoNodes}
=============================================================================

------------------------------- MODULE FleetMC -------------------------------
(* Fleet with the values of its constants for TLC.                          *)
EXTENDS Fleet, TLC

CONSTANTS h1, h2, v1, v2, a1, w1

\* us-east.yaml and eu-west.yaml are named for their clusters, prod/cluster.yaml
\* and dev/cluster.yaml are not.
FileNames == "us-east" :> "us-east" @@ "eu-west" :> "eu-west"
             @@ "prod/cluster" :> "cluster" @@ "dev/cluster" :> "cluster"
ClusterNames == "us-east" :> "us-east" @@ "eu-west" :> "eu-west"
                @@ "prod/cluster" :> "prod" @@ "dev/cluster" :> "dev"

\* The small cluster lists the addon and disables it.
OneAddon(on) == a1 :> [enabled |-> on, version |-> w1]
SomeConfigs ==
  { [cp |-> {h1}, workers |-> {}, addons |-> OneAddon(FALSE), version |-> v1],
    [cp |-> {h1}, workers |-> {h2}, addons |-> OneAddon(TRUE), version |-> v2] }

SomeFleets == { <<"us-east", "eu-west">>, <<"eu-west", "prod/cluster">>,
                <<"prod/cluster", "dev/cluster">> }
=============================================================================

------------------------------- MODULE InfraMC -------------------------------
(* InfraProvider with the values of its constants for TLC: two clusters that *)
(* want a control-plane machine, one of them perhaps a worker too.          *)
EXTENDS InfraProvider, TLC

SomeSpecs == {<<"control-plane">>, <<"control-plane", "worker">>}
Symmetry  == Permutations(Clusters)
=============================================================================

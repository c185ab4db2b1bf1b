------------------------------ MODULE ApplyMC -------------------------------
(* ApplyState with the values of its constants for TLC.                     *)
EXTENDS ApplyState, TLC

CONSTANTS h1, h2, a1, x1, x2, v1, v2

Config(cp, workers, addons, version) ==
  [cp |-> cp, workers |-> workers, addons |-> addons, version |-> version]

Enabled(v)  == a1 :> [enabled |-> TRUE, version |-> v]
Disabled(v) == a1 :> [enabled |-> FALSE, version |-> v]

\* Machines added, removed and promoted; versions moved both ways; the addon
\* installed, upgraded, disabled and dropped; a host listed in both places.
SomeConfigs ==
  { Config({h1}, {}, Enabled(x1), v1),
    Config({h1}, {h2}, Enabled(x2), v1),
    Config({h1, h2}, {}, Disabled(x1), v2),
    Config({h2}, {h2}, EmptyFcn, v2),
    Config({h2}, {h1}, Enabled(x1), v1),
    Config({h1}, {}, Enabled(x2), v2),
    Config({}, {h2}, EmptyFcn, v1) }

\* Enough for concurrent commands: going from one to the other deletes or
\* creates a machine, upgrades the other, and moves the addon's version.
TwoConfigs ==
  { Config({h1}, {h2}, Enabled(x1), v1),
    Config({h1}, {}, Enabled(x2), v2) }

Terminals == Permutations(Procs)
=============================================================================

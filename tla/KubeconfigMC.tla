---------------------------- MODULE KubeconfigMC -----------------------------
(* Kubeconfig with the values of its constants for TLC.                     *)
EXTENDS Kubeconfig, TLC

\* The user has a context with a login plugin, and one that happens to have
\* the name of a cluster that init will make but other names inside.
UsersOwn ==
  LET work == NameOf("work", "") prod == NameOf("prod", "") me == NameOf("me", "") IN
  [clusters |-> <<[name |-> work, server |-> "work.example", extra |-> TRUE]>>,
   contexts |-> <<[name |-> work, cluster |-> work, user |-> me, extra |-> TRUE],
                  [name |-> prod, cluster |-> work, user |-> me, extra |-> FALSE]>>,
   users    |-> <<[name |-> me, cred |-> 0, extra |-> TRUE]>>,
   current  |-> work]

Terminals == Permutations(Procs)
=============================================================================

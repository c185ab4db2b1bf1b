---------------------------- MODULE ClusterStore ----------------------------
(***************************************************************************)
(* What the commands promise together: a store that holds a cluster state  *)
(* or none, that an apply moves in one step to the state its configuration *)
(* asks for, and that a destroy, or a save that fails, empties.            *)
(* ApplyState implements it when commands run one at a time (its Refines). *)
(***************************************************************************)
EXTENDS Reconciler

VARIABLE store

Base == IF store = Absent THEN FreshState ELSE store

Init == store = Absent

\* An apply that changes a resource records an operation; one that changes
\* none does not touch the store.
Apply(c) ==
  /\ ~SameResources(Goal(c, Base), Base)
  /\ store' = Goal(c, Base)

Destroy == store' = Absent

Next == Destroy \/ \E c \in Configs : Apply(c)

Spec == Init /\ [][Next]_store
=============================================================================

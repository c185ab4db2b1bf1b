---------------------------- MODULE InfraProvider ---------------------------
(***************************************************************************)
(* The infrastructure providers that make machines: docker and hetzner     *)
(* (pkg/providers/infra).  Both run through a list with a few calls of a   *)
(* service for each element and stop at the first that fails; they differ  *)
(* in the calls.  The callers, one per cluster, share the service.         *)
(*                                                                         *)
(* The service is outside the repository: it refuses a second machine of   *)
(* the same name and calls for a machine that is not there.  A call that   *)
(* fails otherwise may have had its effect or not.                         *)
(***************************************************************************)
EXTENDS Naturals, Sequences, FiniteSets

CONSTANTS Clusters,   \* the clusters, each with one caller
          SpecLists,  \* the lists of MachineSpecs callers pass, as roles
          Providers,  \* the providers
          MaxIDs,     \* bound: machines made by the service
          MaxFaults   \* bound: failed calls and machines that stop

ASSUME ProvidersAssumption == Providers \subseteq {"docker", "hetzner"}
ASSUME SpecsAssumption ==
  SpecLists \subseteq Seq({"control-plane", "worker"}) \ {<< >>} /\ SpecLists # {}
ASSUME BoundsAssumption == MaxIDs \in Nat /\ MaxFaults \in Nat

VARIABLES
  provider,  \* the provider in use
  caller,    \* what the caller of each cluster is doing, and holds
  service,   \* the machines of the service, by ProviderID
  made,      \* how many machines it has made
  faults,
  \* The next two only observe.
  orphans,   \* the machines made by a Provision that then failed
  found      \* the held machines that were there when the last Destroy began

vars == <<provider, caller, service, made, faults, orphans, found>>

Init ==
  /\ provider \in Providers
  /\ caller = [c \in Clusters |->
                 [op |-> "none", specs |-> CHOOSE s \in SpecLists : TRUE, i |-> 1, call |-> 1,
                  id |-> 0, built |-> << >>, machines |-> << >>, statuses |-> << >>,
                  outcome |-> "none"]]
  /\ service = << >>
  /\ made = 0 /\ faults = 0
  /\ orphans = {}
  /\ found = [c \in Clusters |-> {}]

Fault == faults < MaxFaults /\ faults' = faults + 1

IdsOf(machines) == {machines[j].id : j \in DOMAIN machines}

\* The name of machine i of a list.  It does not tell the clusters apart.
MachineName(specs, i) == <<specs[i], i - 1>>

\* The calls made for each machine of a list.
ProvisionCalls == IF provider = "docker" THEN <<"create", "start", "inspect">> ELSE <<"create">>
DestroyCalls   == IF provider = "docker" THEN <<"stop", "remove">> ELSE <<"remove">>

Doing(c, op, calls, what) ==
  /\ caller[c].op = op
  /\ caller[c].i <= Len(IF op = "provision" THEN caller[c].specs ELSE caller[c].machines)
  /\ calls[caller[c].call] = what

\* The function returns to its caller.
Return(c, outcome) ==
  caller' = [caller EXCEPT ![c] =
    [@ EXCEPT !.op = "none", !.outcome = outcome, !.built = << >>, !.id = 0, !.i = 1,
              !.call = 1]]

-----------------------------------------------------------------------------
(* Provision.                                                              *)

\* A caller provisions when it holds no machines.
CallProvision(c) ==
  /\ caller[c].op = "none"
  /\ caller[c].machines = << >>
  /\ \E specs \in SpecLists :
       caller' = [caller EXCEPT ![c] =
                     [@ EXCEPT !.op = "provision", !.specs = specs, !.outcome = "none"]]
  /\ UNCHANGED <<provider, service, made, faults, orphans, found>>

\* The call succeeded for the machine d; the last call of an element appends
\* it to the result.
Provisioned(c, d) ==
  LET k == caller[c] IN
  caller' = [caller EXCEPT ![c] =
    IF k.call < Len(ProvisionCalls)
      THEN [k EXCEPT !.call = @ + 1, !.id = d]
      ELSE [k EXCEPT !.call = 1, !.id = 0, !.i = @ + 1,
              !.built = Append(@, [id |-> d, name |-> MachineName(k.specs, k.i)])]]

\* Provision returns nil and the error: what it has made is out of reach.
ProvisionFails(c, extra) ==
  /\ Return(c, "error")
  /\ orphans' = orphans \cup IdsOf(caller[c].built) \cup ({caller[c].id} \ {0}) \cup extra
  /\ UNCHANGED <<provider, found>>

\* The service with a machine more.
With(d, name) ==
  [e \in DOMAIN service \cup {d} |->
     IF e = d THEN [name |-> name, status |-> "created"] ELSE service[e]]

\* Mutant: a name that is taken is taken for the machine that was wanted.
CreateReusesName(c) ==
  LET name == MachineName(caller[c].specs, caller[c].i) IN
  /\ Doing(c, "provision", ProvisionCalls, "create")
  /\ \/ /\ \A d \in DOMAIN service : service[d].name # name
        /\ made < MaxIDs
        /\ made' = made + 1
        /\ service' = With(made + 1, name)
        /\ Provisioned(c, made + 1)
     \/ \E d \in DOMAIN service :
          /\ service[d].name = name
          /\ Provisioned(c, d)
          /\ UNCHANGED <<service, made>>
  /\ UNCHANGED <<provider, faults, orphans, found>>

Create(c) ==
  LET name == MachineName(caller[c].specs, caller[c].i)
      free == \A d \in DOMAIN service : service[d].name # name
  IN
  /\ Doing(c, "provision", ProvisionCalls, "create")
  /\ \/ /\ free
        /\ made < MaxIDs
        /\ made' = made + 1
        /\ service' = With(made + 1, name)
        /\ Provisioned(c, made + 1)
        /\ UNCHANGED <<provider, faults, orphans, found>>
     \/ /\ ~free
        /\ ProvisionFails(c, {})
        /\ UNCHANGED <<service, made, faults>>
     \/ /\ Fault
        /\ \/ ProvisionFails(c, {}) /\ UNCHANGED <<service, made>>
           \/ /\ free
              /\ made < MaxIDs
              /\ made' = made + 1
              /\ service' = With(made + 1, name)
              /\ ProvisionFails(c, {made + 1})

\* Docker only: the container is started and inspected.
Start(c) ==
  /\ Doing(c, "provision", ProvisionCalls, "start")
  /\ \/ /\ caller[c].id \in DOMAIN service
        /\ service' = [service EXCEPT ![caller[c].id].status = "running"]
        /\ Provisioned(c, caller[c].id)
        /\ UNCHANGED <<provider, faults, orphans, found>>
     \/ /\ Fault
        /\ ProvisionFails(c, {})
        /\ UNCHANGED service
  /\ UNCHANGED made

Inspect(c) ==
  /\ Doing(c, "provision", ProvisionCalls, "inspect")
  /\ \/ /\ caller[c].id \in DOMAIN service
        /\ Provisioned(c, caller[c].id)
        /\ UNCHANGED <<provider, faults, orphans, found>>
     \/ /\ Fault
        /\ ProvisionFails(c, {})
  /\ UNCHANGED <<service, made>>

ProvisionReturns(c) ==
  /\ caller[c].op = "provision"
  /\ caller[c].i > Len(caller[c].specs)
  /\ caller' = [caller EXCEPT ![c] =
                  [@ EXCEPT !.op = "none", !.outcome = "provisioned",
                            !.machines = caller[c].built, !.built = << >>, !.i = 1]]
  /\ UNCHANGED <<provider, service, made, faults, orphans, found>>

-----------------------------------------------------------------------------
(* Destroy and Status.                                                     *)

CallDestroy(c) ==
  /\ caller[c].op = "none"
  /\ caller[c].machines # << >>
  /\ caller' = [caller EXCEPT ![c] = [@ EXCEPT !.op = "destroy", !.outcome = "none"]]
  /\ found' = [found EXCEPT ![c] = IdsOf(caller[c].machines) \cap DOMAIN service]
  /\ UNCHANGED <<provider, service, made, faults, orphans>>

Held(c) == caller[c].machines[caller[c].i].id

Without(d) == [e \in DOMAIN service \ {d} |-> service[e]]
Stopped(d) == [service EXCEPT ![d].status = "exited"]

\* The call succeeded: on to the next call, or the next machine.
Destroyed(c) ==
  LET k == caller[c] IN
  caller' = [caller EXCEPT ![c] =
    IF k.call < Len(DestroyCalls) THEN [k EXCEPT !.call = @ + 1]
    ELSE [k EXCEPT !.call = 1, !.i = @ + 1]]

\* Docker only.  A container that is not there cannot be stopped.
Stop(c) ==
  /\ Doing(c, "destroy", DestroyCalls, "stop")
  /\ \/ /\ Held(c) \in DOMAIN service
        /\ service' = Stopped(Held(c))
        /\ Destroyed(c)
        /\ UNCHANGED faults
     \/ /\ Held(c) \in DOMAIN service
        /\ Fault
        /\ service' \in {service, Stopped(Held(c))}
        /\ Return(c, "error")
     \/ /\ Held(c) \notin DOMAIN service
        /\ Return(c, "error")
        /\ UNCHANGED <<service, faults>>
  /\ UNCHANGED <<provider, made, orphans, found>>

\* Mutant: an error of the last call is logged only.
RemoveErrorDropped(c) ==
  /\ Doing(c, "destroy", DestroyCalls, "remove")
  /\ \/ /\ Held(c) \in DOMAIN service
        /\ service' = Without(Held(c))
        /\ UNCHANGED faults
     \/ /\ Fault
        /\ UNCHANGED service
  /\ Destroyed(c)
  /\ UNCHANGED <<provider, made, orphans, found>>

\* Mutant: a machine that is not there has been destroyed.
RemoveMissingIsFine(c) ==
  /\ Doing(c, "destroy", DestroyCalls, "remove")
  /\ \/ /\ service' = Without(Held(c))
        /\ Destroyed(c)
        /\ UNCHANGED faults
     \/ /\ Fault
        /\ service' \in {service, Without(Held(c))}
        /\ Return(c, "error")
  /\ UNCHANGED <<provider, made, orphans, found>>

Remove(c) ==
  /\ Doing(c, "destroy", DestroyCalls, "remove")
  /\ \/ /\ Held(c) \in DOMAIN service
        /\ service' = Without(Held(c))
        /\ Destroyed(c)
        /\ UNCHANGED faults
     \/ /\ Held(c) \in DOMAIN service
        /\ Fault
        /\ service' \in {service, Without(Held(c))}
        /\ Return(c, "error")
     \/ /\ Held(c) \notin DOMAIN service
        /\ Return(c, "error")
        /\ UNCHANGED <<service, faults>>
  /\ UNCHANGED <<provider, made, orphans, found>>

\* Destroy returns nil, and the caller forgets the machines.
DestroyReturns(c) ==
  /\ caller[c].op = "destroy"
  /\ caller[c].i > Len(caller[c].machines)
  /\ caller' = [caller EXCEPT ![c] =
                  [@ EXCEPT !.op = "none", !.outcome = "destroyed", !.machines = << >>, !.i = 1]]
  /\ UNCHANGED <<provider, service, made, faults, orphans, found>>

mapStatus(status) ==
  CASE status = "running" -> "ready" [] status = "exited" -> "deleted"
    [] OTHER -> "provisioning"

CallStatus(c) ==
  /\ caller[c].op = "none"
  /\ caller[c].machines # << >>
  /\ caller' = [caller EXCEPT ![c] =
                  [@ EXCEPT !.op = "status", !.statuses = << >>, !.outcome = "none"]]
  /\ UNCHANGED <<provider, service, made, faults, orphans, found>>

\* One machine that cannot be inspected fails the whole call.
InspectStatus(c) ==
  /\ caller[c].op = "status"
  /\ caller[c].i <= Len(caller[c].machines)
  /\ \/ /\ Held(c) \in DOMAIN service
        /\ caller' = [caller EXCEPT ![c] =
              [caller[c] EXCEPT
                 !.i = @ + 1, !.statuses = Append(@, mapStatus(service[Held(c)].status))]]
        /\ UNCHANGED faults
     \/ /\ Fault \/ (Held(c) \notin DOMAIN service /\ UNCHANGED faults)
        /\ caller' = [caller EXCEPT ![c] =
              [@ EXCEPT !.op = "none", !.outcome = "error", !.statuses = << >>, !.i = 1]]
  /\ UNCHANGED <<provider, service, made, orphans, found>>

StatusReturns(c) ==
  /\ caller[c].op = "status"
  /\ caller[c].i > Len(caller[c].machines)
  /\ caller' = [caller EXCEPT ![c] =
                  [@ EXCEPT !.op = "none", !.outcome = "status", !.i = 1, !.statuses = << >>]]
  /\ UNCHANGED <<provider, service, made, faults, orphans, found>>

-----------------------------------------------------------------------------
(* The service.                                                            *)

\* A hetzner server boots after CreateServer has returned.
Boots(d) ==
  /\ provider = "hetzner"
  /\ service[d].status = "created"
  /\ service' = [service EXCEPT ![d].status = "running"]
  /\ UNCHANGED <<provider, caller, made, faults, orphans, found>>

\* A machine stops by itself.
Exits(d) ==
  /\ service[d].status = "running"
  /\ Fault
  /\ service' = Stopped(d)
  /\ UNCHANGED <<provider, caller, made, orphans, found>>

Next ==
  \/ \E c \in Clusters :
       \/ CallProvision(c) \/ Create(c) \/ Start(c) \/ Inspect(c) \/ ProvisionReturns(c)
       \/ CallDestroy(c) \/ Stop(c) \/ Remove(c) \/ DestroyReturns(c)
       \/ CallStatus(c) \/ InspectStatus(c) \/ StatusReturns(c)
  \/ \E d \in DOMAIN service : Boots(d) \/ Exits(d)

Spec == Init /\ [][Next]_vars

-----------------------------------------------------------------------------
(* Properties.                                                             *)

Idle(c) == caller[c].op = "none"

\* A machine of the service belongs to a caller, is being made, or was lost by
\* a Provision that failed; no other way of losing one exists.
EveryMachineAccounted ==
  \A d \in DOMAIN service :
    \/ d \in orphans
    \/ \E c \in Clusters :
         d = caller[c].id \/ d \in IdsOf(caller[c].machines) \cup IdsOf(caller[c].built)

\* A machine a failed Provision lost keeps its name, so as long as it is there
\* no cluster gets a machine of that name: trying again does not help.
OrphansBlockRetry ==
  [][\A c \in Clusters :
       caller[c].op = "provision" /\ caller'[c].outcome = "provisioned" =>
         \A d \in orphans \cap DOMAIN service :
           \A j \in DOMAIN caller[c].specs :
             service[d].name # MachineName(caller[c].specs, j)]_vars

\* Destroy returns nil only if every machine it was given was there when it
\* began, and none is there when it returns: a Destroy that failed after its
\* first removal fails for ever.
DestroyIsAllOrNothing ==
  [][\A c \in Clusters :
       caller[c].op = "destroy" /\ caller'[c].outcome = "destroyed" =>
         /\ IdsOf(caller[c].machines) = found[c]
         /\ IdsOf(caller[c].machines) \cap DOMAIN service' = {}]_vars
=============================================================================

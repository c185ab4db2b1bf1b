-------------------------- MODULE InfraProviderProofs -------------------------
(***************************************************************************)
(* What the infrastructure providers promise their callers, for any number *)
(* of clusters, any lists of specs, any service and any number of faults.  *)
(*                                                                         *)
(* The inductive invariant says whose every machine is: the ids a caller   *)
(* holds, has made so far or is making are nobody else's and no orphan's;  *)
(* those of a Provision that is going on are in the service under the      *)
(* names of its specs, and those a Destroy has passed are not there.       *)
(***************************************************************************)
EXTENDS InfraProvider, FiniteSetTheorems, TLAPS

-----------------------------------------------------------------------------
(* The invariant.                                                          *)

Names    == {"control-plane", "worker"} \X Nat
Machine  == [id : Nat, name : Names]
Statuses == {"created", "running", "exited"}
Outcomes == {"none", "error", "provisioned", "destroyed", "status"}
Reported == {"ready", "deleted", "provisioning"}

Caller == [op : {"none", "provision", "destroy", "status"}, specs : SpecLists,
           i : Nat \ {0}, call : Nat \ {0}, id : Nat, built : Seq(Machine),
           machines : Seq(Machine), statuses : Seq(Reported), outcome : Outcomes]

InfraTyped ==
  /\ provider \in {"docker", "hetzner"}
  /\ made \in Nat
  /\ caller \in [Clusters -> Caller]
  /\ service \in [DOMAIN service -> [name : Names, status : Statuses]]
  /\ DOMAIN service \subseteq 1 .. made
  /\ orphans \subseteq 1 .. made
  /\ found \in [Clusters -> SUBSET Nat]

\* Where a caller can be.
PlaceFits(c) ==
  LET k == caller[c] IN
  /\ k.op # "provision" => k.built = << >> /\ k.id = 0
  /\ k.op = "none" => k.i = 1
  /\ k.op # "none" => k.outcome = "none"
  /\ k.op \in {"none", "status"} => k.call = 1
  /\ k.op = "provision" =>
       /\ k.machines = << >>
       /\ k.call <= Len(ProvisionCalls)
       /\ k.call = 1 <=> k.id = 0
       /\ Len(k.built) = k.i - 1 /\ k.i <= Len(k.specs) + 1
       /\ k.i = Len(k.specs) + 1 => k.call = 1
  /\ k.op = "destroy" =>
       /\ k.call <= Len(DestroyCalls)
       /\ k.i <= Len(k.machines) + 1
       /\ k.i = Len(k.machines) + 1 => k.call = 1

\* The machines of a caller: those it holds, has made, is making.
Owned(c) ==
  IdsOf(caller[c].machines) \cup IdsOf(caller[c].built) \cup ({caller[c].id} \ {0})

OwnedFits(c) == Owned(c) \subseteq (1 .. made) \ orphans

\* What a Provision has made so far is there, under its names.
BuiltFits(c) ==
  caller[c].op = "provision" =>
    /\ \A j \in DOMAIN caller[c].built :
         /\ caller[c].built[j].id \in DOMAIN service
         /\ service[caller[c].built[j].id].name = MachineName(caller[c].specs, j)
    /\ caller[c].id # 0 =>
         /\ caller[c].id \in DOMAIN service
         /\ service[caller[c].id].name = MachineName(caller[c].specs, caller[c].i)

\* What a Destroy has passed was there when it began, and is there no more.
DestroyFits(c) ==
  caller[c].op = "destroy" =>
    /\ found[c] \subseteq IdsOf(caller[c].machines)
    /\ IdsOf(caller[c].machines) \cap DOMAIN service \subseteq found[c]
    /\ \A j \in DOMAIN caller[c].machines :
         j < caller[c].i => caller[c].machines[j].id \in found[c] \ DOMAIN service

CallerFits(c) == PlaceFits(c) /\ OwnedFits(c) /\ BuiltFits(c) /\ DestroyFits(c)

Disjoint == \A c, e \in Clusters : c # e => Owned(c) \cap Owned(e) = {}
Accounted == \A d \in DOMAIN service : d \in orphans \/ \E c \in Clusters : d \in Owned(c)
NamesDiffer == \A d, e \in DOMAIN service : service[d].name = service[e].name => d = e

InfraInv ==
  /\ InfraTyped
  /\ \A c \in Clusters : CallerFits(c)
  /\ Disjoint
  /\ Accounted
  /\ NamesDiffer

-----------------------------------------------------------------------------
(* What the steps do to a caller.                                          *)

LEMMA CallerTyped ==
  ASSUME InfraTyped, NEW c \in Clusters
  PROVE  /\ caller[c] \in Caller
         /\ caller[c].specs \in SpecLists /\ caller[c].i \in Nat \ {0}
         /\ caller[c].call \in Nat \ {0} /\ caller[c].id \in Nat
         /\ caller[c].built \in Seq(Machine) /\ caller[c].machines \in Seq(Machine)
         /\ caller[c].statuses \in Seq(Reported)
         /\ caller[c].op \in {"none", "provision", "destroy", "status"}
BY DEF InfraTyped, Caller

LEMMA Updated ==
  ASSUME NEW c \in Clusters, NEW r \in Caller, caller \in [Clusters -> Caller],
         caller' = [caller EXCEPT ![c] = r]
  PROVE  /\ caller' \in [Clusters -> Caller]
         /\ caller'[c] = r
         /\ \A e \in Clusters \ {c} : caller'[e] = caller[e]
OBVIOUS

LEMMA CallerUpdates ==
  ASSUME NEW k \in Caller
  PROVE  /\ \A x \in {"none", "provision", "destroy", "status"} : [k EXCEPT !.op = x] \in Caller
         /\ \A x \in SpecLists : [k EXCEPT !.specs = x] \in Caller
         /\ \A x \in Nat \ {0} : [k EXCEPT !.i = x] \in Caller
         /\ \A x \in Nat \ {0} : [k EXCEPT !.call = x] \in Caller
         /\ \A x \in Nat : [k EXCEPT !.id = x] \in Caller
         /\ \A x \in Seq(Machine) : [k EXCEPT !.built = x] \in Caller
         /\ \A x \in Seq(Machine) : [k EXCEPT !.machines = x] \in Caller
         /\ \A x \in Seq(Reported) : [k EXCEPT !.statuses = x] \in Caller
         /\ \A x \in Outcomes : [k EXCEPT !.outcome = x] \in Caller
<1>1. \A x \in {"none", "provision", "destroy", "status"} : [k EXCEPT !.op = x] \in Caller
  BY DEF Caller
<1>2. \A x \in SpecLists : [k EXCEPT !.specs = x] \in Caller
  BY DEF Caller
<1>3. \A x \in Nat \ {0} : [k EXCEPT !.i = x] \in Caller /\ [k EXCEPT !.call = x] \in Caller
  <2>1. \A x \in Nat \ {0} : [k EXCEPT !.i = x] \in Caller
    BY DEF Caller
  <2>2. \A x \in Nat \ {0} : [k EXCEPT !.call = x] \in Caller
    BY DEF Caller
  <2> QED BY <2>1, <2>2
<1>4. \A x \in Nat : [k EXCEPT !.id = x] \in Caller
  BY DEF Caller
<1>5. \A x \in Seq(Machine) : [k EXCEPT !.built = x] \in Caller
  BY DEF Caller
<1>6. \A x \in Seq(Machine) : [k EXCEPT !.machines = x] \in Caller
  BY DEF Caller
<1>7. \A x \in Seq(Reported) : [k EXCEPT !.statuses = x] \in Caller
  BY DEF Caller
<1>8. \A x \in Outcomes : [k EXCEPT !.outcome = x] \in Caller
  BY DEF Caller
<1> QED BY <1>1, <1>2, <1>3, <1>4, <1>5, <1>6, <1>7, <1>8

LEMMA ReturnMoves ==
  ASSUME InfraTyped, NEW c \in Clusters, NEW o \in Outcomes, Return(c, o)
  PROVE  /\ caller' \in [Clusters -> Caller]
         /\ \A e \in Clusters \ {c} : caller'[e] = caller[e]
         /\ caller'[c].op = "none" /\ caller'[c].built = << >> /\ caller'[c].id = 0
         /\ caller'[c].i = 1 /\ caller'[c].call = 1
         /\ caller'[c].machines = caller[c].machines
         /\ caller'[c].specs = caller[c].specs
         /\ caller'[c].outcome = o
<1> DEFINE k == caller[c]
           r == [k EXCEPT !.op = "none", !.outcome = o, !.built = << >>, !.id = 0, !.i = 1,
                          !.call = 1]
<1>1. caller \in [Clusters -> Caller] /\ k \in Caller
  BY DEF InfraTyped
<1>2. caller' = [caller EXCEPT ![c] = r]
  BY DEF Return
<1> HIDE DEF k
<1>3. << >> \in Seq(Machine)
  OBVIOUS
<1>4. r \in Caller
  <2>1. [k EXCEPT !.op = "none", !.outcome = o] \in Caller
    BY <1>1, CallerUpdates
  <2>2. [k EXCEPT !.op = "none", !.outcome = o, !.built = << >>] \in Caller
    BY <1>3, <2>1, CallerUpdates
  <2>3. [k EXCEPT !.op = "none", !.outcome = o, !.built = << >>, !.id = 0] \in Caller
    BY <2>2, CallerUpdates
  <2>4. \A q \in Caller : [q EXCEPT !.i = 1] \in Caller /\ [q EXCEPT !.call = 1] \in Caller
    <3>1. 1 \in Nat \ {0}
      OBVIOUS
    <3> QED BY <3>1, CallerUpdates
  <2>5. [k EXCEPT !.op = "none", !.outcome = o, !.built = << >>, !.id = 0, !.i = 1]
          \in Caller
    BY <2>3, <2>4
  <2> QED BY <2>4, <2>5
<1>5. /\ r.op = "none" /\ r.built = << >> /\ r.id = 0 /\ r.i = 1 /\ r.call = 1
      /\ r.machines = k.machines /\ r.specs = k.specs /\ r.outcome = o
  BY <1>1 DEF Caller
<1> HIDE DEF r
<1>6. /\ caller' \in [Clusters -> Caller]
      /\ caller'[c] = r
      /\ \A e \in Clusters \ {c} : caller'[e] = caller[e]
  BY <1>1, <1>2, <1>4, Updated
<1> QED BY <1>5, <1>6 DEF k

LEMMA CallerParts ==
  /\ 1 \in Nat \ {0} /\ \A n \in Nat \ {0} : n + 1 \in Nat \ {0}
  /\ << >> \in Seq(Machine) /\ << >> \in Seq(Reported)
  /\ \A s \in Seq(Reported), x \in Reported : Append(s, x) \in Seq(Reported)
  /\ \A s \in SpecLists : \A j \in DOMAIN s : MachineName(s, j) \in Names
  /\ \A s \in SpecLists : s \in Seq({"control-plane", "worker"}) /\ s # << >>
  /\ \A s \in Seq(Machine), d \in Nat, n \in Names :
       Append(s, [id |-> d, name |-> n]) \in Seq(Machine)
<1>1. \A s \in SpecLists : s \in Seq({"control-plane", "worker"}) /\ s # << >>
  BY SpecsAssumption
<1>2. ASSUME NEW s \in SpecLists, NEW j \in DOMAIN s
      PROVE  MachineName(s, j) \in Names
  <2>1. s[j] \in {"control-plane", "worker"} /\ j - 1 \in Nat
    BY <1>1
  <2> QED BY <2>1 DEF MachineName, Names
<1>3. \A d \in Nat, n \in Names : [id |-> d, name |-> n] \in Machine
  BY DEF Machine
<1>4. \A s \in Seq(Machine), d \in Nat, n \in Names :
        Append(s, [id |-> d, name |-> n]) \in Seq(Machine)
  <2>1. \A s \in Seq(Machine), m \in Machine : Append(s, m) \in Seq(Machine)
    OBVIOUS
  <2> QED BY <1>3, <2>1
<1> QED BY <1>1, <1>2, <1>4

LEMMA Appended ==
  \A s \in Seq(Machine), m \in Machine :
    /\ Len(Append(s, m)) = Len(s) + 1 /\ DOMAIN Append(s, m) = 1 .. Len(s) + 1
    /\ Append(s, m)[Len(s) + 1] = m
    /\ \A j \in DOMAIN s : Append(s, m)[j] = s[j]
OBVIOUS

LEMMA CallProvisionMoves ==
  ASSUME InfraTyped, NEW c \in Clusters, NEW specs \in SpecLists,
         caller' = [caller EXCEPT ![c] =
           [@ EXCEPT !.op = "provision", !.specs = specs, !.outcome = "none"]]
  PROVE  /\ caller' \in [Clusters -> Caller]
         /\ \A e \in Clusters \ {c} : caller'[e] = caller[e]
         /\ caller'[c].op = "provision"
         /\ caller'[c].specs = specs
         /\ caller'[c].outcome = "none"
         /\ caller'[c].i = caller[c].i
         /\ caller'[c].call = caller[c].call
         /\ caller'[c].id = caller[c].id
         /\ caller'[c].built = caller[c].built
         /\ caller'[c].machines = caller[c].machines
<1> DEFINE k == caller[c]
           r == [k EXCEPT !.op = "provision", !.specs = specs, !.outcome = "none"]
<1>1. caller \in [Clusters -> Caller] /\ k \in Caller
  BY DEF InfraTyped
<1>2. caller' = [caller EXCEPT ![c] = r]
  OBVIOUS
<1> HIDE DEF k
<1>3. /\ "provision" \in {"none", "provision", "destroy", "status"}
      /\ specs \in SpecLists
      /\ "none" \in Outcomes
  <2>1. "provision" \in {"none", "provision", "destroy", "status"}
    OBVIOUS
  <2>2. specs \in SpecLists
    OBVIOUS
  <2>3. "none" \in Outcomes
    BY DEF Outcomes
  <2> QED BY <2>1, <2>2, <2>3
<1>4. r \in Caller
  <2>1. [k EXCEPT !.op = "provision"] \in Caller
    BY <1>3, <1>1, CallerUpdates
  <2>2. [k EXCEPT !.op = "provision", !.specs = specs] \in Caller
    BY <1>3, <2>1, CallerUpdates
  <2> QED BY <1>3, <2>2, CallerUpdates
<1>5. /\ r.op = "provision"
      /\ r.specs = specs
      /\ r.outcome = "none"
      /\ r.i = k.i
      /\ r.call = k.call
      /\ r.id = k.id
      /\ r.built = k.built
      /\ r.machines = k.machines
  BY <1>1 DEF Caller
<1> HIDE DEF r
<1>6. /\ caller' \in [Clusters -> Caller]
      /\ caller'[c] = r
      /\ \A e \in Clusters \ {c} : caller'[e] = caller[e]
  BY <1>1, <1>2, <1>4, Updated
<1> QED BY <1>5, <1>6 DEF k

LEMMA NextCallMoves ==
  ASSUME InfraTyped, NEW c \in Clusters,
         NEW d \in Nat, Provisioned(c, d), caller[c].call < Len(ProvisionCalls)
  PROVE  /\ caller' \in [Clusters -> Caller]
         /\ \A e \in Clusters \ {c} : caller'[e] = caller[e]
         /\ caller'[c].call = caller[c].call + 1
         /\ caller'[c].id = d
         /\ caller'[c].op = caller[c].op
         /\ caller'[c].specs = caller[c].specs
         /\ caller'[c].i = caller[c].i
         /\ caller'[c].built = caller[c].built
         /\ caller'[c].machines = caller[c].machines
         /\ caller'[c].outcome = caller[c].outcome
<1> DEFINE k == caller[c]
           r == [k EXCEPT !.call = k.call + 1, !.id = d]
<1>1. caller \in [Clusters -> Caller] /\ k \in Caller
  BY DEF InfraTyped
<1>2. caller' = [caller EXCEPT ![c] = r]
  BY DEF Provisioned
<1> HIDE DEF k
<1>3. /\ k.call + 1 \in Nat \ {0}
      /\ d \in Nat
  <2>1. k.call + 1 \in Nat \ {0}
    BY <1>1, CallerParts DEF Caller
  <2>2. d \in Nat
    OBVIOUS
  <2> QED BY <2>1, <2>2
<1>4. r \in Caller
  <2>1. [k EXCEPT !.call = k.call + 1] \in Caller
    BY <1>3, <1>1, CallerUpdates
  <2> QED BY <1>3, <2>1, CallerUpdates
<1>5. /\ r.call = k.call + 1
      /\ r.id = d
      /\ r.op = k.op
      /\ r.specs = k.specs
      /\ r.i = k.i
      /\ r.built = k.built
      /\ r.machines = k.machines
      /\ r.outcome = k.outcome
  BY <1>1 DEF Caller
<1> HIDE DEF r
<1>6. /\ caller' \in [Clusters -> Caller]
      /\ caller'[c] = r
      /\ \A e \in Clusters \ {c} : caller'[e] = caller[e]
  BY <1>1, <1>2, <1>4, Updated
<1> QED BY <1>5, <1>6 DEF k

LEMMA BuiltMoves ==
  ASSUME InfraTyped, NEW c \in Clusters,
         NEW d \in Nat, Provisioned(c, d), ~(caller[c].call < Len(ProvisionCalls)),
         caller[c].i \in DOMAIN caller[c].specs
  PROVE  /\ caller' \in [Clusters -> Caller]
         /\ \A e \in Clusters \ {c} : caller'[e] = caller[e]
         /\ caller'[c].call = 1
         /\ caller'[c].id = 0
         /\ caller'[c].i = caller[c].i + 1
         /\ caller'[c].built = 
              Append(caller[c].built, [id |-> d, name |-> MachineName(caller[c].specs, caller[c].i)])
         /\ caller'[c].op = caller[c].op
         /\ caller'[c].specs = caller[c].specs
         /\ caller'[c].machines = caller[c].machines
         /\ caller'[c].outcome = caller[c].outcome
<1> DEFINE k == caller[c]
           r == [k EXCEPT !.call = 1, !.id = 0, !.i = k.i + 1,
                   !.built = Append(k.built, [id |-> d, name |-> MachineName(k.specs, k.i)])]
<1>1. caller \in [Clusters -> Caller] /\ k \in Caller
  BY DEF InfraTyped
<1>2. caller' = [caller EXCEPT ![c] = r]
  BY DEF Provisioned
<1> HIDE DEF k
<1>3. /\ 1 \in Nat \ {0}
      /\ 0 \in Nat
      /\ k.i + 1 \in Nat \ {0}
      /\ Append(k.built, [id |-> d, name |-> MachineName(k.specs, k.i)]) \in Seq(Machine)
  <2>1. 1 \in Nat \ {0}
    OBVIOUS
  <2>2. 0 \in Nat
    BY <1>1, CallerParts DEF Caller
  <2>3. k.i + 1 \in Nat \ {0}
    BY <1>1, CallerParts DEF Caller
  <2>4. Append(k.built, [id |-> d, name |-> MachineName(k.specs, k.i)]) \in Seq(Machine)
    BY <1>1, CallerParts DEF k, Caller
  <2> QED BY <2>1, <2>2, <2>3, <2>4
<1>4. r \in Caller
  <2>1. [k EXCEPT !.call = 1] \in Caller
    BY <1>3, <1>1, CallerUpdates
  <2>2. [k EXCEPT !.call = 1, !.id = 0] \in Caller
    BY <1>3, <2>1, CallerUpdates
  <2>3. [k EXCEPT !.call = 1, !.id = 0, !.i = k.i + 1] \in Caller
    BY <1>3, <2>2, CallerUpdates
  <2> QED BY <1>3, <2>3, CallerUpdates
<1>5. /\ r.call = 1
      /\ r.id = 0
      /\ r.i = k.i + 1
      /\ r.built = Append(k.built, [id |-> d, name |-> MachineName(k.specs, k.i)])
      /\ r.op = k.op
      /\ r.specs = k.specs
      /\ r.machines = k.machines
      /\ r.outcome = k.outcome
  BY <1>1 DEF Caller
<1> HIDE DEF r
<1>6. /\ caller' \in [Clusters -> Caller]
      /\ caller'[c] = r
      /\ \A e \in Clusters \ {c} : caller'[e] = caller[e]
  BY <1>1, <1>2, <1>4, Updated
<1> QED BY <1>5, <1>6 DEF k

LEMMA ProvisionReturnsMoves ==
  ASSUME InfraTyped, NEW c \in Clusters,
         ProvisionReturns(c)
  PROVE  /\ caller' \in [Clusters -> Caller]
         /\ \A e \in Clusters \ {c} : caller'[e] = caller[e]
         /\ caller'[c].op = "none"
         /\ caller'[c].outcome = "provisioned"
         /\ caller'[c].machines = caller[c].built
         /\ caller'[c].built = << >>
         /\ caller'[c].i = 1
         /\ caller'[c].specs = caller[c].specs
         /\ caller'[c].call = caller[c].call
         /\ caller'[c].id = caller[c].id
<1> DEFINE k == caller[c]
           r == [k EXCEPT !.op = "none", !.outcome = "provisioned", !.machines = k.built,
                          !.built = << >>, !.i = 1]
<1>1. caller \in [Clusters -> Caller] /\ k \in Caller
  BY DEF InfraTyped
<1>2. caller' = [caller EXCEPT ![c] = r]
  BY DEF ProvisionReturns
<1> HIDE DEF k
<1>3. /\ "none" \in {"none", "provision", "destroy", "status"}
      /\ "provisioned" \in Outcomes
      /\ k.built \in Seq(Machine)
      /\ << >> \in Seq(Machine)
      /\ 1 \in Nat \ {0}
  <2>1. "none" \in {"none", "provision", "destroy", "status"}
    OBVIOUS
  <2>2. "provisioned" \in Outcomes
    BY DEF Outcomes
  <2>3. k.built \in Seq(Machine)
    BY <1>1, CallerParts DEF Caller
  <2>4. << >> \in Seq(Machine)
    OBVIOUS
  <2>5. 1 \in Nat \ {0}
    OBVIOUS
  <2> QED BY <2>1, <2>2, <2>3, <2>4, <2>5
<1>4. r \in Caller
  <2>1. [k EXCEPT !.op = "none"] \in Caller
    BY <1>3, <1>1, CallerUpdates
  <2>2. [k EXCEPT !.op = "none", !.outcome = "provisioned"] \in Caller
    BY <1>3, <2>1, CallerUpdates
  <2>3. [k EXCEPT !.op = "none", !.outcome = "provisioned", !.machines = k.built] \in Caller
    BY <1>3, <2>2, CallerUpdates
  <2>4. [k EXCEPT !.op = "none", !.outcome = "provisioned", !.machines = k.built, !.built = << >>]
          \in Caller
    BY <1>3, <2>3, CallerUpdates
  <2> QED BY <1>3, <2>4, CallerUpdates
<1>5. /\ r.op = "none"
      /\ r.outcome = "provisioned"
      /\ r.machines = k.built
      /\ r.built = << >>
      /\ r.i = 1
      /\ r.specs = k.specs
      /\ r.call = k.call
      /\ r.id = k.id
  BY <1>1 DEF Caller
<1> HIDE DEF r
<1>6. /\ caller' \in [Clusters -> Caller]
      /\ caller'[c] = r
      /\ \A e \in Clusters \ {c} : caller'[e] = caller[e]
  BY <1>1, <1>2, <1>4, Updated
<1> QED BY <1>5, <1>6 DEF k

LEMMA CallDestroyMoves ==
  ASSUME InfraTyped, NEW c \in Clusters,
         CallDestroy(c)
  PROVE  /\ caller' \in [Clusters -> Caller]
         /\ \A e \in Clusters \ {c} : caller'[e] = caller[e]
         /\ caller'[c].op = "destroy"
         /\ caller'[c].outcome = "none"
         /\ caller'[c].specs = caller[c].specs
         /\ caller'[c].i = caller[c].i
         /\ caller'[c].call = caller[c].call
         /\ caller'[c].id = caller[c].id
         /\ caller'[c].built = caller[c].built
         /\ caller'[c].machines = caller[c].machines
<1> DEFINE k == caller[c]
           r == [k EXCEPT !.op = "destroy", !.outcome = "none"]
<1>1. caller \in [Clusters -> Caller] /\ k \in Caller
  BY DEF InfraTyped
<1>2. caller' = [caller EXCEPT ![c] = r]
  BY DEF CallDestroy
<1> HIDE DEF k
<1>3. /\ "destroy" \in {"none", "provision", "destroy", "status"}
      /\ "none" \in Outcomes
  <2>1. "destroy" \in {"none", "provision", "destroy", "status"}
    OBVIOUS
  <2>2. "none" \in Outcomes
    BY DEF Outcomes
  <2> QED BY <2>1, <2>2
<1>4. r \in Caller
  <2>1. [k EXCEPT !.op = "destroy"] \in Caller
    BY <1>3, <1>1, CallerUpdates
  <2> QED BY <1>3, <2>1, CallerUpdates
<1>5. /\ r.op = "destroy"
      /\ r.outcome = "none"
      /\ r.specs = k.specs
      /\ r.i = k.i
      /\ r.call = k.call
      /\ r.id = k.id
      /\ r.built = k.built
      /\ r.machines = k.machines
  BY <1>1 DEF Caller
<1> HIDE DEF r
<1>6. /\ caller' \in [Clusters -> Caller]
      /\ caller'[c] = r
      /\ \A e \in Clusters \ {c} : caller'[e] = caller[e]
  BY <1>1, <1>2, <1>4, Updated
<1> QED BY <1>5, <1>6 DEF k

LEMMA NextRemovalCallMoves ==
  ASSUME InfraTyped, NEW c \in Clusters,
         Destroyed(c), caller[c].call < Len(DestroyCalls)
  PROVE  /\ caller' \in [Clusters -> Caller]
         /\ \A e \in Clusters \ {c} : caller'[e] = caller[e]
         /\ caller'[c].call = caller[c].call + 1
         /\ caller'[c].op = caller[c].op
         /\ caller'[c].specs = caller[c].specs
         /\ caller'[c].i = caller[c].i
         /\ caller'[c].id = caller[c].id
         /\ caller'[c].built = caller[c].built
         /\ caller'[c].machines = caller[c].machines
         /\ caller'[c].outcome = caller[c].outcome
<1> DEFINE k == caller[c]
           r == [k EXCEPT !.call = k.call + 1]
<1>1. caller \in [Clusters -> Caller] /\ k \in Caller
  BY DEF InfraTyped
<1>2. caller' = [caller EXCEPT ![c] = r]
  BY DEF Destroyed
<1> HIDE DEF k
<1>3. /\ k.call + 1 \in Nat \ {0}
  <2>1. k.call + 1 \in Nat \ {0}
    BY <1>1, CallerParts DEF Caller
  <2> QED BY <2>1
<1>4. r \in Caller
  <2> QED BY <1>3, <1>1, CallerUpdates
<1>5. /\ r.call = k.call + 1
      /\ r.op = k.op
      /\ r.specs = k.specs
      /\ r.i = k.i
      /\ r.id = k.id
      /\ r.built = k.built
      /\ r.machines = k.machines
      /\ r.outcome = k.outcome
  BY <1>1 DEF Caller
<1> HIDE DEF r
<1>6. /\ caller' \in [Clusters -> Caller]
      /\ caller'[c] = r
      /\ \A e \in Clusters \ {c} : caller'[e] = caller[e]
  BY <1>1, <1>2, <1>4, Updated
<1> QED BY <1>5, <1>6 DEF k

LEMMA NextRemovalMoves ==
  ASSUME InfraTyped, NEW c \in Clusters,
         Destroyed(c), ~(caller[c].call < Len(DestroyCalls))
  PROVE  /\ caller' \in [Clusters -> Caller]
         /\ \A e \in Clusters \ {c} : caller'[e] = caller[e]
         /\ caller'[c].call = 1
         /\ caller'[c].i = caller[c].i + 1
         /\ caller'[c].op = caller[c].op
         /\ caller'[c].specs = caller[c].specs
         /\ caller'[c].id = caller[c].id
         /\ caller'[c].built = caller[c].built
         /\ caller'[c].machines = caller[c].machines
         /\ caller'[c].outcome = caller[c].outcome
<1> DEFINE k == caller[c]
           r == [k EXCEPT !.call = 1, !.i = k.i + 1]
<1>1. caller \in [Clusters -> Caller] /\ k \in Caller
  BY DEF InfraTyped
<1>2. caller' = [caller EXCEPT ![c] = r]
  BY DEF Destroyed
<1> HIDE DEF k
<1>3. /\ 1 \in Nat \ {0}
      /\ k.i + 1 \in Nat \ {0}
  <2>1. 1 \in Nat \ {0}
    OBVIOUS
  <2>2. k.i + 1 \in Nat \ {0}
    BY <1>1, CallerParts DEF Caller
  <2> QED BY <2>1, <2>2
<1>4. r \in Caller
  <2>1. [k EXCEPT !.call = 1] \in Caller
    BY <1>3, <1>1, CallerUpdates
  <2> QED BY <1>3, <2>1, CallerUpdates
<1>5. /\ r.call = 1
      /\ r.i = k.i + 1
      /\ r.op = k.op
      /\ r.specs = k.specs
      /\ r.id = k.id
      /\ r.built = k.built
      /\ r.machines = k.machines
      /\ r.outcome = k.outcome
  BY <1>1 DEF Caller
<1> HIDE DEF r
<1>6. /\ caller' \in [Clusters -> Caller]
      /\ caller'[c] = r
      /\ \A e \in Clusters \ {c} : caller'[e] = caller[e]
  BY <1>1, <1>2, <1>4, Updated
<1> QED BY <1>5, <1>6 DEF k

LEMMA DestroyReturnsMoves ==
  ASSUME InfraTyped, NEW c \in Clusters,
         DestroyReturns(c)
  PROVE  /\ caller' \in [Clusters -> Caller]
         /\ \A e \in Clusters \ {c} : caller'[e] = caller[e]
         /\ caller'[c].op = "none"
         /\ caller'[c].outcome = "destroyed"
         /\ caller'[c].machines = << >>
         /\ caller'[c].i = 1
         /\ caller'[c].specs = caller[c].specs
         /\ caller'[c].call = caller[c].call
         /\ caller'[c].id = caller[c].id
         /\ caller'[c].built = caller[c].built
<1> DEFINE k == caller[c]
           r == [k EXCEPT !.op = "none", !.outcome = "destroyed", !.machines = << >>, !.i = 1]
<1>1. caller \in [Clusters -> Caller] /\ k \in Caller
  BY DEF InfraTyped
<1>2. caller' = [caller EXCEPT ![c] = r]
  BY DEF DestroyReturns
<1> HIDE DEF k
<1>3. /\ "none" \in {"none", "provision", "destroy", "status"}
      /\ "destroyed" \in Outcomes
      /\ << >> \in Seq(Machine)
      /\ 1 \in Nat \ {0}
  <2>1. "none" \in {"none", "provision", "destroy", "status"}
    OBVIOUS
  <2>2. "destroyed" \in Outcomes
    BY DEF Outcomes
  <2>3. << >> \in Seq(Machine)
    OBVIOUS
  <2>4. 1 \in Nat \ {0}
    OBVIOUS
  <2> QED BY <2>1, <2>2, <2>3, <2>4
<1>4. r \in Caller
  <2>1. [k EXCEPT !.op = "none"] \in Caller
    BY <1>3, <1>1, CallerUpdates
  <2>2. [k EXCEPT !.op = "none", !.outcome = "destroyed"] \in Caller
    BY <1>3, <2>1, CallerUpdates
  <2>3. [k EXCEPT !.op = "none", !.outcome = "destroyed", !.machines = << >>] \in Caller
    BY <1>3, <2>2, CallerUpdates
  <2> QED BY <1>3, <2>3, CallerUpdates
<1>5. /\ r.op = "none"
      /\ r.outcome = "destroyed"
      /\ r.machines = << >>
      /\ r.i = 1
      /\ r.specs = k.specs
      /\ r.call = k.call
      /\ r.id = k.id
      /\ r.built = k.built
  BY <1>1 DEF Caller
<1> HIDE DEF r
<1>6. /\ caller' \in [Clusters -> Caller]
      /\ caller'[c] = r
      /\ \A e \in Clusters \ {c} : caller'[e] = caller[e]
  BY <1>1, <1>2, <1>4, Updated
<1> QED BY <1>5, <1>6 DEF k

LEMMA CallStatusMoves ==
  ASSUME InfraTyped, NEW c \in Clusters,
         CallStatus(c)
  PROVE  /\ caller' \in [Clusters -> Caller]
         /\ \A e \in Clusters \ {c} : caller'[e] = caller[e]
         /\ caller'[c].op = "status"
         /\ caller'[c].statuses = << >>
         /\ caller'[c].outcome = "none"
         /\ caller'[c].specs = caller[c].specs
         /\ caller'[c].i = caller[c].i
         /\ caller'[c].call = caller[c].call
         /\ caller'[c].id = caller[c].id
         /\ caller'[c].built = caller[c].built
         /\ caller'[c].machines = caller[c].machines
<1> DEFINE k == caller[c]
           r == [k EXCEPT !.op = "status", !.statuses = << >>, !.outcome = "none"]
<1>1. caller \in [Clusters -> Caller] /\ k \in Caller
  BY DEF InfraTyped
<1>2. caller' = [caller EXCEPT ![c] = r]
  BY DEF CallStatus
<1> HIDE DEF k
<1>3. /\ "status" \in {"none", "provision", "destroy", "status"}
      /\ << >> \in Seq(Reported)
      /\ "none" \in Outcomes
  <2>1. "status" \in {"none", "provision", "destroy", "status"}
    OBVIOUS
  <2>2. << >> \in Seq(Reported)
    OBVIOUS
  <2>3. "none" \in Outcomes
    BY DEF Outcomes
  <2> QED BY <2>1, <2>2, <2>3
<1>4. r \in Caller
  <2>1. [k EXCEPT !.op = "status"] \in Caller
    BY <1>3, <1>1, CallerUpdates
  <2>2. [k EXCEPT !.op = "status", !.statuses = << >>] \in Caller
    BY <1>3, <2>1, CallerUpdates
  <2> QED BY <1>3, <2>2, CallerUpdates
<1>5. /\ r.op = "status"
      /\ r.statuses = << >>
      /\ r.outcome = "none"
      /\ r.specs = k.specs
      /\ r.i = k.i
      /\ r.call = k.call
      /\ r.id = k.id
      /\ r.built = k.built
      /\ r.machines = k.machines
  BY <1>1 DEF Caller
<1> HIDE DEF r
<1>6. /\ caller' \in [Clusters -> Caller]
      /\ caller'[c] = r
      /\ \A e \in Clusters \ {c} : caller'[e] = caller[e]
  BY <1>1, <1>2, <1>4, Updated
<1> QED BY <1>5, <1>6 DEF k

LEMMA StatusGoesOn ==
  ASSUME InfraTyped, NEW c \in Clusters, NEW s \in Reported,
         caller' = [caller EXCEPT ![c] =
           [caller[c] EXCEPT !.i = @ + 1, !.statuses = Append(@, s)]]
  PROVE  /\ caller' \in [Clusters -> Caller]
         /\ \A e \in Clusters \ {c} : caller'[e] = caller[e]
         /\ caller'[c].i = caller[c].i + 1
         /\ caller'[c].statuses = Append(caller[c].statuses, s)
         /\ caller'[c].op = caller[c].op
         /\ caller'[c].specs = caller[c].specs
         /\ caller'[c].call = caller[c].call
         /\ caller'[c].id = caller[c].id
         /\ caller'[c].built = caller[c].built
         /\ caller'[c].machines = caller[c].machines
         /\ caller'[c].outcome = caller[c].outcome
<1> DEFINE k == caller[c]
           r == [k EXCEPT !.i = k.i + 1, !.statuses = Append(k.statuses, s)]
<1>1. caller \in [Clusters -> Caller] /\ k \in Caller
  BY DEF InfraTyped
<1>2. caller' = [caller EXCEPT ![c] = r]
  OBVIOUS
<1> HIDE DEF k
<1>3. /\ k.i + 1 \in Nat \ {0}
      /\ Append(k.statuses, s) \in Seq(Reported)
  <2>1. k.i + 1 \in Nat \ {0}
    BY <1>1, CallerParts DEF Caller
  <2>2. Append(k.statuses, s) \in Seq(Reported)
    BY CallerTyped, CallerParts DEF k
  <2> QED BY <2>1, <2>2
<1>4. r \in Caller
  <2>1. [k EXCEPT !.i = k.i + 1] \in Caller
    BY <1>3, <1>1, CallerUpdates
  <2> QED BY <1>3, <2>1, CallerUpdates
<1>5. /\ r.i = k.i + 1
      /\ r.statuses = Append(k.statuses, s)
      /\ r.op = k.op
      /\ r.specs = k.specs
      /\ r.call = k.call
      /\ r.id = k.id
      /\ r.built = k.built
      /\ r.machines = k.machines
      /\ r.outcome = k.outcome
  BY <1>1 DEF Caller
<1> HIDE DEF r
<1>6. /\ caller' \in [Clusters -> Caller]
      /\ caller'[c] = r
      /\ \A e \in Clusters \ {c} : caller'[e] = caller[e]
  BY <1>1, <1>2, <1>4, Updated
<1> QED BY <1>5, <1>6 DEF k

LEMMA StatusFails ==
  ASSUME InfraTyped, NEW c \in Clusters,
         caller' = [caller EXCEPT ![c] =
           [@ EXCEPT !.op = "none", !.outcome = "error", !.statuses = << >>, !.i = 1]]
  PROVE  /\ caller' \in [Clusters -> Caller]
         /\ \A e \in Clusters \ {c} : caller'[e] = caller[e]
         /\ caller'[c].op = "none"
         /\ caller'[c].outcome = "error"
         /\ caller'[c].statuses = << >>
         /\ caller'[c].i = 1
         /\ caller'[c].specs = caller[c].specs
         /\ caller'[c].call = caller[c].call
         /\ caller'[c].id = caller[c].id
         /\ caller'[c].built = caller[c].built
         /\ caller'[c].machines = caller[c].machines
<1> DEFINE k == caller[c]
           r == [k EXCEPT !.op = "none", !.outcome = "error", !.statuses = << >>, !.i = 1]
<1>1. caller \in [Clusters -> Caller] /\ k \in Caller
  BY DEF InfraTyped
<1>2. caller' = [caller EXCEPT ![c] = r]
  OBVIOUS
<1> HIDE DEF k
<1>3. /\ "none" \in {"none", "provision", "destroy", "status"}
      /\ "error" \in Outcomes
      /\ << >> \in Seq(Reported)
      /\ 1 \in Nat \ {0}
  <2>1. "none" \in {"none", "provision", "destroy", "status"}
    OBVIOUS
  <2>2. "error" \in Outcomes
    BY DEF Outcomes
  <2>3. << >> \in Seq(Reported)
    OBVIOUS
  <2>4. 1 \in Nat \ {0}
    OBVIOUS
  <2> QED BY <2>1, <2>2, <2>3, <2>4
<1>4. r \in Caller
  <2>1. [k EXCEPT !.op = "none"] \in Caller
    BY <1>3, <1>1, CallerUpdates
  <2>2. [k EXCEPT !.op = "none", !.outcome = "error"] \in Caller
    BY <1>3, <2>1, CallerUpdates
  <2>3. [k EXCEPT !.op = "none", !.outcome = "error", !.statuses = << >>] \in Caller
    BY <1>3, <2>2, CallerUpdates
  <2> QED BY <1>3, <2>3, CallerUpdates
<1>5. /\ r.op = "none"
      /\ r.outcome = "error"
      /\ r.statuses = << >>
      /\ r.i = 1
      /\ r.specs = k.specs
      /\ r.call = k.call
      /\ r.id = k.id
      /\ r.built = k.built
      /\ r.machines = k.machines
  BY <1>1 DEF Caller
<1> HIDE DEF r
<1>6. /\ caller' \in [Clusters -> Caller]
      /\ caller'[c] = r
      /\ \A e \in Clusters \ {c} : caller'[e] = caller[e]
  BY <1>1, <1>2, <1>4, Updated
<1> QED BY <1>5, <1>6 DEF k

LEMMA StatusReturnsMoves ==
  ASSUME InfraTyped, NEW c \in Clusters,
         StatusReturns(c)
  PROVE  /\ caller' \in [Clusters -> Caller]
         /\ \A e \in Clusters \ {c} : caller'[e] = caller[e]
         /\ caller'[c].op = "none"
         /\ caller'[c].outcome = "status"
         /\ caller'[c].i = 1
         /\ caller'[c].statuses = << >>
         /\ caller'[c].specs = caller[c].specs
         /\ caller'[c].call = caller[c].call
         /\ caller'[c].id = caller[c].id
         /\ caller'[c].built = caller[c].built
         /\ caller'[c].machines = caller[c].machines
<1> DEFINE k == caller[c]
           r == [k EXCEPT !.op = "none", !.outcome = "status", !.i = 1, !.statuses = << >>]
<1>1. caller \in [Clusters -> Caller] /\ k \in Caller
  BY DEF InfraTyped
<1>2. caller' = [caller EXCEPT ![c] = r]
  BY DEF StatusReturns
<1> HIDE DEF k
<1>3. /\ "none" \in {"none", "provision", "destroy", "status"}
      /\ "status" \in Outcomes
      /\ 1 \in Nat \ {0}
      /\ << >> \in Seq(Reported)
  <2>1. "none" \in {"none", "provision", "destroy", "status"}
    OBVIOUS
  <2>2. "status" \in Outcomes
    BY DEF Outcomes
  <2>3. 1 \in Nat \ {0}
    OBVIOUS
  <2>4. << >> \in Seq(Reported)
    OBVIOUS
  <2> QED BY <2>1, <2>2, <2>3, <2>4
<1>4. r \in Caller
  <2>1. [k EXCEPT !.op = "none"] \in Caller
    BY <1>3, <1>1, CallerUpdates
  <2>2. [k EXCEPT !.op = "none", !.outcome = "status"] \in Caller
    BY <1>3, <2>1, CallerUpdates
  <2>3. [k EXCEPT !.op = "none", !.outcome = "status", !.i = 1] \in Caller
    BY <1>3, <2>2, CallerUpdates
  <2> QED BY <1>3, <2>3, CallerUpdates
<1>5. /\ r.op = "none"
      /\ r.outcome = "status"
      /\ r.i = 1
      /\ r.statuses = << >>
      /\ r.specs = k.specs
      /\ r.call = k.call
      /\ r.id = k.id
      /\ r.built = k.built
      /\ r.machines = k.machines
  BY <1>1 DEF Caller
<1> HIDE DEF r
<1>6. /\ caller' \in [Clusters -> Caller]
      /\ caller'[c] = r
      /\ \A e \in Clusters \ {c} : caller'[e] = caller[e]
  BY <1>1, <1>2, <1>4, Updated
<1> QED BY <1>5, <1>6 DEF k

LEMMA Ids ==
  /\ IdsOf(<< >>) = {}
  /\ \A s \in Seq(Machine), m \in Machine : IdsOf(Append(s, m)) = IdsOf(s) \cup {m.id}
  /\ \A s \in Seq(Machine) : \A j \in DOMAIN s : s[j] \in Machine /\ s[j].id \in IdsOf(s)
<1>1. IdsOf(<< >>) = {}
  BY DEF IdsOf
<1>2. ASSUME NEW s \in Seq(Machine), NEW m \in Machine
      PROVE  IdsOf(Append(s, m)) = IdsOf(s) \cup {m.id}
  <2>1. DOMAIN Append(s, m) = DOMAIN s \cup {Len(s) + 1}
    OBVIOUS
  <2>2. Append(s, m)[Len(s) + 1] = m /\ \A j \in DOMAIN s : Append(s, m)[j] = s[j]
    OBVIOUS
  <2> DEFINE t == Append(s, m)
  <2>3. /\ DOMAIN t = DOMAIN s \cup {Len(s) + 1} /\ t[Len(s) + 1] = m
        /\ \A j \in DOMAIN s : t[j] = s[j]
    BY <2>1, <2>2
  <2> HIDE DEF t
  <2>4. IdsOf(t) = IdsOf(s) \cup {m.id}
    BY <2>3, Zenon DEF IdsOf
  <2> QED BY <2>4 DEF t
<1>3. ASSUME NEW s \in Seq(Machine), NEW j \in DOMAIN s
      PROVE  s[j] \in Machine /\ s[j].id \in IdsOf(s)
  BY DEF IdsOf
<1> QED BY <1>1, <1>2, <1>3

\* The call a caller is at.
LEMMA DoingCalls ==
  ASSUME InfraTyped, NEW c \in Clusters, PlaceFits(c)
  PROVE  /\ Len(ProvisionCalls) \in {1, 3} /\ Len(DestroyCalls) \in {1, 2}
         /\ \A what : Doing(c, "provision", ProvisionCalls, what) =>
              caller[c].op = "provision" /\ caller[c].i \in DOMAIN caller[c].specs
         /\ \A what : Doing(c, "destroy", DestroyCalls, what) =>
              caller[c].op = "destroy" /\ caller[c].i \in DOMAIN caller[c].machines
         /\ Doing(c, "provision", ProvisionCalls, "create") => caller[c].call = 1
         /\ Doing(c, "provision", ProvisionCalls, "start") =>
              caller[c].call = 2 /\ Len(ProvisionCalls) = 3
         /\ Doing(c, "provision", ProvisionCalls, "inspect") =>
              caller[c].call = 3 /\ Len(ProvisionCalls) = 3
         /\ Doing(c, "destroy", DestroyCalls, "stop") =>
              caller[c].call = 1 /\ Len(DestroyCalls) = 2
         /\ Doing(c, "destroy", DestroyCalls, "remove") => caller[c].call = Len(DestroyCalls)
<1>1. /\ caller[c].specs \in SpecLists /\ caller[c].i \in Nat \ {0}
      /\ caller[c].call \in Nat \ {0} /\ caller[c].machines \in Seq(Machine)
  BY CallerTyped
<1>2. caller[c].specs \in Seq({"control-plane", "worker"})
  BY <1>1, SpecsAssumption
<1>3. /\ caller[c].op = "provision" => caller[c].call <= Len(ProvisionCalls)
      /\ caller[c].op = "destroy" => caller[c].call <= Len(DestroyCalls)
  BY DEF PlaceFits
<1>4. /\ \A what : Doing(c, "provision", ProvisionCalls, what) =>
              caller[c].op = "provision" /\ caller[c].i \in DOMAIN caller[c].specs
      /\ \A what : Doing(c, "destroy", DestroyCalls, what) =>
              caller[c].op = "destroy" /\ caller[c].i \in DOMAIN caller[c].machines
  BY <1>1, <1>2 DEF Doing
<1>5. CASE provider = "docker"
  <2>1. ProvisionCalls = <<"create", "start", "inspect">> /\ DestroyCalls = <<"stop", "remove">>
    BY <1>5 DEF ProvisionCalls, DestroyCalls
  <2>2. /\ Doing(c, "provision", ProvisionCalls, "create") => caller[c].call = 1
        /\ Doing(c, "provision", ProvisionCalls, "start") => caller[c].call = 2
        /\ Doing(c, "provision", ProvisionCalls, "inspect") => caller[c].call = 3
    BY <1>1, <1>3, <2>1 DEF Doing
  <2>3. /\ Doing(c, "destroy", DestroyCalls, "stop") => caller[c].call = 1
        /\ Doing(c, "destroy", DestroyCalls, "remove") => caller[c].call = 2
    BY <1>1, <1>3, <2>1 DEF Doing
  <2>4. Len(ProvisionCalls) = 3 /\ Len(DestroyCalls) = 2
    BY <2>1
  <2> QED BY <1>4, <2>2, <2>3, <2>4
<1>6. CASE provider # "docker"
  <2>1. ProvisionCalls = <<"create">> /\ DestroyCalls = <<"remove">>
    BY <1>6 DEF ProvisionCalls, DestroyCalls
  <2>2. /\ Doing(c, "provision", ProvisionCalls, "create") => caller[c].call = 1
        /\ ~Doing(c, "provision", ProvisionCalls, "start")
        /\ ~Doing(c, "provision", ProvisionCalls, "inspect")
    BY <1>1, <1>3, <2>1 DEF Doing
  <2>3. /\ ~Doing(c, "destroy", DestroyCalls, "stop")
        /\ Doing(c, "destroy", DestroyCalls, "remove") => caller[c].call = 1
    BY <1>1, <1>3, <2>1 DEF Doing
  <2>4. Len(ProvisionCalls) = 1 /\ Len(DestroyCalls) = 1
    BY <2>1
  <2> QED BY <1>4, <2>2, <2>3, <2>4
<1> QED BY <1>5, <1>6

-----------------------------------------------------------------------------
(* What a step of one caller leaves of the rest.                           *)

\* One machine more at most, of a new name; none less but the caller's.
ServiceStep(c) ==
  /\ DOMAIN service' \subseteq DOMAIN service \cup {made + 1}
  /\ DOMAIN service \ Owned(c) \subseteq DOMAIN service'
  /\ \A d \in DOMAIN service \cap DOMAIN service' : service'[d].name = service[d].name
  /\ made + 1 \in DOMAIN service' =>
       \A d \in DOMAIN service : service[d].name # service'[made + 1].name

\* The orphans grow by machines of the caller, and by none it keeps.
OrphansStep(c) ==
  /\ orphans \subseteq orphans'
  /\ orphans' \subseteq orphans \cup Owned(c) \cup {made + 1}

OwnedStep(c) ==
  /\ Owned(c)' \subseteq Owned(c) \cup {made + 1}
  /\ \A d \in DOMAIN service' : d \in Owned(c) \cup {made + 1} => d \in orphans' \cup Owned(c)'

OthersSame(c) ==
  /\ \A e \in Clusters \ {c} : caller'[e] = caller[e] /\ found'[e] = found[e]
  /\ provider' = provider

LEMMA OthersKeep ==
  ASSUME InfraInv, NEW c \in Clusters, NEW e \in Clusters \ {c},
         OthersSame(c), made' = made \/ made' = made + 1, ServiceStep(c), OrphansStep(c)
  PROVE  CallerFits(e)'
<1>1. caller'[e] = caller[e] /\ found'[e] = found[e] /\ provider' = provider
  BY DEF OthersSame
<1>2. made \in Nat /\ DOMAIN service \subseteq 1 .. made
  BY DEF InfraInv, InfraTyped
<1>3. Owned(e) \cap Owned(c) = {} /\ Owned(e) \subseteq (1 .. made) \ orphans
  BY DEF InfraInv, Disjoint, CallerFits, OwnedFits
<1>4. made + 1 \notin Owned(e)
  BY <1>2, <1>3
<1>5. PlaceFits(e)'
  <2>1. PlaceFits(e)
    BY DEF InfraInv, CallerFits
  <2>2. Len(ProvisionCalls)' = Len(ProvisionCalls) /\ Len(DestroyCalls)' = Len(DestroyCalls)
    BY <1>1 DEF ProvisionCalls, DestroyCalls
  <2> QED BY <1>1, <2>1, <2>2 DEF PlaceFits
<1>6. OwnedFits(e)'
  <2>1. Owned(e)' = Owned(e)
    BY <1>1 DEF Owned
  <2>2. Owned(e) \cap orphans' = {}
    BY <1>3, <1>4 DEF OrphansStep
  <2>3. 1 .. made \subseteq (1 .. made)'
    BY <1>2
  <2> QED BY <1>3, <2>1, <2>2, <2>3 DEF OwnedFits
<1>7. \A d \in Owned(e) :
        /\ d \in DOMAIN service' <=> d \in DOMAIN service
        /\ d \in DOMAIN service => service'[d].name = service[d].name
  BY <1>3, <1>4 DEF ServiceStep
<1>8. BuiltFits(e)'
  <2>1. BuiltFits(e)
    BY DEF InfraInv, CallerFits
  <2>2. \A j \in DOMAIN caller[e].built : caller[e].built[j].id \in Owned(e)
    BY DEF Owned, IdsOf
  <2>3. caller[e].id # 0 => caller[e].id \in Owned(e)
    BY DEF Owned
  <2> QED BY <1>1, <1>7, <2>1, <2>2, <2>3 DEF BuiltFits
<1>9. DestroyFits(e)'
  <2>1. DestroyFits(e)
    BY DEF InfraInv, CallerFits
  <2>2. IdsOf(caller[e].machines) \subseteq Owned(e)
    BY DEF Owned
  <2>3. \A j \in DOMAIN caller[e].machines : caller[e].machines[j].id \in Owned(e)
    BY <2>2 DEF IdsOf
  <2> QED BY <1>1, <1>7, <2>1, <2>2, <2>3 DEF DestroyFits
<1> QED BY <1>5, <1>6, <1>8, <1>9 DEF CallerFits

LEMMA StepFits ==
  ASSUME InfraInv, NEW c \in Clusters, InfraTyped', CallerFits(c)',
         OthersSame(c), made' = made \/ made' = made + 1,
         ServiceStep(c), OrphansStep(c), OwnedStep(c)
  PROVE  InfraInv'
<1>1. made \in Nat /\ DOMAIN service \subseteq 1 .. made /\ made + 1 \notin DOMAIN service
  BY DEF InfraInv, InfraTyped
<1>2. \A e \in Clusters : CallerFits(e)'
  BY OthersKeep
<1>3. \A e \in Clusters \ {c} : Owned(e)' = Owned(e) /\ made + 1 \notin Owned(e)
  <2> TAKE e \in Clusters \ {c}
  <2>1. Owned(e)' = Owned(e)
    BY DEF OthersSame, Owned
  <2>2. Owned(e) \subseteq 1 .. made
    BY DEF InfraInv, CallerFits, OwnedFits
  <2> QED BY <1>1, <2>1, <2>2
<1>4. Disjoint'
  <2> SUFFICES ASSUME NEW d \in Clusters, NEW e \in Clusters, d # e
               PROVE  Owned(d)' \cap Owned(e)' = {}
    BY DEF Disjoint
  <2>1. Owned(d) \cap Owned(e) = {}
    BY DEF InfraInv, Disjoint
  <2>2. Owned(c)' \subseteq Owned(c) \cup {made + 1}
    BY DEF OwnedStep
  <2> QED BY <1>3, <2>1, <2>2
<1>5. Accounted'
  <2> SUFFICES ASSUME NEW d \in DOMAIN service'
               PROVE  d \in orphans' \/ \E e \in Clusters : d \in Owned(e)'
    BY DEF Accounted
  <2>1. CASE d \in Owned(c) \cup {made + 1}
    BY <2>1 DEF OwnedStep
  <2>2. CASE d \notin Owned(c) \cup {made + 1}
    <3>1. d \in DOMAIN service
      BY <2>2 DEF ServiceStep
    <3>2. d \in orphans \/ \E e \in Clusters : d \in Owned(e)
      BY <3>1 DEF InfraInv, Accounted
    <3> QED BY <1>3, <2>2, <3>2 DEF OrphansStep
  <2> QED BY <2>1, <2>2
<1>6. NamesDiffer'
  <2> SUFFICES ASSUME NEW d \in DOMAIN service', NEW e \in DOMAIN service',
                      service'[d].name = service'[e].name
               PROVE  d = e
    BY DEF NamesDiffer
  <2>1. CASE d \in DOMAIN service /\ e \in DOMAIN service
    BY <2>1 DEF InfraInv, NamesDiffer, ServiceStep
  <2>2. CASE d = made + 1 \/ e = made + 1
    BY <1>1, <2>2 DEF ServiceStep
  <2> QED BY <2>1, <2>2 DEF ServiceStep
<1> QED BY <1>2, <1>4, <1>5, <1>6 DEF InfraInv

-----------------------------------------------------------------------------
(* What the calls do to the service.                                       *)

ServiceTyped ==
  /\ service \in [DOMAIN service -> [name : Names, status : Statuses]]
  /\ DOMAIN service \subseteq 1 .. made

LEMMA ServiceAdds ==
  ASSUME InfraTyped, NEW name \in Names, made' = made + 1,
         service' = With(made + 1, name)
  PROVE  /\ ServiceTyped'
         /\ DOMAIN service' = DOMAIN service \cup {made + 1} /\ made + 1 \notin DOMAIN service
         /\ service'[made + 1].name = name
         /\ \A d \in DOMAIN service : service'[d] = service[d]
<1> DEFINE m == made + 1
           x == [name |-> name, status |-> "created"]
           t == [e \in DOMAIN service \cup {m} |-> IF e = m THEN x ELSE service[e]]
<1>1. /\ made \in Nat /\ service \in [DOMAIN service -> [name : Names, status : Statuses]]
      /\ DOMAIN service \subseteq 1 .. made
  BY DEF InfraTyped
<1>2. m \notin DOMAIN service /\ DOMAIN service \cup {m} \subseteq 1 .. m
  BY <1>1
<1>3. x \in [name : Names, status : Statuses] /\ x.name = name
  BY DEF Statuses
<1>4. service' = t
  BY DEF With
<1> HIDE DEF x
<1>5. t \in [DOMAIN service \cup {m} -> [name : Names, status : Statuses]]
  BY <1>1, <1>3
<1>6. DOMAIN t = DOMAIN service \cup {m} /\ t[m] = x /\ \A d \in DOMAIN service : t[d] = service[d]
  BY <1>2
<1> HIDE DEF t, m
<1>7. service' \in [DOMAIN service' -> [name : Names, status : Statuses]]
  BY <1>4, <1>5, <1>6
<1>8. DOMAIN service' \subseteq 1 .. made'
  BY <1>2, <1>4, <1>6 DEF m
<1> QED BY <1>2, <1>3, <1>4, <1>6, <1>7, <1>8 DEF ServiceTyped, m

LEMMA ServiceChanges ==
  ASSUME InfraTyped, NEW d \in DOMAIN service, NEW s \in Statuses, made' = made,
         service' = [service EXCEPT ![d].status = s]
  PROVE  /\ ServiceTyped'
         /\ DOMAIN service' = DOMAIN service
         /\ \A e \in DOMAIN service : service'[e].name = service[e].name
<1>1. /\ made \in Nat /\ service \in [DOMAIN service -> [name : Names, status : Statuses]]
      /\ DOMAIN service \subseteq 1 .. made
  BY DEF InfraTyped
<1> DEFINE x == [service[d] EXCEPT !.status = s]
<1>2. x \in [name : Names, status : Statuses] /\ x.name = service[d].name
  BY <1>1
<1>3. service' = [service EXCEPT ![d] = x]
  OBVIOUS
<1> HIDE DEF x
<1>4. service' \in [DOMAIN service -> [name : Names, status : Statuses]]
  BY <1>1, <1>2, <1>3
<1>5. \A e \in DOMAIN service : service'[e].name = service[e].name
  BY <1>1, <1>2, <1>3
<1>6. DOMAIN service' = DOMAIN service
  BY <1>3
<1> QED BY <1>1, <1>4, <1>5, <1>6 DEF ServiceTyped

LEMMA ServiceLoses ==
  ASSUME InfraTyped, NEW d \in DOMAIN service, made' = made, service' = Without(d)
  PROVE  /\ ServiceTyped'
         /\ DOMAIN service' = DOMAIN service \ {d}
         /\ \A e \in DOMAIN service' : service'[e] = service[e]
<1>1. /\ made \in Nat /\ service \in [DOMAIN service -> [name : Names, status : Statuses]]
      /\ DOMAIN service \subseteq 1 .. made
  BY DEF InfraTyped
<1>2. /\ DOMAIN service' = DOMAIN service \ {d}
      /\ \A e \in DOMAIN service' : service'[e] = service[e]
      /\ service' \in [DOMAIN service \ {d} -> [name : Names, status : Statuses]]
  BY <1>1 DEF Without
<1> QED BY <1>1, <1>2 DEF ServiceTyped

-----------------------------------------------------------------------------
(* Where a caller is after its step.                                       *)

LEMMA TypedStep ==
  ASSUME InfraTyped, NEW c \in Clusters, caller' \in [Clusters -> Caller], provider' = provider,
         made' = made \/ made' = made + 1, ServiceTyped', orphans' \subseteq 1 .. made',
         found' \in [Clusters -> SUBSET Nat]
  PROVE  InfraTyped'
<1>1. made' \in Nat
  BY DEF InfraTyped
<1> QED BY <1>1 DEF InfraTyped, ServiceTyped

LEMMA IdleFits ==
  ASSUME NEW c \in Clusters, caller'[c].op = "none", caller'[c].built = << >>,
         caller'[c].id = 0, caller'[c].i = 1, caller'[c].call = 1,
         IdsOf(caller'[c].machines) \subseteq (1 .. made') \ orphans'
  PROVE  CallerFits(c)' /\ Owned(c)' = IdsOf(caller'[c].machines)
<1>1. Owned(c)' = IdsOf(caller'[c].machines)
  BY Ids DEF Owned
<1>2. PlaceFits(c)' /\ BuiltFits(c)' /\ DestroyFits(c)'
  BY DEF PlaceFits, BuiltFits, DestroyFits
<1>3. OwnedFits(c)'
  BY <1>1 DEF OwnedFits
<1> QED BY <1>1, <1>2, <1>3 DEF CallerFits

\* A caller that asks for the status: only the place matters.
LEMMA AskingFits ==
  ASSUME NEW c \in Clusters, caller'[c].op = "status", caller'[c].built = << >>,
         caller'[c].id = 0, caller'[c].call = 1, caller'[c].outcome = "none",
         IdsOf(caller'[c].machines) \subseteq (1 .. made') \ orphans'
  PROVE  CallerFits(c)' /\ Owned(c)' = IdsOf(caller'[c].machines)
<1>1. Owned(c)' = IdsOf(caller'[c].machines)
  BY Ids DEF Owned
<1>2. PlaceFits(c)' /\ BuiltFits(c)' /\ DestroyFits(c)'
  BY DEF PlaceFits, BuiltFits, DestroyFits
<1>3. OwnedFits(c)'
  BY <1>1 DEF OwnedFits
<1> QED BY <1>1, <1>2, <1>3 DEF CallerFits

LEMMA ProvisionFailsFits ==
  ASSUME InfraInv, NEW c \in Clusters, NEW extra, ProvisionFails(c, extra),
         caller[c].op = "provision"
  PROVE  /\ caller' \in [Clusters -> Caller] /\ OthersSame(c) /\ found' = found
         /\ orphans' = orphans \cup Owned(c) \cup extra
         /\ Owned(c)' = {} /\ CallerFits(c)'
         /\ caller'[c].outcome = "error"
<1>1. InfraTyped /\ caller[c].machines = << >>
  BY DEF InfraInv, CallerFits, PlaceFits
<1>2. Return(c, "error") /\ "error" \in Outcomes /\ provider' = provider /\ found' = found
  BY DEF ProvisionFails, Outcomes
<1>3. /\ caller' \in [Clusters -> Caller]
      /\ \A e \in Clusters \ {c} : caller'[e] = caller[e]
      /\ caller'[c].op = "none" /\ caller'[c].built = << >> /\ caller'[c].id = 0
      /\ caller'[c].i = 1 /\ caller'[c].call = 1
      /\ caller'[c].machines = caller[c].machines
      /\ caller'[c].outcome = "error"
  BY <1>1, <1>2, ReturnMoves
<1>4. IdsOf(caller'[c].machines) = {} /\ IdsOf(caller[c].machines) = {}
  BY <1>1, <1>3, Ids
<1>5. CallerFits(c)' /\ Owned(c)' = {}
  BY <1>3, <1>4, IdleFits
<1>6. orphans' = orphans \cup Owned(c) \cup extra
  BY <1>4 DEF ProvisionFails, Owned
<1> QED BY <1>2, <1>3, <1>5, <1>6 DEF OthersSame

LEMMA ProvisionedFits ==
  ASSUME InfraInv, NEW c \in Clusters, NEW d \in Nat \ {0}, Provisioned(c, d),
         caller[c].op = "provision", caller[c].i \in DOMAIN caller[c].specs,
         caller[c].id \in {0, d}, caller[c].call \in 1 .. Len(ProvisionCalls),
         provider' = provider, found' = found, orphans' = orphans,
         DOMAIN service \subseteq DOMAIN service',
         made \in Nat, made' = made \/ made' = made + 1,
         \A e \in DOMAIN service : service'[e].name = service[e].name,
         d \in DOMAIN service', d \in (1 .. made') \ orphans,
         service'[d].name = MachineName(caller[c].specs, caller[c].i)
  PROVE  /\ caller' \in [Clusters -> Caller] /\ OthersSame(c)
         /\ Owned(c)' = Owned(c) \cup {d} /\ CallerFits(c)'
         /\ caller'[c].outcome = "none"
<1> DEFINE m == [id |-> d, name |-> MachineName(caller[c].specs, caller[c].i)]
<1>1. InfraTyped /\ CallerFits(c)
  BY DEF InfraInv
<1>2. /\ caller[c].specs \in SpecLists /\ caller[c].i \in Nat \ {0} /\ caller[c].call \in Nat \ {0}
      /\ caller[c].built \in Seq(Machine) /\ caller[c].machines \in Seq(Machine)
  BY <1>1, CallerTyped
<1>3. m \in Machine /\ m.id = d /\ m.name = MachineName(caller[c].specs, caller[c].i)
  <2>1. MachineName(caller[c].specs, caller[c].i) \in Names
    BY <1>2, CallerParts
  <2> QED BY <2>1 DEF Machine
<1> HIDE DEF m
<1>4. /\ caller[c].machines = << >> /\ Len(caller[c].built) = caller[c].i - 1
      /\ caller[c].outcome = "none"
      /\ caller[c].i <= Len(caller[c].specs) + 1
      /\ caller[c].specs \in Seq({"control-plane", "worker"})
  BY <1>1, <1>2, CallerParts DEF CallerFits, PlaceFits
<1>5. Len(ProvisionCalls)' = Len(ProvisionCalls) /\ Len(ProvisionCalls) \in {1, 3}
  BY <1>1, DoingCalls DEF ProvisionCalls, CallerFits
<1>6. Owned(c) \subseteq (1 .. made') \ orphans'
  BY <1>1 DEF CallerFits, OwnedFits
<1>7. CASE caller[c].call < Len(ProvisionCalls)
  <2>1. /\ caller' \in [Clusters -> Caller]
        /\ \A e \in Clusters \ {c} : caller'[e] = caller[e]
        /\ caller'[c].call = caller[c].call + 1 /\ caller'[c].id = d
        /\ caller'[c].op = caller[c].op /\ caller'[c].specs = caller[c].specs
        /\ caller'[c].i = caller[c].i /\ caller'[c].built = caller[c].built
        /\ caller'[c].machines = caller[c].machines
        /\ caller'[c].outcome = caller[c].outcome
    BY <1>1, <1>7, NextCallMoves
  <2>2. Owned(c)' = Owned(c) \cup {d}
    BY <2>1 DEF Owned
  <2>3. PlaceFits(c)'
    <3>1. caller[c].call + 1 <= Len(ProvisionCalls)' /\ caller[c].call + 1 # 1
      BY <1>2, <1>5, <1>7
    <3>2. caller[c].i # Len(caller[c].specs) + 1
      BY <1>2, <1>4
    <3> QED BY <1>2, <1>4, <2>1, <3>1, <3>2 DEF PlaceFits
  <2>4. BuiltFits(c)'
    <3>1. BuiltFits(c)
      BY <1>1 DEF CallerFits
    <3> QED BY <2>1, <3>1 DEF BuiltFits
  <2>5. OwnedFits(c)' /\ DestroyFits(c)'
    BY <1>6, <2>1, <2>2 DEF OwnedFits, DestroyFits
  <2> QED BY <1>4, <2>1, <2>2, <2>3, <2>4, <2>5 DEF CallerFits, OthersSame
<1>8. CASE ~(caller[c].call < Len(ProvisionCalls))
  <2>1. /\ caller' \in [Clusters -> Caller]
        /\ \A e \in Clusters \ {c} : caller'[e] = caller[e]
        /\ caller'[c].call = 1 /\ caller'[c].id = 0 /\ caller'[c].i = caller[c].i + 1
        /\ caller'[c].built = Append(caller[c].built, m)
        /\ caller'[c].op = caller[c].op /\ caller'[c].specs = caller[c].specs
        /\ caller'[c].machines = caller[c].machines
        /\ caller'[c].outcome = caller[c].outcome
    BY <1>1, <1>8, BuiltMoves DEF m
  <2>2. Owned(c)' = Owned(c) \cup {d}
    <3>1. IdsOf(caller'[c].built) = IdsOf(caller[c].built) \cup {d}
      BY <1>2, <1>3, <2>1, Ids
    <3> QED BY <2>1, <3>1 DEF Owned
  <2>3. PlaceFits(c)'
    <3>1. Len(caller'[c].built) = Len(caller[c].built) + 1
      BY <1>2, <1>3, <2>1, Appended
    <3>2. Len(caller'[c].built) = caller[c].i + 1 - 1
      BY <1>2, <1>4, <3>1
    <3>3. caller[c].i + 1 <= Len(caller[c].specs) + 1
      <4>1. Len(caller[c].specs) \in Nat /\ caller[c].i <= Len(caller[c].specs)
        BY <1>2, <1>4
      <4> QED BY <1>2, <4>1
    <3>4. 1 <= Len(ProvisionCalls)'
      BY <1>5
    <3> QED BY <1>4, <2>1, <3>2, <3>3, <3>4 DEF PlaceFits
  <2>4. BuiltFits(c)'
    <3>1. BuiltFits(c)
      BY <1>1 DEF CallerFits
    <3> DEFINE b == caller'[c].built
    <3>2. /\ DOMAIN b = 1 .. Len(caller[c].built) + 1 /\ b[Len(caller[c].built) + 1] = m
          /\ \A j \in DOMAIN caller[c].built : b[j] = caller[c].built[j]
      BY <1>2, <1>3, <2>1, Appended
    <3>3. /\ Len(caller[c].built) + 1 = caller[c].i
          /\ DOMAIN caller[c].built = 1 .. Len(caller[c].built)
      BY <1>2, <1>4
    <3>4. DOMAIN b = DOMAIN caller[c].built \cup {caller[c].i}
      BY <1>2, <3>2, <3>3
    <3> HIDE DEF b
    <3>5. \A j \in DOMAIN b :
            /\ b[j].id \in DOMAIN service'
            /\ service'[b[j].id].name = MachineName(caller[c].specs, j)
      <4> TAKE j \in DOMAIN b
      <4>1. CASE j = caller[c].i
        BY <1>3, <3>2, <3>3, <4>1
      <4>2. CASE j \in DOMAIN caller[c].built
        BY <3>1, <3>2, <4>2 DEF BuiltFits
      <4> QED BY <3>4, <4>1, <4>2
    <3> QED BY <2>1, <3>5 DEF BuiltFits, b
  <2>5. OwnedFits(c)' /\ DestroyFits(c)'
    BY <1>6, <2>1, <2>2 DEF OwnedFits, DestroyFits
  <2> QED BY <1>4, <2>1, <2>2, <2>3, <2>4, <2>5 DEF CallerFits, OthersSame
<1> QED BY <1>7, <1>8

-----------------------------------------------------------------------------
(* The steps that leave the service alone.                                 *)

LEMMA QuietStep ==
  ASSUME InfraInv, NEW c \in Clusters, caller' \in [Clusters -> Caller],
         \A e \in Clusters \ {c} : caller'[e] = caller[e] /\ found'[e] = found[e],
         found' \in [Clusters -> SUBSET Nat],
         provider' = provider, service' = service, made' = made, orphans' = orphans,
         CallerFits(c)', Owned(c)' \subseteq Owned(c),
         \A d \in DOMAIN service : d \in Owned(c) => d \in Owned(c)'
  PROVE  InfraInv'
<1>1. /\ made \in Nat /\ DOMAIN service \subseteq 1 .. made /\ orphans \subseteq 1 .. made
      /\ InfraTyped /\ ServiceTyped
  BY DEF InfraInv, InfraTyped, ServiceTyped
<1>2. ServiceTyped'
  BY <1>1 DEF ServiceTyped
<1>3. InfraTyped'
  BY <1>1, <1>2, TypedStep
<1>4. ServiceStep(c) /\ OrphansStep(c) /\ OwnedStep(c) /\ OthersSame(c)
  BY <1>1 DEF ServiceStep, OrphansStep, OwnedStep, OthersSame
<1> QED BY <1>3, <1>4, StepFits

LEMMA CallProvisionFits ==
  ASSUME InfraInv, NEW c \in Clusters, CallProvision(c)
  PROVE  InfraInv'
<1>1. /\ caller[c].op = "none" /\ caller[c].machines = << >> /\ PlaceFits(c) /\ InfraTyped
      /\ OwnedFits(c)
  BY DEF CallProvision, InfraInv, CallerFits
<1>2. caller[c].built = << >> /\ caller[c].id = 0 /\ caller[c].i = 1 /\ caller[c].call = 1
  BY <1>1 DEF PlaceFits
<1>3. PICK specs \in SpecLists :
        caller' = [caller EXCEPT ![c] =
                     [@ EXCEPT !.op = "provision", !.specs = specs, !.outcome = "none"]]
  BY DEF CallProvision
<1>4. /\ caller' \in [Clusters -> Caller]
      /\ \A e \in Clusters \ {c} : caller'[e] = caller[e]
      /\ caller'[c].op = "provision" /\ caller'[c].specs = specs
      /\ caller'[c].i = caller[c].i /\ caller'[c].call = caller[c].call
      /\ caller'[c].id = caller[c].id /\ caller'[c].built = caller[c].built
      /\ caller'[c].machines = caller[c].machines /\ caller'[c].outcome = "none"
  BY <1>1, <1>3, CallProvisionMoves
<1>5. Owned(c)' = {} /\ Owned(c) = {}
  BY <1>1, <1>2, <1>4, Ids DEF Owned
<1>6. PlaceFits(c)'
  <2>1. specs \in Seq({"control-plane", "worker"}) /\ specs # << >>
    BY CallerParts
  <2>2. Len(specs) \in Nat /\ Len(specs) # 0
    BY <2>1
  <2>3. Len(ProvisionCalls)' \in {1, 3}
    <3>1. provider' = provider /\ Len(ProvisionCalls) \in {1, 3}
      BY <1>1, DoingCalls DEF CallProvision
    <3> QED BY <3>1 DEF ProvisionCalls
  <2>4. Len(<< >>) = 0
    OBVIOUS
  <2>5. 1 <= Len(ProvisionCalls)' /\ 1 <= Len(specs) + 1 /\ 1 # Len(specs) + 1 /\ 0 = 1 - 1
    BY <2>2, <2>3
  <2> QED BY <1>1, <1>2, <1>4, <2>4, <2>5 DEF PlaceFits
<1>7. BuiltFits(c)' /\ DestroyFits(c)' /\ OwnedFits(c)'
  BY <1>2, <1>4, <1>5 DEF BuiltFits, DestroyFits, OwnedFits
<1>8. CallerFits(c)'
  BY <1>6, <1>7 DEF CallerFits
<1>9. /\ provider' = provider /\ service' = service /\ made' = made /\ orphans' = orphans
      /\ found' = found /\ found \in [Clusters -> SUBSET Nat]
  BY <1>1 DEF CallProvision, InfraTyped
<1> QED BY <1>4, <1>5, <1>8, <1>9, QuietStep

LEMMA ProvisionReturnsFits ==
  ASSUME InfraInv, NEW c \in Clusters, ProvisionReturns(c)
  PROVE  InfraInv'
<1>1. /\ caller[c].op = "provision" /\ caller[c].i > Len(caller[c].specs) /\ PlaceFits(c)
      /\ InfraTyped /\ OwnedFits(c)
  BY DEF ProvisionReturns, InfraInv, CallerFits
<1>2. caller[c].machines = << >> /\ caller[c].call = 1 /\ caller[c].id = 0
  <2>1. caller[c].i \in Nat /\ Len(caller[c].specs) \in Nat
    <3>1. caller[c].specs \in SpecLists /\ caller[c].i \in Nat
      BY <1>1, CallerTyped
    <3>2. caller[c].specs \in Seq({"control-plane", "worker"})
      BY <3>1, CallerParts
    <3> QED BY <3>1, <3>2
  <2> QED BY <1>1, <2>1 DEF PlaceFits
<1>3. /\ caller' \in [Clusters -> Caller]
      /\ \A e \in Clusters \ {c} : caller'[e] = caller[e]
      /\ caller'[c].op = "none" /\ caller'[c].built = << >> /\ caller'[c].i = 1
      /\ caller'[c].call = caller[c].call /\ caller'[c].id = caller[c].id
      /\ caller'[c].machines = caller[c].built
  BY <1>1, ProvisionReturnsMoves
<1>4. /\ provider' = provider /\ service' = service /\ made' = made /\ orphans' = orphans
      /\ found' = found /\ found \in [Clusters -> SUBSET Nat]
  BY <1>1 DEF ProvisionReturns, InfraTyped
<1>5. Owned(c) = IdsOf(caller[c].built)
  BY <1>2, Ids DEF Owned
<1>6. CallerFits(c)' /\ Owned(c)' = IdsOf(caller[c].built)
  BY <1>1, <1>2, <1>3, <1>4, <1>5, IdleFits DEF OwnedFits
<1> QED BY <1>3, <1>4, <1>5, <1>6, QuietStep

LEMMA CallDestroyFits ==
  ASSUME InfraInv, NEW c \in Clusters, CallDestroy(c)
  PROVE  InfraInv'
<1>1. /\ caller[c].op = "none" /\ PlaceFits(c) /\ InfraTyped /\ OwnedFits(c)
      /\ caller[c].machines \in Seq(Machine)
  BY CallerTyped DEF CallDestroy, InfraInv, CallerFits
<1>2. caller[c].built = << >> /\ caller[c].id = 0 /\ caller[c].i = 1 /\ caller[c].call = 1
  BY <1>1 DEF PlaceFits
<1>3. /\ caller' \in [Clusters -> Caller]
      /\ \A e \in Clusters \ {c} : caller'[e] = caller[e]
      /\ caller'[c].op = "destroy" /\ caller'[c].specs = caller[c].specs
      /\ caller'[c].i = caller[c].i /\ caller'[c].call = caller[c].call
      /\ caller'[c].id = caller[c].id /\ caller'[c].built = caller[c].built
      /\ caller'[c].machines = caller[c].machines /\ caller'[c].outcome = "none"
  BY <1>1, CallDestroyMoves
<1>4. Owned(c)' = Owned(c)
  BY <1>3 DEF Owned
<1>5. PlaceFits(c)'
  <2>1. Len(DestroyCalls)' \in {1, 2}
    <3>1. provider' = provider /\ Len(DestroyCalls) \in {1, 2}
      BY <1>1, DoingCalls DEF CallDestroy
    <3> QED BY <3>1 DEF DestroyCalls
  <2>2. Len(caller[c].machines) \in Nat
    BY <1>1
  <2>3. 1 <= Len(DestroyCalls)' /\ 1 <= Len(caller[c].machines) + 1
    <3>1. 1 <= Len(DestroyCalls)'
      BY <2>1
    <3>2. \A n \in Nat : 1 <= n + 1
      OBVIOUS
    <3> QED BY <2>2, <3>1, <3>2
  <2> QED BY <1>2, <1>3, <2>3 DEF PlaceFits
<1>6. /\ provider' = provider /\ service' = service /\ made' = made /\ orphans' = orphans
      /\ found' = [found EXCEPT ![c] = IdsOf(caller[c].machines) \cap DOMAIN service]
      /\ found \in [Clusters -> SUBSET Nat] /\ DOMAIN service \subseteq Nat
  BY <1>1 DEF CallDestroy, InfraTyped
<1>7. /\ found' \in [Clusters -> SUBSET Nat]
      /\ found'[c] = IdsOf(caller[c].machines) \cap DOMAIN service
      /\ \A e \in Clusters \ {c} : found'[e] = found[e]
  BY <1>6
<1>8. DestroyFits(c)'
  <2>1. \A j \in DOMAIN caller[c].machines : ~(j < 1)
    BY <1>1
  <2> QED BY <1>2, <1>3, <1>6, <1>7, <2>1 DEF DestroyFits
<1>9. BuiltFits(c)' /\ OwnedFits(c)'
  BY <1>1, <1>3, <1>4, <1>6 DEF BuiltFits, OwnedFits
<1>10. CallerFits(c)'
  BY <1>5, <1>8, <1>9 DEF CallerFits
<1> QED BY <1>3, <1>4, <1>6, <1>7, <1>10, QuietStep

LEMMA DestroyReturnsFits ==
  ASSUME InfraInv, NEW c \in Clusters, DestroyReturns(c)
  PROVE  /\ InfraInv'
         /\ IdsOf(caller[c].machines) = found[c]
         /\ IdsOf(caller[c].machines) \cap DOMAIN service' = {}
<1>1. /\ caller[c].op = "destroy" /\ caller[c].i > Len(caller[c].machines) /\ PlaceFits(c)
      /\ InfraTyped /\ DestroyFits(c) /\ caller[c].machines \in Seq(Machine)
      /\ caller[c].i \in Nat
  BY CallerTyped DEF DestroyReturns, InfraInv, CallerFits
<1>2. caller[c].built = << >> /\ caller[c].call = 1 /\ caller[c].id = 0
  <2>1. caller[c].i = Len(caller[c].machines) + 1
    BY <1>1 DEF PlaceFits
  <2> QED BY <1>1, <2>1 DEF PlaceFits
<1>3. IdsOf(caller[c].machines) \subseteq found[c] \ DOMAIN service
  <2>1. \A j \in DOMAIN caller[c].machines : j < caller[c].i
    BY <1>1
  <2> QED BY <1>1, <2>1 DEF DestroyFits, IdsOf
<1>4. /\ caller' \in [Clusters -> Caller]
      /\ \A e \in Clusters \ {c} : caller'[e] = caller[e]
      /\ caller'[c].op = "none" /\ caller'[c].built = caller[c].built /\ caller'[c].i = 1
      /\ caller'[c].call = caller[c].call /\ caller'[c].id = caller[c].id
      /\ caller'[c].machines = << >>
  BY <1>1, DestroyReturnsMoves
<1>5. /\ provider' = provider /\ service' = service /\ made' = made /\ orphans' = orphans
      /\ found' = found /\ found \in [Clusters -> SUBSET Nat]
  BY <1>1 DEF DestroyReturns, InfraTyped
<1>6. Owned(c) = IdsOf(caller[c].machines)
  BY <1>2, Ids DEF Owned
<1>7. IdsOf(caller'[c].machines) = {}
  BY <1>4, Ids
<1>8. CallerFits(c)' /\ Owned(c)' = {}
  BY <1>2, <1>4, <1>7, IdleFits
<1>9. InfraInv'
  BY <1>3, <1>4, <1>5, <1>6, <1>8, QuietStep
<1> QED BY <1>1, <1>3, <1>5, <1>9 DEF DestroyFits

LEMMA StatusFits ==
  ASSUME InfraInv, NEW c \in Clusters, CallStatus(c) \/ InspectStatus(c) \/ StatusReturns(c)
  PROVE  InfraInv'
<1>1. /\ caller[c].op \in {"none", "status"} /\ PlaceFits(c) /\ InfraTyped /\ OwnedFits(c)
  BY DEF CallStatus, InspectStatus, StatusReturns, InfraInv, CallerFits
<1>2. caller[c].built = << >> /\ caller[c].id = 0 /\ caller[c].call = 1
  BY <1>1 DEF PlaceFits
<1>3. /\ caller' \in [Clusters -> Caller]
      /\ \A e \in Clusters \ {c} : caller'[e] = caller[e]
      /\ \/ caller'[c].op = "status" /\ caller'[c].outcome = "none"
         \/ caller'[c].op = "none" /\ caller'[c].i = 1
      /\ caller'[c].built = caller[c].built
      /\ caller'[c].call = caller[c].call /\ caller'[c].id = caller[c].id
      /\ caller'[c].machines = caller[c].machines
  <2>1. CASE CallStatus(c)
    BY <1>1, <2>1, CallStatusMoves
  <2>2. CASE StatusReturns(c)
    BY <1>1, <2>2, StatusReturnsMoves
  <2>3. CASE InspectStatus(c)
    <3>1. caller[c].op = "status" /\ caller[c].outcome = "none"
      BY <1>1, <2>3 DEF InspectStatus, PlaceFits
    <3> DEFINE s == mapStatus(service[Held(c)].status)
    <3>2. s \in Reported
      BY DEF mapStatus, Reported
    <3>3. \/ caller' = [caller EXCEPT ![c] =
               [caller[c] EXCEPT !.i = @ + 1, !.statuses = Append(@, s)]]
          \/ caller' = [caller EXCEPT ![c] =
               [@ EXCEPT !.op = "none", !.outcome = "error", !.statuses = << >>, !.i = 1]]
      BY <2>3 DEF InspectStatus
    <3> HIDE DEF s
    <3> QED BY <1>1, <3>1, <3>2, <3>3, StatusGoesOn, StatusFails
  <2> QED BY <2>1, <2>2, <2>3
<1>4. /\ provider' = provider /\ service' = service /\ made' = made /\ orphans' = orphans
      /\ found' = found /\ found \in [Clusters -> SUBSET Nat]
  BY <1>1 DEF CallStatus, InspectStatus, StatusReturns, InfraTyped
<1>5. Owned(c) = IdsOf(caller[c].machines)
  BY <1>2, Ids DEF Owned
<1>6. CallerFits(c)' /\ Owned(c)' = IdsOf(caller[c].machines)
  BY <1>1, <1>2, <1>3, <1>4, <1>5, IdleFits, AskingFits DEF OwnedFits
<1> QED BY <1>3, <1>4, <1>5, <1>6, QuietStep

-----------------------------------------------------------------------------
(* The calls of Provision.                                                 *)

LEMMA ProvisionedStep ==
  ASSUME InfraInv, NEW c \in Clusters, NEW d \in Nat \ {0}, Provisioned(c, d),
         caller[c].op = "provision", caller[c].i \in DOMAIN caller[c].specs,
         caller[c].id \in {0, d}, caller[c].call \in 1 .. Len(ProvisionCalls),
         provider' = provider, found' = found, orphans' = orphans,
         made' = made \/ made' = made + 1, ServiceTyped',
         DOMAIN service \subseteq DOMAIN service',
         DOMAIN service' \subseteq DOMAIN service \cup {d},
         \A e \in DOMAIN service : service'[e].name = service[e].name,
         d \in DOMAIN service', d \in Owned(c) \cap DOMAIN service \/ d = made + 1,
         d \notin DOMAIN service =>
           \A e \in DOMAIN service : service[e].name # service'[d].name,
         service'[d].name = MachineName(caller[c].specs, caller[c].i)
  PROVE  InfraInv'
<1>1. /\ InfraTyped /\ made \in Nat /\ DOMAIN service \subseteq 1 .. made
      /\ orphans \subseteq 1 .. made /\ found \in [Clusters -> SUBSET Nat]
      /\ Owned(c) \subseteq (1 .. made) \ orphans
  BY DEF InfraInv, InfraTyped, CallerFits, OwnedFits
<1>2. DOMAIN service' \subseteq 1 .. made'
  BY DEF ServiceTyped
<1>3. d \in (1 .. made') \ orphans /\ orphans' \subseteq 1 .. made'
  <2>1. d \in 1 .. made'
    BY <1>2
  <2>2. made + 1 \notin orphans
    BY <1>1
  <2> QED BY <1>1, <2>1, <2>2
<1>4. /\ caller' \in [Clusters -> Caller] /\ OthersSame(c)
      /\ Owned(c)' = Owned(c) \cup {d} /\ CallerFits(c)'
  BY <1>1, <1>3, ProvisionedFits
<1>5. InfraTyped'
  BY <1>1, <1>3, <1>4, TypedStep
<1>6. ServiceStep(c)
  <2>1. DOMAIN service' \subseteq DOMAIN service \cup {made + 1}
    OBVIOUS
  <2>2. made + 1 \in DOMAIN service' => made + 1 = d /\ d \notin DOMAIN service
    BY <1>1
  <2> QED BY <2>1, <2>2 DEF ServiceStep
<1>7. OrphansStep(c) /\ OwnedStep(c)
  <2>1. made + 1 \in DOMAIN service' => made + 1 = d
    BY <1>1
  <2> QED BY <1>4, <2>1 DEF OrphansStep, OwnedStep
<1> QED BY <1>4, <1>5, <1>6, <1>7, StepFits

LEMMA ProvisionFailsStep ==
  ASSUME InfraInv, NEW c \in Clusters, NEW extra, ProvisionFails(c, extra),
         caller[c].op = "provision", made' = made \/ made' = made + 1, ServiceTyped',
         extra \subseteq {made + 1} \cap 1 .. made',
         ServiceStep(c), made + 1 \in DOMAIN service' => made + 1 \in extra
  PROVE  InfraInv'
<1>1. /\ InfraTyped /\ made \in Nat /\ DOMAIN service \subseteq 1 .. made
      /\ orphans \subseteq 1 .. made /\ found \in [Clusters -> SUBSET Nat]
      /\ Owned(c) \subseteq (1 .. made) \ orphans
  BY DEF InfraInv, InfraTyped, CallerFits, OwnedFits
<1>2. /\ caller' \in [Clusters -> Caller] /\ OthersSame(c) /\ found' = found
      /\ orphans' = orphans \cup Owned(c) \cup extra
      /\ Owned(c)' = {} /\ CallerFits(c)'
  BY ProvisionFailsFits
<1>3. orphans' \subseteq 1 .. made'
  <2>1. 1 .. made \subseteq 1 .. made'
    BY <1>1
  <2> QED BY <1>1, <1>2, <2>1
<1>4. InfraTyped'
  BY <1>1, <1>2, <1>3, TypedStep DEF OthersSame
<1>5. OrphansStep(c) /\ OwnedStep(c)
  BY <1>2 DEF OrphansStep, OwnedStep
<1> QED BY <1>2, <1>4, <1>5, StepFits

LEMMA CreateFits ==
  ASSUME InfraInv, NEW c \in Clusters, Create(c)
  PROVE  InfraInv'
<1> DEFINE name == MachineName(caller[c].specs, caller[c].i)
           free == \A d \in DOMAIN service : service[d].name # name
<1>1. /\ InfraTyped /\ PlaceFits(c) /\ made \in Nat /\ DOMAIN service \subseteq 1 .. made
      /\ ServiceTyped
  BY DEF InfraInv, InfraTyped, CallerFits, ServiceTyped
<1>2. Doing(c, "provision", ProvisionCalls, "create")
  BY DEF Create
<1>3. /\ caller[c].op = "provision" /\ caller[c].i \in DOMAIN caller[c].specs
      /\ caller[c].call = 1 /\ Len(ProvisionCalls) \in {1, 3} /\ caller[c].id = 0
  <2>1. /\ caller[c].op = "provision" /\ caller[c].i \in DOMAIN caller[c].specs
        /\ caller[c].call = 1 /\ Len(ProvisionCalls) \in {1, 3}
    BY <1>1, <1>2, DoingCalls
  <2>2. caller[c].id = 0
    BY <1>1, <2>1 DEF PlaceFits
  <2> QED BY <2>1, <2>2
<1>4. name \in Names
  BY <1>1, <1>3, CallerTyped, CallerParts
<1> DEFINE succeeds == /\ free
                       /\ made' = made + 1
                       /\ service' = With(made + 1, name)
                       /\ Provisioned(c, made + 1)
                       /\ UNCHANGED <<provider, orphans, found>>
           refused == ProvisionFails(c, {}) /\ UNCHANGED <<service, made>>
           lost == /\ free
                   /\ made' = made + 1
                   /\ service' = With(made + 1, name)
                   /\ ProvisionFails(c, {made + 1})
<1>5. succeeds \/ refused \/ lost
  BY DEF Create
<1>6. ASSUME made' = made + 1, service' = With(made + 1, name), free
      PROVE  /\ ServiceTyped'
             /\ DOMAIN service' = DOMAIN service \cup {made + 1} /\ made + 1 \notin DOMAIN service
             /\ service'[made + 1].name = name
             /\ \A d \in DOMAIN service : service'[d] = service[d]
             /\ ServiceStep(c)
  <2>1. /\ ServiceTyped'
        /\ DOMAIN service' = DOMAIN service \cup {made + 1} /\ made + 1 \notin DOMAIN service
        /\ service'[made + 1].name = name
        /\ \A d \in DOMAIN service : service'[d] = service[d]
    BY <1>1, <1>4, <1>6, ServiceAdds
  <2> QED BY <1>6, <2>1 DEF ServiceStep
<1> HIDE DEF name
<1>7. CASE succeeds
  <2>1. made + 1 \in Nat \ {0} /\ caller[c].call \in 1 .. Len(ProvisionCalls)
    <3>1. \A n \in Nat : n + 1 \in Nat \ {0}
      OBVIOUS
    <3>2. \A n \in {1, 3} : 1 \in 1 .. n
      OBVIOUS
    <3> QED BY <1>1, <1>3, <3>1, <3>2
  <2>2. /\ made' = made + 1 /\ service' = With(made + 1, name) /\ free
        /\ Provisioned(c, made + 1)
        /\ provider' = provider /\ orphans' = orphans /\ found' = found
    BY <1>7
  <2>3. /\ ServiceTyped' /\ made + 1 \in DOMAIN service'
        /\ DOMAIN service \subseteq DOMAIN service'
        /\ DOMAIN service' \subseteq DOMAIN service \cup {made + 1}
        /\ \A e \in DOMAIN service : service'[e].name = service[e].name
        /\ service'[made + 1].name = name
        /\ \A e \in DOMAIN service : service[e].name # service'[made + 1].name
    BY <1>6, <2>2
  <2> QED BY <1>3, <2>1, <2>2, <2>3, ProvisionedStep DEF name
<1>8. CASE refused
  <2>1. ProvisionFails(c, {}) /\ service' = service /\ made' = made
    BY <1>8
  <2>2. ServiceTyped'
    BY <1>1, <2>1 DEF ServiceTyped
  <2>3. ServiceStep(c) /\ made + 1 \notin DOMAIN service'
    BY <1>1, <2>1 DEF ServiceStep
  <2> QED BY <1>3, <2>1, <2>2, <2>3, ProvisionFailsStep
<1>9. CASE lost
  <2>1. /\ made' = made + 1 /\ service' = With(made + 1, name) /\ free
        /\ ProvisionFails(c, {made + 1})
    BY <1>9
  <2>2. ServiceTyped' /\ ServiceStep(c)
    BY <1>6, <2>1
  <2>3. {made + 1} \subseteq {made + 1} \cap 1 .. made'
    BY <1>1, <2>1
  <2> QED BY <1>3, <2>1, <2>2, <2>3, ProvisionFailsStep
<1> QED BY <1>5, <1>7, <1>8, <1>9

\* The container that is started or inspected is the one just made.
LEMMA StartedFits ==
  ASSUME InfraInv, NEW c \in Clusters, Start(c) \/ Inspect(c)
  PROVE  InfraInv'
<1> DEFINE d == caller[c].id
<1>1. /\ InfraTyped /\ CallerFits(c) /\ PlaceFits(c) /\ BuiltFits(c) /\ made \in Nat
      /\ DOMAIN service \subseteq 1 .. made /\ ServiceTyped /\ d \in Nat
  BY CallerTyped DEF InfraInv, InfraTyped, CallerFits, ServiceTyped
<1>2. \/ Doing(c, "provision", ProvisionCalls, "start")
      \/ Doing(c, "provision", ProvisionCalls, "inspect")
  BY DEF Start, Inspect
<1>3. /\ caller[c].op = "provision" /\ caller[c].i \in DOMAIN caller[c].specs
      /\ caller[c].call \in 1 .. Len(ProvisionCalls) /\ caller[c].call # 1
  <2>1. /\ caller[c].op = "provision" /\ caller[c].i \in DOMAIN caller[c].specs
        /\ caller[c].call = 2 \/ caller[c].call = 3
        /\ Len(ProvisionCalls) = 3
    BY <1>1, <1>2, DoingCalls
  <2> QED BY <2>1
<1>4. /\ d \in Nat \ {0} /\ d \in Owned(c) /\ d \in DOMAIN service
      /\ service[d].name = MachineName(caller[c].specs, caller[c].i)
  <2>1. d # 0
    BY <1>1, <1>3 DEF PlaceFits
  <2> QED BY <1>1, <1>3, <2>1 DEF BuiltFits, Owned
<1>5. /\ made' = made
      /\ \/ service' = service
         \/ service' = [service EXCEPT ![d].status = "running"]
      /\ \/ Provisioned(c, d) /\ UNCHANGED <<provider, orphans, found>>
         \/ ProvisionFails(c, {})
  BY DEF Start, Inspect
<1>6. /\ ServiceTyped' /\ DOMAIN service' = DOMAIN service
      /\ \A e \in DOMAIN service : service'[e].name = service[e].name
  <2>1. CASE service' = service
    BY <1>1, <1>5, <2>1 DEF ServiceTyped
  <2>2. CASE service' = [service EXCEPT ![d].status = "running"]
    <3>1. "running" \in Statuses
      BY DEF Statuses
    <3> QED BY <1>1, <1>4, <1>5, <2>2, <3>1, ServiceChanges
  <2> QED BY <1>5, <2>1, <2>2
<1>7. CASE Provisioned(c, d) /\ UNCHANGED <<provider, orphans, found>>
  <2>1. provider' = provider /\ orphans' = orphans /\ found' = found /\ Provisioned(c, d)
    BY <1>7
  <2> HIDE DEF d
  <2> QED BY <1>3, <1>4, <1>5, <1>6, <2>1, ProvisionedStep DEF d
<1>8. CASE ProvisionFails(c, {})
  <2>1. ServiceStep(c) /\ made + 1 \notin DOMAIN service'
    BY <1>1, <1>6 DEF ServiceStep
  <2> QED BY <1>3, <1>5, <1>6, <1>8, <2>1, ProvisionFailsStep
<1> QED BY <1>5, <1>7, <1>8

-----------------------------------------------------------------------------
(* The calls of Destroy.                                                   *)

LEMMA DestroyStep ==
  ASSUME InfraInv, NEW c \in Clusters, caller' \in [Clusters -> Caller],
         \A e \in Clusters \ {c} : caller'[e] = caller[e],
         provider' = provider, made' = made, orphans' = orphans, found' = found,
         ServiceTyped', DOMAIN service' \subseteq DOMAIN service,
         DOMAIN service \ Owned(c) \subseteq DOMAIN service',
         \A d \in DOMAIN service' : service'[d].name = service[d].name,
         CallerFits(c)', Owned(c)' = Owned(c)
  PROVE  InfraInv'
<1>1. /\ InfraTyped /\ made \in Nat /\ DOMAIN service \subseteq 1 .. made
      /\ orphans \subseteq 1 .. made /\ found \in [Clusters -> SUBSET Nat]
  BY DEF InfraInv, InfraTyped
<1>2. InfraTyped'
  BY <1>1, TypedStep
<1>3. made + 1 \notin DOMAIN service'
  BY <1>1
<1>4. ServiceStep(c) /\ OrphansStep(c) /\ OwnedStep(c) /\ OthersSame(c)
  BY <1>1, <1>3 DEF ServiceStep, OrphansStep, OwnedStep, OthersSame
<1> QED BY <1>2, <1>4, StepFits

LEMMA DestroyPlace ==
  ASSUME InfraInv, NEW c \in Clusters, caller[c].op = "destroy"
  PROVE  /\ InfraTyped /\ PlaceFits(c) /\ DestroyFits(c) /\ OwnedFits(c) /\ ServiceTyped
         /\ caller[c].built = << >> /\ caller[c].id = 0
         /\ caller[c].machines \in Seq(Machine)
         /\ caller[c].i \in Nat \ {0} /\ caller[c].call \in Nat \ {0}
         /\ IdsOf(caller[c].machines) = Owned(c)
         /\ caller[c].i \in DOMAIN caller[c].machines => Held(c) \in Owned(c)
<1>1. InfraTyped /\ PlaceFits(c) /\ DestroyFits(c) /\ OwnedFits(c) /\ ServiceTyped
  BY DEF InfraInv, CallerFits, InfraTyped, ServiceTyped
<1>2. /\ caller[c].machines \in Seq(Machine)
      /\ caller[c].i \in Nat \ {0} /\ caller[c].call \in Nat \ {0}
  BY <1>1, CallerTyped
<1>3. caller[c].built = << >> /\ caller[c].id = 0
  BY <1>1 DEF PlaceFits
<1>4. IdsOf(caller[c].machines) = Owned(c)
  BY <1>3, Ids DEF Owned
<1>5. caller[c].i \in DOMAIN caller[c].machines => Held(c) \in Owned(c)
  BY <1>4 DEF Held, IdsOf
<1> QED BY <1>1, <1>2, <1>3, <1>4, <1>5

LEMMA DestroyFails ==
  ASSUME InfraInv, NEW c \in Clusters, caller[c].op = "destroy", Return(c, "error"),
         provider' = provider, made' = made, orphans' = orphans, found' = found,
         ServiceTyped', DOMAIN service' \subseteq DOMAIN service,
         DOMAIN service \ Owned(c) \subseteq DOMAIN service',
         \A d \in DOMAIN service' : service'[d].name = service[d].name
  PROVE  InfraInv'
<1>1. InfraTyped /\ OwnedFits(c) /\ IdsOf(caller[c].machines) = Owned(c)
  BY DestroyPlace
<1>2. "error" \in Outcomes
  BY DEF Outcomes
<1>3. /\ caller' \in [Clusters -> Caller]
      /\ \A e \in Clusters \ {c} : caller'[e] = caller[e]
      /\ caller'[c].op = "none" /\ caller'[c].built = << >> /\ caller'[c].id = 0
      /\ caller'[c].i = 1 /\ caller'[c].call = 1
      /\ caller'[c].machines = caller[c].machines
  BY <1>1, <1>2, ReturnMoves
<1>4. CallerFits(c)' /\ Owned(c)' = Owned(c)
  BY <1>1, <1>3, IdleFits DEF OwnedFits
<1> QED BY <1>3, <1>4, DestroyStep

\* The last call for a machine has removed it; an earlier one changed no machine's being there.
LEMMA DestroyedFits ==
  ASSUME InfraInv, NEW c \in Clusters, caller[c].op = "destroy", Destroyed(c),
         caller[c].i \in DOMAIN caller[c].machines, Held(c) \in DOMAIN service,
         ~(caller[c].call < Len(DestroyCalls)) => Held(c) \notin DOMAIN service',
         provider' = provider, made' = made, orphans' = orphans, found' = found,
         ServiceTyped', DOMAIN service' \subseteq DOMAIN service,
         DOMAIN service \ Owned(c) \subseteq DOMAIN service',
         \A d \in DOMAIN service' : service'[d].name = service[d].name
  PROVE  InfraInv'
<1>1. /\ InfraTyped /\ PlaceFits(c) /\ DestroyFits(c) /\ OwnedFits(c)
      /\ caller[c].machines \in Seq(Machine)
      /\ caller[c].i \in Nat \ {0} /\ caller[c].call \in Nat \ {0}
      /\ caller[c].built = << >> /\ caller[c].id = 0
  BY DestroyPlace
<1>2. Len(DestroyCalls)' = Len(DestroyCalls) /\ Len(DestroyCalls) \in {1, 2}
  BY <1>1, DoingCalls DEF DestroyCalls
<1>3. Len(caller[c].machines) \in Nat /\ caller[c].i <= Len(caller[c].machines)
  BY <1>1
<1>4. CASE caller[c].call < Len(DestroyCalls)
  <2>1. /\ caller' \in [Clusters -> Caller]
        /\ \A e \in Clusters \ {c} : caller'[e] = caller[e]
        /\ caller'[c].call = caller[c].call + 1
        /\ caller'[c].op = caller[c].op /\ caller'[c].i = caller[c].i
        /\ caller'[c].id = caller[c].id /\ caller'[c].built = caller[c].built
        /\ caller'[c].machines = caller[c].machines
        /\ caller'[c].outcome = caller[c].outcome
    BY <1>1, <1>4, NextRemovalCallMoves
  <2>2. Owned(c)' = Owned(c)
    BY <2>1 DEF Owned
  <2>3. PlaceFits(c)'
    <3>1. /\ caller[c].call + 1 <= Len(DestroyCalls)'
          /\ caller[c].i <= Len(caller[c].machines) + 1
          /\ caller[c].i # Len(caller[c].machines) + 1
      BY <1>1, <1>2, <1>3, <1>4
    <3> QED BY <1>1, <2>1, <3>1 DEF PlaceFits
  <2>4. DestroyFits(c)'
    BY <1>1, <2>1 DEF DestroyFits
  <2>5. OwnedFits(c)' /\ BuiltFits(c)'
    BY <1>1, <2>1, <2>2 DEF OwnedFits, BuiltFits
  <2>6. CallerFits(c)'
    BY <2>3, <2>4, <2>5 DEF CallerFits
  <2> QED BY <2>1, <2>2, <2>6, DestroyStep
<1>5. CASE ~(caller[c].call < Len(DestroyCalls))
  <2>1. /\ caller' \in [Clusters -> Caller]
        /\ \A e \in Clusters \ {c} : caller'[e] = caller[e]
        /\ caller'[c].call = 1 /\ caller'[c].i = caller[c].i + 1
        /\ caller'[c].op = caller[c].op
        /\ caller'[c].id = caller[c].id /\ caller'[c].built = caller[c].built
        /\ caller'[c].machines = caller[c].machines
        /\ caller'[c].outcome = caller[c].outcome
    BY <1>1, <1>5, NextRemovalMoves
  <2>2. Owned(c)' = Owned(c)
    BY <2>1 DEF Owned
  <2>3. PlaceFits(c)'
    <3>1. 1 <= Len(DestroyCalls)' /\ caller[c].i + 1 <= Len(caller[c].machines) + 1
      BY <1>1, <1>2, <1>3
    <3> QED BY <1>1, <2>1, <3>1 DEF PlaceFits
  <2>4. DestroyFits(c)'
    <3>1. Held(c) \in found[c] \ DOMAIN service'
      <4>1. Held(c) \in IdsOf(caller[c].machines)
        BY DEF Held, IdsOf
      <4> QED BY <1>1, <1>5, <4>1 DEF DestroyFits
    <3>2. \A j \in DOMAIN caller[c].machines :
            j < caller[c].i + 1 => j < caller[c].i \/ j = caller[c].i
      BY <1>1
    <3>3. \A j \in DOMAIN caller[c].machines :
            j < caller[c].i + 1 => caller[c].machines[j].id \in found[c] \ DOMAIN service'
      BY <1>1, <3>1, <3>2 DEF DestroyFits, Held
    <3> QED BY <1>1, <2>1, <3>3 DEF DestroyFits
  <2>5. OwnedFits(c)' /\ BuiltFits(c)'
    BY <1>1, <2>1, <2>2 DEF OwnedFits, BuiltFits
  <2>6. CallerFits(c)'
    BY <2>3, <2>4, <2>5 DEF CallerFits
  <2> QED BY <2>1, <2>2, <2>6, DestroyStep
<1> QED BY <1>4, <1>5

\* What Stop and Remove may do to the service.
LEMMA RemovalChanges ==
  ASSUME InfraTyped, ServiceTyped, NEW c \in Clusters, made' = made,
         Held(c) \in Owned(c),
         \/ service' = service
         \/ Held(c) \in DOMAIN service /\ service' = Stopped(Held(c))
         \/ Held(c) \in DOMAIN service /\ service' = Without(Held(c))
  PROVE  /\ ServiceTyped' /\ DOMAIN service' \subseteq DOMAIN service
         /\ DOMAIN service \ Owned(c) \subseteq DOMAIN service'
         /\ \A d \in DOMAIN service' : service'[d].name = service[d].name
         /\ service' = Without(Held(c)) /\ Held(c) \in DOMAIN service =>
              Held(c) \notin DOMAIN service'
<1> DEFINE d == Held(c)
<1>1. CASE service' = service
  <2>1. ServiceTyped'
    BY <1>1 DEF ServiceTyped
  <2>2. d \notin DOMAIN Without(d)
    BY DEF Without
  <2> QED BY <1>1, <2>1, <2>2
<1>2. CASE d \in DOMAIN service /\ service' = Stopped(d)
  <2>1. "exited" \in Statuses
    BY DEF Statuses
  <2>2. service' = [service EXCEPT ![d].status = "exited"]
    BY <1>2 DEF Stopped
  <2> HIDE DEF d
  <2>3. /\ ServiceTyped' /\ DOMAIN service' = DOMAIN service
        /\ \A e \in DOMAIN service : service'[e].name = service[e].name
    BY <1>2, <2>1, <2>2, ServiceChanges
  <2>4. d \notin DOMAIN Without(d)
    BY DEF Without
  <2> QED BY <2>3, <2>4 DEF d
<1>3. CASE d \in DOMAIN service /\ service' = Without(d)
  <2> HIDE DEF d
  <2>1. /\ ServiceTyped' /\ DOMAIN service' = DOMAIN service \ {d}
        /\ \A e \in DOMAIN service' : service'[e] = service[e]
    BY <1>3, ServiceLoses
  <2> QED BY <2>1 DEF d
<1> QED BY <1>1, <1>2, <1>3

LEMMA StopFits ==
  ASSUME InfraInv, NEW c \in Clusters, Stop(c)
  PROVE  InfraInv'
<1>1. Doing(c, "destroy", DestroyCalls, "stop")
  BY DEF Stop
<1>2. InfraTyped /\ PlaceFits(c)
  BY DEF InfraInv, CallerFits
<1>3. /\ caller[c].op = "destroy" /\ caller[c].i \in DOMAIN caller[c].machines
      /\ caller[c].call = 1 /\ Len(DestroyCalls) = 2
  BY <1>1, <1>2, DoingCalls
<1>4. ServiceTyped /\ Held(c) \in Owned(c)
  BY <1>3, DestroyPlace
<1>5. provider' = provider /\ made' = made /\ orphans' = orphans /\ found' = found
  BY DEF Stop
<1>6. /\ \/ service' = service
         \/ Held(c) \in DOMAIN service /\ service' = Stopped(Held(c))
         \/ Held(c) \in DOMAIN service /\ service' = Without(Held(c))
      /\ Return(c, "error") \/ (Destroyed(c) /\ Held(c) \in DOMAIN service)
  BY DEF Stop
<1>7. /\ ServiceTyped' /\ DOMAIN service' \subseteq DOMAIN service
      /\ DOMAIN service \ Owned(c) \subseteq DOMAIN service'
      /\ \A d \in DOMAIN service' : service'[d].name = service[d].name
  BY <1>2, <1>4, <1>5, <1>6, RemovalChanges
<1>8. caller[c].call < Len(DestroyCalls)
  BY <1>3
<1> QED BY <1>3, <1>5, <1>6, <1>7, <1>8, DestroyFails, DestroyedFits

LEMMA RemoveFits ==
  ASSUME InfraInv, NEW c \in Clusters, Remove(c)
  PROVE  InfraInv'
<1>1. Doing(c, "destroy", DestroyCalls, "remove")
  BY DEF Remove
<1>2. InfraTyped /\ PlaceFits(c)
  BY DEF InfraInv, CallerFits
<1>3. caller[c].op = "destroy" /\ caller[c].i \in DOMAIN caller[c].machines
  BY <1>1, <1>2, DoingCalls
<1>4. ServiceTyped /\ Held(c) \in Owned(c)
  BY <1>3, DestroyPlace
<1>5. provider' = provider /\ made' = made /\ orphans' = orphans /\ found' = found
  BY DEF Remove
<1>6. /\ \/ service' = service
         \/ Held(c) \in DOMAIN service /\ service' = Stopped(Held(c))
         \/ Held(c) \in DOMAIN service /\ service' = Without(Held(c))
      /\ \/ Return(c, "error")
         \/ Destroyed(c) /\ Held(c) \in DOMAIN service /\ service' = Without(Held(c))
  BY DEF Remove
<1>7. /\ ServiceTyped' /\ DOMAIN service' \subseteq DOMAIN service
      /\ DOMAIN service \ Owned(c) \subseteq DOMAIN service'
      /\ \A d \in DOMAIN service' : service'[d].name = service[d].name
      /\ service' = Without(Held(c)) /\ Held(c) \in DOMAIN service =>
           Held(c) \notin DOMAIN service'
  BY <1>2, <1>4, <1>5, <1>6, RemovalChanges
<1> QED BY <1>3, <1>5, <1>6, <1>7, DestroyFails, DestroyedFits

-----------------------------------------------------------------------------
(* The theorems.                                                           *)

LEMMA CallersStay ==
  ASSUME InfraInv, provider' = provider, caller' = caller, made' = made, orphans' = orphans,
         found' = found, ServiceTyped', DOMAIN service' = DOMAIN service,
         \A d \in DOMAIN service : service'[d].name = service[d].name
  PROVE  InfraInv'
<1>1. InfraTyped'
  BY DEF InfraInv, InfraTyped, ServiceTyped
<1>2. \A c \in Clusters : CallerFits(c)' /\ Owned(c)' = Owned(c)
  <2> TAKE c \in Clusters
  <2>1. CallerFits(c)
    BY DEF InfraInv
  <2>2. Owned(c)' = Owned(c)
    BY DEF Owned
  <2>3. ProvisionCalls' = ProvisionCalls /\ DestroyCalls' = DestroyCalls
    BY DEF ProvisionCalls, DestroyCalls
  <2>4. PlaceFits(c)'
    BY <2>1, <2>3 DEF CallerFits, PlaceFits
  <2>5. OwnedFits(c)'
    BY <2>1, <2>2 DEF CallerFits, OwnedFits
  <2>6. BuiltFits(c)'
    BY <2>1 DEF CallerFits, BuiltFits
  <2>7. DestroyFits(c)'
    BY <2>1 DEF CallerFits, DestroyFits
  <2> QED BY <2>2, <2>4, <2>5, <2>6, <2>7 DEF CallerFits
<1>3. Disjoint' /\ Accounted'
  BY <1>2 DEF InfraInv, Disjoint, Accounted
<1>4. NamesDiffer'
  BY DEF InfraInv, NamesDiffer
<1> QED BY <1>1, <1>2, <1>3, <1>4 DEF InfraInv

LEMMA MachineStep ==
  ASSUME InfraInv, NEW d \in DOMAIN service, Boots(d) \/ Exits(d)
  PROVE  InfraInv'
<1>1. /\ InfraTyped
      /\ provider' = provider /\ caller' = caller /\ made' = made /\ orphans' = orphans
      /\ found' = found
  BY DEF InfraInv, Boots, Exits
<1>2. PICK s \in Statuses : service' = [service EXCEPT ![d].status = s]
  BY DEF Boots, Exits, Stopped, Statuses
<1>3. /\ ServiceTyped' /\ DOMAIN service' = DOMAIN service
      /\ \A e \in DOMAIN service : service'[e].name = service[e].name
  BY <1>1, <1>2, ServiceChanges
<1> QED BY <1>1, <1>3, CallersStay

LEMMA InfraInit == Init => InfraInv
<1> SUFFICES ASSUME Init PROVE InfraInv
  OBVIOUS
<1> DEFINE s == CHOOSE x \in SpecLists : TRUE
           k == [op |-> "none", specs |-> s, i |-> 1, call |-> 1, id |-> 0, built |-> << >>,
                 machines |-> << >>, statuses |-> << >>, outcome |-> "none"]
<1>1. /\ provider \in Providers /\ caller = [c \in Clusters |-> k] /\ service = << >>
      /\ made = 0 /\ orphans = {} /\ found = [c \in Clusters |-> {}]
  BY DEF Init
<1>2. provider \in {"docker", "hetzner"}
  BY <1>1, ProvidersAssumption
<1>3. s \in SpecLists
  BY SpecsAssumption
<1>4. k \in Caller
  <2>1. << >> \in Seq(Machine) /\ << >> \in Seq(Reported) /\ 1 \in Nat \ {0}
    BY CallerParts
  <2> HIDE DEF s
  <2> QED BY <1>3, <2>1 DEF Caller, Outcomes
<1>5. /\ k.op = "none" /\ k.built = << >> /\ k.id = 0 /\ k.i = 1 /\ k.call = 1
      /\ k.machines = << >>
  OBVIOUS
<1> HIDE DEF k
<1>6. \A c \in Clusters : caller[c] = k
  BY <1>1
<1>7. DOMAIN service = {}
  BY <1>1
<1>8. InfraTyped
  <2>1. caller \in [Clusters -> Caller]
    BY <1>1, <1>4
  <2>2. /\ service \in [DOMAIN service -> [name : Names, status : Statuses]]
        /\ DOMAIN service \subseteq 1 .. made
    BY <1>1, <1>7
  <2>3. made \in Nat /\ orphans \subseteq 1 .. made
    BY <1>1
  <2>4. found \in [Clusters -> SUBSET Nat]
    BY <1>1
  <2> QED BY <1>2, <2>1, <2>2, <2>3, <2>4 DEF InfraTyped
<1>9. ASSUME NEW c \in Clusters
      PROVE  CallerFits(c) /\ Owned(c) = {}
  <2>1. IdsOf(caller[c].machines) = {} /\ IdsOf(caller[c].built) = {}
    BY <1>5, <1>6, Ids
  <2>2. Owned(c) = {}
    BY <1>5, <1>6, <2>1 DEF Owned
  <2>3. PlaceFits(c) /\ OwnedFits(c) /\ BuiltFits(c) /\ DestroyFits(c)
    BY <1>5, <1>6, <2>2 DEF PlaceFits, OwnedFits, BuiltFits, DestroyFits
  <2> QED BY <2>2, <2>3 DEF CallerFits
<1> QED BY <1>7, <1>8, <1>9 DEF InfraInv, Disjoint, Accounted, NamesDiffer

LEMMA InfraNext == InfraInv /\ [Next]_vars => InfraInv'
<1> SUFFICES ASSUME InfraInv, [Next]_vars PROVE InfraInv'
  OBVIOUS
<1>1. CASE UNCHANGED vars
  <2>1. ServiceTyped'
    BY <1>1 DEF vars, InfraInv, InfraTyped, ServiceTyped
  <2> QED BY <1>1, <2>1, CallersStay DEF vars
<1>2. ASSUME NEW c \in Clusters,
             \/ CallProvision(c) \/ Create(c) \/ Start(c) \/ Inspect(c) \/ ProvisionReturns(c)
             \/ CallDestroy(c) \/ Stop(c) \/ Remove(c) \/ DestroyReturns(c)
             \/ CallStatus(c) \/ InspectStatus(c) \/ StatusReturns(c)
      PROVE  InfraInv'
  <2>1. CASE CallProvision(c) \/ Create(c) \/ ProvisionReturns(c)
    BY <2>1, CallProvisionFits, CreateFits, ProvisionReturnsFits
  <2>2. CASE Start(c) \/ Inspect(c)
    BY <2>2, StartedFits
  <2>3. CASE CallDestroy(c) \/ DestroyReturns(c)
    BY <2>3, CallDestroyFits, DestroyReturnsFits
  <2>4. CASE Stop(c) \/ Remove(c)
    BY <2>4, StopFits, RemoveFits
  <2>5. CASE CallStatus(c) \/ InspectStatus(c) \/ StatusReturns(c)
    BY <2>5, StatusFits
  <2> QED BY <1>2, <2>1, <2>2, <2>3, <2>4, <2>5
<1>3. ASSUME NEW d \in DOMAIN service, Boots(d) \/ Exits(d)
      PROVE  InfraInv'
  BY <1>3, MachineStep
<1> QED BY <1>1, <1>2, <1>3 DEF Next

\* Whose every machine is, at every moment of every caller.
THEOREM InfraInvariant == Spec => []InfraInv
BY InfraInit, InfraNext, PTL DEF Spec

\* Every machine of the service belongs to a caller, is being made, or was lost
\* by a Provision that failed.
THEOREM MachinesAccounted == Spec => []EveryMachineAccounted
<1>1. InfraInv => EveryMachineAccounted
  BY DEF InfraInv, Accounted, EveryMachineAccounted, Owned
<1> QED BY <1>1, InfraInvariant, PTL

\* A Provision and a Destroy succeed in their last step only.
LEMMA OnlyReturns ==
  ASSUME InfraInv, [Next]_vars, NEW c \in Clusters
  PROVE  /\ caller[c].op = "provision" /\ caller'[c].outcome = "provisioned" =>
              ProvisionReturns(c)
         /\ caller[c].op = "destroy" /\ caller'[c].outcome = "destroyed" =>
              DestroyReturns(c)
<1> SUFFICES ASSUME \/ caller[c].op = "provision" /\ caller'[c].outcome = "provisioned"
                    \/ caller[c].op = "destroy" /\ caller'[c].outcome = "destroyed"
             PROVE  ProvisionReturns(c) \/ DestroyReturns(c)
  BY DEF ProvisionReturns, DestroyReturns
<1>1. InfraTyped /\ PlaceFits(c) /\ caller[c].outcome = "none"
  BY DEF InfraInv, CallerFits, PlaceFits
<1>2. caller'[c] # caller[c]
  BY <1>1
<1>3. ASSUME NEW e \in Clusters \ {c},
             \/ CallProvision(e) \/ Create(e) \/ Start(e) \/ Inspect(e) \/ ProvisionReturns(e)
             \/ CallDestroy(e) \/ Stop(e) \/ Remove(e) \/ DestroyReturns(e)
             \/ CallStatus(e) \/ InspectStatus(e) \/ StatusReturns(e)
      PROVE  FALSE
  <2>1. \E r : caller' = [caller EXCEPT ![e] = r]
    <3>1. CASE \/ CallProvision(e) \/ ProvisionReturns(e) \/ CallDestroy(e)
               \/ DestroyReturns(e) \/ CallStatus(e) \/ InspectStatus(e) \/ StatusReturns(e)
      BY <3>1 DEF CallProvision, ProvisionReturns, CallDestroy, DestroyReturns, CallStatus,
                  InspectStatus, StatusReturns
    <3>2. CASE Create(e) \/ Start(e) \/ Inspect(e) \/ Stop(e) \/ Remove(e)
      <4>1. \/ \E d : Provisioned(e, d)
            \/ \E o : Return(e, o)
            \/ Destroyed(e)
        BY <3>2 DEF Create, Start, Inspect, Stop, Remove, ProvisionFails
      <4> QED BY <4>1 DEF Provisioned, Return, Destroyed
    <3> QED BY <1>3, <3>1, <3>2
  <2> QED BY <1>1, <1>2, <2>1 DEF InfraTyped
<1>4. \/ CallProvision(c) \/ Create(c) \/ Start(c) \/ Inspect(c) \/ ProvisionReturns(c)
      \/ CallDestroy(c) \/ Stop(c) \/ Remove(c) \/ DestroyReturns(c)
      \/ CallStatus(c) \/ InspectStatus(c) \/ StatusReturns(c)
  <2>1. ~UNCHANGED vars /\ \A d \in DOMAIN service : ~Boots(d) /\ ~Exits(d)
    BY <1>2 DEF vars, Boots, Exits
  <2> QED BY <1>3, <2>1 DEF Next
<1>5. ~CallProvision(c) /\ ~CallDestroy(c) /\ ~CallStatus(c)
  BY DEF CallProvision, CallDestroy, CallStatus
<1>6. ~InspectStatus(c) /\ ~StatusReturns(c)
  BY DEF InspectStatus, StatusReturns
<1>7. ASSUME Return(c, "error")
      PROVE  FALSE
  <2>1. "error" \in Outcomes
    BY DEF Outcomes
  <2>2. caller'[c].outcome = "error"
    BY <1>1, <1>7, <2>1, ReturnMoves
  <2> QED BY <2>2
<1>8. ~Create(c) /\ ~Start(c) /\ ~Inspect(c)
  <2> SUFFICES ASSUME Create(c) \/ Start(c) \/ Inspect(c) PROVE FALSE
    OBVIOUS
  <2>1. PICK d \in Nat : Provisioned(c, d)
    <3>1. made + 1 \in Nat /\ caller[c].id \in Nat
      BY <1>1, CallerTyped DEF InfraTyped
    <3> QED BY <1>7, <3>1 DEF Create, Start, Inspect, ProvisionFails
  <2>2. caller[c].i \in DOMAIN caller[c].specs
    BY <1>1, DoingCalls DEF Create, Start, Inspect
  <2>3. caller'[c].outcome = caller[c].outcome
    BY <1>1, <2>1, <2>2, NextCallMoves, BuiltMoves
  <2> QED BY <1>1, <2>3
<1>9. ~Stop(c) /\ ~Remove(c)
  <2> SUFFICES ASSUME Stop(c) \/ Remove(c) PROVE FALSE
    OBVIOUS
  <2>1. Destroyed(c)
    BY <1>7 DEF Stop, Remove
  <2>2. caller'[c].outcome = caller[c].outcome
    BY <1>1, <2>1, NextRemovalCallMoves, NextRemovalMoves
  <2> QED BY <1>1, <2>2
<1> QED BY <1>4, <1>5, <1>6, <1>8, <1>9

\* A Provision that succeeds has met no machine that a failed one lost: as long as
\* such a machine is there, its name is refused.
THEOREM OrphansBlock == Spec => OrphansBlockRetry
<1> DEFINE A == \A c \in Clusters :
                  caller[c].op = "provision" /\ caller'[c].outcome = "provisioned" =>
                    \A d \in orphans \cap DOMAIN service :
                      \A j \in DOMAIN caller[c].specs :
                        service[d].name # MachineName(caller[c].specs, j)
<1>1. ASSUME InfraInv, [Next]_vars
      PROVE  A
  <2> SUFFICES ASSUME NEW c \in Clusters, caller[c].op = "provision",
                      caller'[c].outcome = "provisioned",
                      NEW d \in orphans \cap DOMAIN service, NEW j \in DOMAIN caller[c].specs,
                      service[d].name = MachineName(caller[c].specs, j)
               PROVE  FALSE
    OBVIOUS
  <2>1. ProvisionReturns(c)
    BY <1>1, OnlyReturns
  <2>2. /\ InfraTyped /\ PlaceFits(c) /\ OwnedFits(c) /\ BuiltFits(c) /\ NamesDiffer
        /\ caller[c].i > Len(caller[c].specs)
    BY <1>1, <2>1 DEF InfraInv, CallerFits, ProvisionReturns
  <2>3. /\ caller[c].specs \in Seq({"control-plane", "worker"}) /\ caller[c].i \in Nat
        /\ caller[c].built \in Seq(Machine)
    BY <2>2, CallerTyped, CallerParts
  <2>4. j \in DOMAIN caller[c].built
    <3>1. Len(caller[c].built) = Len(caller[c].specs)
      BY <2>2, <2>3 DEF PlaceFits
    <3> QED BY <2>3, <3>1
  <2>5. /\ caller[c].built[j].id \in DOMAIN service
        /\ service[caller[c].built[j].id].name = service[d].name
    BY <2>2, <2>4 DEF BuiltFits
  <2>6. caller[c].built[j].id = d
    BY <2>2, <2>5 DEF NamesDiffer
  <2>7. caller[c].built[j].id \in Owned(c)
    BY <2>4 DEF Owned, IdsOf
  <2> QED BY <2>2, <2>6, <2>7 DEF OwnedFits
<1> QED BY <1>1, InfraInvariant, PTL DEF Spec, OrphansBlockRetry

\* A Destroy that succeeds was given machines that were all there when it began, and
\* leaves none of them.
THEOREM DestroyedAll == Spec => DestroyIsAllOrNothing
<1> DEFINE A == \A c \in Clusters :
                  caller[c].op = "destroy" /\ caller'[c].outcome = "destroyed" =>
                    /\ IdsOf(caller[c].machines) = found[c]
                    /\ IdsOf(caller[c].machines) \cap DOMAIN service' = {}
<1>1. ASSUME InfraInv, [Next]_vars
      PROVE  A
  BY <1>1, OnlyReturns, DestroyReturnsFits
<1> QED BY <1>1, InfraInvariant, PTL DEF Spec, DestroyIsAllOrNothing
=============================================================================

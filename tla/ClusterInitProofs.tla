-------------------------- MODULE ClusterInitProofs --------------------------
(***************************************************************************)
(* The engine's promises about hooks and cleanups, for any phases and any  *)
(* hooks; that `init' is a run of the engine; and what follows of both and *)
(* of the phases for the hosts of any configuration.                       *)
(*                                                                         *)
(* The first part cites the assumptions of Pipeline only.  Its invariant   *)
(* says which calls have been made at every place of Execute.              *)
(***************************************************************************)
EXTENDS ClusterInit, FiniteSetTheorems, WellFoundedInduction, TLAPS

-----------------------------------------------------------------------------
(* The invariant of the engine.                                            *)

Calls == {"pre", "post", "onError", "cleanup"} \X Nat \X STRING

FlowTyped ==
  /\ at \in {"idle", "context", "pre", "run", "post", "cleanup"}
  /\ phaseErr \in BOOLEAN
  /\ cancelled \in BOOLEAN
  /\ outcome \in {"none", "success"} \cup Failures
CountersTyped ==
  /\ started \in Nat
  /\ k \in 1 .. Len(Phases) + 1
  /\ hook \in 1 .. Len(Hooks) + 1
  /\ completed \in 0 .. Len(Phases)
  /\ cleaning \in 0 .. Len(Phases)
ListsTyped ==
  /\ ran \in Seq(STRING)
  /\ calls \in Seq(Calls)

EngineTypeOK == FlowTyped /\ CountersTyped /\ ListsTyped

\* The counters of Execute, what it has returned and what it has run.
CountersFit ==
  /\ completed = k - 1
  /\ at \in {"pre", "run", "post"} => k <= Len(Phases)
  /\ outcome = "phaseError" => k <= Len(Phases)
  /\ at = "cleanup" => cleaning <= completed
  /\ at # "cleanup" => cleaning = 0
OutcomeFits ==
  /\ at \in {"context", "pre", "run", "post"} => outcome = "none"
  /\ at \in {"context", "pre", "run"} => phaseErr = FALSE
  /\ at = "cleanup" => outcome \in Failures
  /\ at # "post" /\ phaseErr = TRUE => outcome = "phaseError"
  /\ outcome = "phaseError" => phaseErr = TRUE
RanFits ==
  /\ Len(ran) = IF at = "post" \/ outcome = "phaseError" THEN k ELSE k - 1
  /\ \A j \in DOMAIN ran : ran[j] = Phases[j]

PlaceFits == CountersFit /\ OutcomeFits /\ RanFits

\* The calls of a kind to hook i in a list of calls.
Of(s, kind, i) == {c \in DOMAIN s : s[c][1] = kind /\ s[c][2] = i}

\* They are the calls for the phases with the indices in A.
MadeFor(s, kind, i, A) ==
  /\ \A c \in Of(s, kind, i) : \E a \in A : s[c][3] = Phases[a]
  /\ \A a \in A : \E c \in Of(s, kind, i) : s[c][3] = Phases[a]

\* They are in the order of the phases; in the opposite order.
Ascending(s, kind, i) ==
  \A c, d \in Of(s, kind, i), a, b \in DOMAIN Phases :
    c < d /\ s[c][3] = Phases[a] /\ s[d][3] = Phases[b] => a < b
Descending(s, kind, i) ==
  \A c, d \in Of(s, kind, i), a, b \in DOMAIN Phases :
    c < d /\ s[c][3] = Phases[a] /\ s[d][3] = Phases[b] => b < a

\* How many phases hook i has been called before: after a failure of a hook that
\* depends on whether it came before the one that failed.
PreTurns(i) ==
  CASE at = "context" -> {k - 1}
    [] at = "pre" -> {IF i < hook THEN k ELSE k - 1}
    [] at \in {"run", "post"} -> {k}
    [] OTHER -> {Len(ran), k}

PreFor(i, m)  == IF "pre" \in Hooks[i] THEN 1 .. m ELSE {}
PostFor(i)    == IF "post" \in Hooks[i] THEN 1 .. (IF at = "post" THEN k - 1 ELSE Len(ran))
                 ELSE {}
ErrorFor(i)   == IF "onError" \in Hooks[i] /\ outcome = "phaseError" THEN {k} ELSE {}
CleanupsFor   == IF outcome \in Failures
                   THEN {a \in cleaning + 1 .. completed : Phases[a] \in Cleanable} ELSE {}

PresFit ==
  \A i \in DOMAIN Hooks :
    \E m \in PreTurns(i) :
      /\ m \in 0 .. Len(Phases)
      /\ MadeFor(calls, "pre", i, PreFor(i, m))
      /\ Ascending(calls, "pre", i)
PostsFit ==
  \A i \in DOMAIN Hooks :
    MadeFor(calls, "post", i, PostFor(i)) /\ Ascending(calls, "post", i)
ErrorsFit ==
  \A i \in DOMAIN Hooks :
    MadeFor(calls, "onError", i, ErrorFor(i)) /\ Ascending(calls, "onError", i)
CleanupsFit ==
  MadeFor(calls, "cleanup", 0, CleanupsFor) /\ Descending(calls, "cleanup", 0)

EngineInv ==
  /\ EngineTypeOK
  /\ PlaceFits
  /\ PresFit
  /\ PostsFit
  /\ ErrorsFit
  /\ CleanupsFit

-----------------------------------------------------------------------------
(* Lists of calls.                                                         *)

LEMMA PhasesFacts ==
  /\ Len(Phases) \in Nat \ {0} /\ DOMAIN Phases = 1 .. Len(Phases)
  /\ \A a \in 1 .. Len(Phases) : Phases[a] \in STRING
  /\ \A a, b \in 1 .. Len(Phases) : Phases[a] = Phases[b] => a = b
  /\ Len(Hooks) \in Nat /\ DOMAIN Hooks = 1 .. Len(Hooks)
BY PhasesAssumption, HooksAssumption

LEMMA Sizes == Len(Phases) \in Nat \ {0} /\ Len(Hooks) \in Nat
BY PhasesFacts

LEMMA Joined ==
  ASSUME NEW S, NEW s \in Seq(S), NEW t \in Seq(S)
  PROVE  /\ s \o t \in Seq(S)
         /\ Len(s) \in Nat /\ Len(t) \in Nat
         /\ DOMAIN s = 1 .. Len(s) /\ DOMAIN t = 1 .. Len(t)
         /\ DOMAIN (s \o t) = 1 .. Len(s) + Len(t)
         /\ \A c \in 1 .. Len(s) : (s \o t)[c] = s[c]
         /\ \A c \in 1 .. Len(t) : (s \o t)[Len(s) + c] = t[c]
OBVIOUS

\* Calls of others change nothing for a hook.
LEMMA JoinOther ==
  ASSUME NEW S, NEW s \in Seq(S), NEW t \in Seq(S), NEW kind, NEW i,
         \A c \in DOMAIN t : ~(t[c][1] = kind /\ t[c][2] = i)
  PROVE  /\ \A A : MadeFor(s, kind, i, A) => MadeFor(s \o t, kind, i, A)
         /\ Ascending(s, kind, i) => Ascending(s \o t, kind, i)
         /\ Descending(s, kind, i) => Descending(s \o t, kind, i)
<1> DEFINE u == s \o t
<1>1. /\ Len(s) \in Nat /\ Len(t) \in Nat
      /\ DOMAIN s = 1 .. Len(s) /\ DOMAIN t = 1 .. Len(t) /\ DOMAIN u = 1 .. Len(s) + Len(t)
      /\ \A c \in 1 .. Len(s) : u[c] = s[c]
      /\ \A c \in 1 .. Len(t) : u[Len(s) + c] = t[c]
  BY Joined
<1> HIDE DEF u
<1>2. Of(u, kind, i) = Of(s, kind, i) /\ \A c \in Of(s, kind, i) : u[c] = s[c]
  <2>1. ASSUME NEW c \in DOMAIN u, c \notin DOMAIN s PROVE ~(u[c][1] = kind /\ u[c][2] = i)
    <3>1. c - Len(s) \in 1 .. Len(t) /\ Len(s) + (c - Len(s)) = c
      BY <1>1, <2>1
    <3>2. u[c] = t[c - Len(s)]
      BY <1>1, <3>1
    <3> QED BY <1>1, <3>1, <3>2
  <2>2. DOMAIN s \subseteq DOMAIN u
    BY <1>1
  <2> QED BY <1>1, <2>1, <2>2 DEF Of
<1>3. ASSUME NEW A, MadeFor(s, kind, i, A) PROVE MadeFor(u, kind, i, A)
  BY <1>2, <1>3 DEF MadeFor
<1>4. Ascending(s, kind, i) => Ascending(u, kind, i)
  BY <1>2 DEF Ascending
<1>5. Descending(s, kind, i) => Descending(u, kind, i)
  BY <1>2 DEF Descending
<1> QED BY <1>3, <1>4, <1>5 DEF u

\* One call more for a hook.
LEMMA JoinOne ==
  ASSUME NEW S, NEW s \in Seq(S), NEW t \in Seq(S), NEW kind, NEW i,
         NEW j \in DOMAIN t, NEW a \in DOMAIN Phases, NEW A \in SUBSET DOMAIN Phases,
         t[j] = <<kind, i, Phases[a]>>,
         \A c \in DOMAIN t : t[c][1] = kind /\ t[c][2] = i => c = j,
         MadeFor(s, kind, i, A)
  PROVE  /\ MadeFor(s \o t, kind, i, A \cup {a})
         /\ Ascending(s, kind, i) /\ (\A b \in A : b < a) => Ascending(s \o t, kind, i)
         /\ Descending(s, kind, i) /\ (\A b \in A : a < b) => Descending(s \o t, kind, i)
<1> DEFINE u == s \o t
           last == Len(s) + j
<1>1. /\ Len(s) \in Nat /\ Len(t) \in Nat
      /\ DOMAIN s = 1 .. Len(s) /\ DOMAIN t = 1 .. Len(t) /\ DOMAIN u = 1 .. Len(s) + Len(t)
      /\ \A c \in 1 .. Len(s) : u[c] = s[c]
      /\ \A c \in 1 .. Len(t) : u[Len(s) + c] = t[c]
  BY Joined
<1> HIDE DEF u
<1>2. /\ Of(u, kind, i) = Of(s, kind, i) \cup {last}
      /\ \A c \in Of(s, kind, i) : u[c] = s[c] /\ c < last
      /\ u[last][3] = Phases[a]
  <2>1. ASSUME NEW c \in DOMAIN u, c \notin DOMAIN s, u[c][1] = kind, u[c][2] = i
        PROVE  c = last
    <3>1. c - Len(s) \in 1 .. Len(t) /\ Len(s) + (c - Len(s)) = c
      BY <1>1, <2>1
    <3>2. u[c] = t[c - Len(s)]
      BY <1>1, <3>1
    <3>3. c - Len(s) = j
      BY <1>1, <2>1, <3>1, <3>2
    <3> QED BY <1>1, <3>1, <3>3
  <2>2. last \in DOMAIN u /\ u[last] = t[j]
    BY <1>1
  <2>3. u[last][1] = kind /\ u[last][2] = i /\ u[last][3] = Phases[a]
    BY <2>2
  <2>4. DOMAIN s \subseteq DOMAIN u /\ \A c \in DOMAIN s : u[c] = s[c] /\ c < last
    BY <1>1
  <2> HIDE DEF last
  <2> QED BY <2>1, <2>2, <2>3, <2>4 DEF Of
<1> HIDE DEF last
<1>3. MadeFor(u, kind, i, A \cup {a})
  BY <1>2 DEF MadeFor
<1>4. \A c \in Of(s, kind, i), b \in DOMAIN Phases : s[c][3] = Phases[b] => b \in A
  BY PhasesFacts DEF MadeFor
<1>5. \A b \in DOMAIN Phases : u[last][3] = Phases[b] => b = a
  BY <1>2, PhasesFacts
<1>6. ASSUME Ascending(s, kind, i), \A b \in A : b < a PROVE Ascending(u, kind, i)
  <2> SUFFICES ASSUME NEW c \in Of(u, kind, i), NEW d \in Of(u, kind, i),
                      NEW x \in DOMAIN Phases, NEW y \in DOMAIN Phases,
                      c < d, u[c][3] = Phases[x], u[d][3] = Phases[y]
               PROVE  x < y
    BY DEF Ascending
  <2>1. c \in Nat /\ d \in Nat /\ last \in Nat
    BY <1>1, <1>2 DEF Of
  <2>2. c \in Of(s, kind, i)
    BY <1>2, <2>1
  <2>3. CASE d = last
    BY <1>2, <1>4, <1>5, <1>6, <2>2, <2>3
  <2>4. CASE d \in Of(s, kind, i)
    BY <1>2, <1>6, <2>2, <2>4 DEF Ascending
  <2> QED BY <1>2, <2>3, <2>4
<1>7. ASSUME Descending(s, kind, i), \A b \in A : a < b PROVE Descending(u, kind, i)
  <2> SUFFICES ASSUME NEW c \in Of(u, kind, i), NEW d \in Of(u, kind, i),
                      NEW x \in DOMAIN Phases, NEW y \in DOMAIN Phases,
                      c < d, u[c][3] = Phases[x], u[d][3] = Phases[y]
               PROVE  y < x
    BY DEF Descending
  <2>1. c \in Nat /\ d \in Nat /\ last \in Nat
    BY <1>1, <1>2 DEF Of
  <2>2. c \in Of(s, kind, i)
    BY <1>2, <2>1
  <2>3. CASE d = last
    BY <1>2, <1>4, <1>5, <1>7, <2>2, <2>3
  <2>4. CASE d \in Of(s, kind, i)
    BY <1>2, <1>7, <2>2, <2>4 DEF Descending
  <2> QED BY <1>2, <2>3, <2>4
<1> QED BY <1>3, <1>6, <1>7 DEF u

\* The same for a single call.
LEMMA AppendOther ==
  ASSUME NEW S, NEW s \in Seq(S), NEW e \in S, NEW kind, NEW i,
         ~(e[1] = kind /\ e[2] = i)
  PROVE  /\ \A A : MadeFor(s, kind, i, A) => MadeFor(Append(s, e), kind, i, A)
         /\ Ascending(s, kind, i) => Ascending(Append(s, e), kind, i)
         /\ Descending(s, kind, i) => Descending(Append(s, e), kind, i)
<1> DEFINE t == <<e>>
<1>1. t \in Seq(S) /\ DOMAIN t = {1} /\ t[1] = e /\ Append(s, e) = s \o t
  OBVIOUS
<1> HIDE DEF t
<1>2. \A c \in DOMAIN t : ~(t[c][1] = kind /\ t[c][2] = i)
  BY <1>1
<1>3. /\ \A A : MadeFor(s, kind, i, A) => MadeFor(s \o t, kind, i, A)
      /\ Ascending(s, kind, i) => Ascending(s \o t, kind, i)
      /\ Descending(s, kind, i) => Descending(s \o t, kind, i)
  BY <1>1, <1>2, JoinOther
<1> QED BY <1>1, <1>3

LEMMA AppendOne ==
  ASSUME NEW S, NEW s \in Seq(S), NEW kind, NEW i,
         NEW a \in DOMAIN Phases, NEW A \in SUBSET DOMAIN Phases,
         <<kind, i, Phases[a]>> \in S,
         MadeFor(s, kind, i, A)
  PROVE  LET u == Append(s, <<kind, i, Phases[a]>>) IN
         /\ MadeFor(u, kind, i, A \cup {a})
         /\ Ascending(s, kind, i) /\ (\A b \in A : b < a) => Ascending(u, kind, i)
         /\ Descending(s, kind, i) /\ (\A b \in A : a < b) => Descending(u, kind, i)
<1> DEFINE e == <<kind, i, Phases[a]>>
           t == <<e>>
<1>0. e \in S /\ e = <<kind, i, Phases[a]>>
  OBVIOUS
<1> HIDE DEF e
<1>1. t \in Seq(S) /\ DOMAIN t = {1} /\ t[1] = e /\ Append(s, e) = s \o t
  BY <1>0
<1> HIDE DEF t
<1>2. \A c \in DOMAIN t : t[c][1] = kind /\ t[c][2] = i => c = 1
  BY <1>1
<1>3. 1 \in DOMAIN t /\ t[1] = <<kind, i, Phases[a]>>
  BY <1>0, <1>1
<1>4. LET u == s \o t IN
      /\ MadeFor(u, kind, i, A \cup {a})
      /\ Ascending(s, kind, i) /\ (\A b \in A : b < a) => Ascending(u, kind, i)
      /\ Descending(s, kind, i) /\ (\A b \in A : a < b) => Descending(u, kind, i)
  BY <1>1, <1>2, <1>3, JoinOne
<1> QED BY <1>0, <1>1, <1>4

-----------------------------------------------------------------------------
(* The loop over the hooks.                                                *)

\* Induction over the natural numbers, with a set in the place of a predicate.
LEMMA NatInductionOnSets ==
  ASSUME NEW T, 0 \in T, \A n \in Nat : n \in T => n + 1 \in T
  PROVE  Nat \subseteq T
<1> DEFINE R == {ss \in Nat \X Nat : ss[1] < ss[2]}
<1>1. IsWellFoundedOn(R, Nat)
  BY ONLY NatLessThanWellFounded, Zenon DEF OpToRel
<1>2. ASSUME Nat \ T # {} PROVE FALSE
  <2>1. PICK n \in Nat \ T : \A m \in Nat \ T : <<m, n>> \notin R
    <3> HIDE DEF R
    <3> QED BY <1>1, <1>2, WFMin
  <2>2. n # 0 /\ n - 1 \in Nat
    BY <2>1
  <2>3. n - 1 \notin T
    BY <2>1, <2>2
  <2>4. <<n - 1, n>> \in R
    BY <2>2
  <2> QED BY <2>1, <2>2, <2>3, <2>4
<1> QED BY <1>2

\* The calls that the loop has made, as a function of how far it is.
Called(kind) ==
  CHOOSE f : f = [n \in 0 .. Len(Hooks) |->
    IF n = 0 THEN << >>
    ELSE IF kind \in Hooks[n] THEN Append(f[n - 1], <<kind, n, Phases[k]>>)
    ELSE f[n - 1]]

LEMMA HookCallsAreCalled ==
  ASSUME NEW kind
  PROVE  HookCalls(kind) = Called(kind)[Len(Hooks)]
BY DEF HookCalls, Called

\* There is such a function.
LEMMA CalledExists ==
  ASSUME NEW kind
  PROVE  /\ Called(kind)[0] = << >>
         /\ \A n \in 1 .. Len(Hooks) :
              Called(kind)[n] = IF kind \in Hooks[n]
                                  THEN Append(Called(kind)[n - 1], <<kind, n, Phases[k]>>)
                                  ELSE Called(kind)[n - 1]
<1> DEFINE Body(f, n) ==
      IF n = 0 THEN << >>
      ELSE IF kind \in Hooks[n] THEN Append(f[n - 1], <<kind, n, Phases[k]>>)
      ELSE f[n - 1]
           T == {m \in Nat : \E f : f = [n \in 0 .. m |-> Body(f, n)]}
<1>1. 0 \in T
  <2>1. [n \in 0 .. 0 |-> << >>] = [n \in 0 .. 0 |-> Body([j \in 0 .. 0 |-> << >>], n)]
    OBVIOUS
  <2> QED BY <2>1
<1>2. ASSUME NEW m \in Nat, m \in T PROVE m + 1 \in T
  <2>1. PICK f : f = [n \in 0 .. m |-> Body(f, n)]
    BY <1>2
  <2> DEFINE g == [n \in 0 .. m + 1 |-> IF n <= m THEN f[n] ELSE Body(f, n)]
  <2>2. \A n \in 0 .. m + 1 : n # 0 => n - 1 \in 0 .. m /\ g[n - 1] = f[n - 1]
    OBVIOUS
  <2>3. \A n \in 0 .. m + 1 : Body(g, n) = Body(f, n)
    <3> HIDE DEF g
    <3> QED BY <2>2
  <2>4. \A n \in 0 .. m + 1 : g[n] = Body(f, n)
    <3>1. \A n \in 0 .. m : f[n] = Body(f, n)
      <4> HIDE DEF Body
      <4> QED BY <2>1, Zenon
    <3> HIDE DEF Body
    <3> QED BY <3>1
  <2>5. g = [n \in 0 .. m + 1 |-> Body(g, n)]
    <3>1. g = [n \in 0 .. m + 1 |-> g[n]]
      OBVIOUS
    <3> HIDE DEF g, Body
    <3> QED BY <2>3, <2>4, <3>1
  <2> HIDE DEF g, Body
  <2> QED BY <2>5
<1>3. Len(Hooks) \in T
  <2> HIDE DEF T
  <2> QED BY <1>1, <1>2, NatInductionOnSets, PhasesFacts
<1>4. \E f : f = [n \in 0 .. Len(Hooks) |-> Body(f, n)]
  <2> HIDE DEF Body
  <2> QED BY <1>3
<1> DEFINE f == Called(kind)
<1>5. f = [n \in 0 .. Len(Hooks) |-> Body(f, n)]
  BY <1>4 DEF Called
<1> HIDE DEF f
<1>6. \A n \in 0 .. Len(Hooks) : f[n] = Body(f, n)
  <2> HIDE DEF Body
  <2> QED BY <1>5, Zenon
<1>7. f[0] = << >>
  <2>1. 0 \in 0 .. Len(Hooks)
    BY PhasesFacts
  <2>2. f[0] = Body(f, 0)
    <3> HIDE DEF Body
    <3> QED BY <1>6, <2>1, Zenon
  <2>3. Body(f, 0) = << >>
    OBVIOUS
  <2> QED BY <2>2, <2>3
<1>8. \A n \in 1 .. Len(Hooks) : n \in 0 .. Len(Hooks) /\ n # 0
  BY PhasesFacts
<1>9. \A n \in 1 .. Len(Hooks) : f[n] = Body(f, n)
  <2> HIDE DEF Body
  <2> QED BY <1>6, <1>8
<1> QED BY <1>7, <1>8, <1>9 DEF f

\* Every hook that implements the kind is called once, and no other is.
LEMMA HookCallsProperties ==
  ASSUME NEW kind \in HookKinds, k \in DOMAIN Phases
  PROVE  /\ HookCalls(kind) \in Seq(Calls)
         /\ \A c \in DOMAIN HookCalls(kind) :
              \E i \in DOMAIN Hooks :
                kind \in Hooks[i] /\ HookCalls(kind)[c] = <<kind, i, Phases[k]>>
         /\ \A i \in DOMAIN Hooks :
              kind \in Hooks[i] =>
                \E c \in DOMAIN HookCalls(kind) : HookCalls(kind)[c] = <<kind, i, Phases[k]>>
         /\ \A c, d \in DOMAIN HookCalls(kind) :
              HookCalls(kind)[c][2] = HookCalls(kind)[d][2] => c = d
<1> DEFINE f == Called(kind)
           E(n) == <<kind, n, Phases[k]>>
           Good(n) == /\ f[n] \in Seq(Calls)
                      /\ \A c \in DOMAIN f[n] :
                           \E i \in 1 .. n : kind \in Hooks[i] /\ f[n][c] = E(i)
                      /\ \A i \in 1 .. n :
                           kind \in Hooks[i] => \E c \in DOMAIN f[n] : f[n][c] = E(i)
                      /\ \A c, d \in DOMAIN f[n] : f[n][c][2] = f[n][d][2] => c = d
           T == {n \in Nat : n <= Len(Hooks) => Good(n)}
<1>0. /\ f[0] = << >>
      /\ \A n \in 1 .. Len(Hooks) :
           f[n] = IF kind \in Hooks[n] THEN Append(f[n - 1], E(n)) ELSE f[n - 1]
  BY CalledExists
<1>e. \A n : E(n)[2] = n
  OBVIOUS
<1>c. \A n \in Nat : E(n) \in Calls
  <2>1. Phases[k] \in STRING
    BY PhasesFacts
  <2>2. kind \in {"pre", "post", "onError", "cleanup"}
    BY DEF HookKinds
  <2> QED BY <2>1, <2>2 DEF Calls
<1> HIDE DEF f, E
<1>1. 0 \in T
  <2>1. f[0] = << >> /\ << >> \in Seq(Calls) /\ DOMAIN f[0] = {} /\ 1 .. 0 = {}
    BY <1>0
  <2>2. Good(0)
    BY <2>1
  <2> HIDE DEF Good
  <2> QED BY <2>2
<1>2. ASSUME NEW n \in Nat, n \in T PROVE n + 1 \in T
  <2> SUFFICES ASSUME n + 1 <= Len(Hooks) PROVE Good(n + 1)
    OBVIOUS
  <2>1. Good(n) /\ n + 1 \in 1 .. Len(Hooks) /\ (n + 1) - 1 = n
    BY <1>2, PhasesFacts
  <2> DEFINE old == f[n]
             new == f[n + 1]
  <2>2. CASE kind \notin Hooks[n + 1]
    <3>1. f[n + 1] = f[n]
      BY <1>0, <2>1, <2>2
    <3>2. \A i \in 1 .. n + 1 : kind \in Hooks[i] => i \in 1 .. n
      BY <2>1, <2>2
    <3>3. 1 .. n \subseteq 1 .. n + 1
      OBVIOUS
    <3> QED BY <2>1, <3>1, <3>2, <3>3
  <2>3. CASE kind \in Hooks[n + 1]
    <3>1. new = Append(old, E(n + 1))
      BY <1>0, <2>1, <2>3
    <3> HIDE DEF old, new
    <3>2. old \in Seq(Calls) /\ E(n + 1) \in Calls
      BY <1>c, <2>1 DEF old
    <3>3. /\ new \in Seq(Calls)
          /\ DOMAIN old = 1 .. Len(old) /\ DOMAIN new = 1 .. Len(old) + 1 /\ Len(old) \in Nat
          /\ \A c \in 1 .. Len(old) : new[c] = old[c]
          /\ new[Len(old) + 1] = E(n + 1)
      BY <3>1, <3>2
    <3>4. \A c \in DOMAIN old : \E i \in 1 .. n : kind \in Hooks[i] /\ old[c] = E(i)
      BY <2>1 DEF old
    <3>5. \A c \in DOMAIN new : \E i \in 1 .. n + 1 : kind \in Hooks[i] /\ new[c] = E(i)
      BY <2>1, <2>3, <3>3, <3>4
    <3>6. \A i \in 1 .. n + 1 :
            kind \in Hooks[i] => \E c \in DOMAIN new : new[c] = E(i)
      <4>1. \A i \in 1 .. n : kind \in Hooks[i] => \E c \in DOMAIN old : old[c] = E(i)
        BY <2>1 DEF old
      <4>2. \A i \in 1 .. n + 1 : i \in 1 .. n \/ i = n + 1
        OBVIOUS
      <4> QED BY <3>3, <4>1, <4>2
    <3>7. \A c, d \in DOMAIN new : new[c][2] = new[d][2] => c = d
      <4>1. \A c, d \in DOMAIN old : old[c][2] = old[d][2] => c = d
        BY <2>1 DEF old
      <4>2. \A c \in DOMAIN old : old[c][2] # n + 1
        BY <1>e, <3>4
      <4> QED BY <1>e, <3>3, <4>1, <4>2
    <3> QED BY <3>3, <3>5, <3>6, <3>7 DEF new
  <2> QED BY <2>2, <2>3
<1>3. Nat \subseteq T
  <2> HIDE DEF T
  <2> QED BY <1>1, <1>2, NatInductionOnSets
<1>4. Good(Len(Hooks))
  BY <1>3, PhasesFacts
<1>5. HookCalls(kind) = f[Len(Hooks)]
  BY HookCallsAreCalled DEF f
<1> QED BY <1>4, <1>5, PhasesFacts DEF E

\* What the calls of a kind add for the hook i, and for everyone else.
LEMMA HookCallsAdd ==
  ASSUME NEW s \in Seq(Calls), NEW kind \in HookKinds, k \in DOMAIN Phases
  PROVE  /\ s \o HookCalls(kind) \in Seq(Calls)
         /\ \A kind2, i :
              kind2 # kind \/ i \notin DOMAIN Hooks \/ kind \notin Hooks[i] =>
                /\ \A A : MadeFor(s, kind2, i, A) => MadeFor(s \o HookCalls(kind), kind2, i, A)
                /\ Ascending(s, kind2, i) => Ascending(s \o HookCalls(kind), kind2, i)
                /\ Descending(s, kind2, i) => Descending(s \o HookCalls(kind), kind2, i)
         /\ \A i \in DOMAIN Hooks, A \in SUBSET DOMAIN Phases :
              kind \in Hooks[i] /\ MadeFor(s, kind, i, A) =>
                /\ MadeFor(s \o HookCalls(kind), kind, i, A \cup {k})
                /\ Ascending(s, kind, i) /\ (\A b \in A : b < k) =>
                     Ascending(s \o HookCalls(kind), kind, i)
<1> DEFINE t == HookCalls(kind)
<1>1. /\ t \in Seq(Calls)
      /\ \A c \in DOMAIN t : \E i \in DOMAIN Hooks :
           kind \in Hooks[i] /\ t[c] = <<kind, i, Phases[k]>>
      /\ \A i \in DOMAIN Hooks :
           kind \in Hooks[i] => \E c \in DOMAIN t : t[c] = <<kind, i, Phases[k]>>
      /\ \A c, d \in DOMAIN t : t[c][2] = t[d][2] => c = d
  BY HookCallsProperties
<1> HIDE DEF t
<1>2. s \o t \in Seq(Calls)
  BY <1>1
<1>3. ASSUME NEW kind2, NEW i,
             kind2 # kind \/ i \notin DOMAIN Hooks \/ kind \notin Hooks[i]
      PROVE  /\ \A A : MadeFor(s, kind2, i, A) => MadeFor(s \o t, kind2, i, A)
             /\ Ascending(s, kind2, i) => Ascending(s \o t, kind2, i)
             /\ Descending(s, kind2, i) => Descending(s \o t, kind2, i)
  <2>1. \A c \in DOMAIN t : ~(t[c][1] = kind2 /\ t[c][2] = i)
    BY <1>1, <1>3
  <2> QED BY <1>1, <2>1, JoinOther
<1>4. ASSUME NEW i \in DOMAIN Hooks, NEW A \in SUBSET DOMAIN Phases,
             kind \in Hooks[i], MadeFor(s, kind, i, A)
      PROVE  /\ MadeFor(s \o t, kind, i, A \cup {k})
             /\ Ascending(s, kind, i) /\ (\A b \in A : b < k) => Ascending(s \o t, kind, i)
  <2>1. PICK j \in DOMAIN t : t[j] = <<kind, i, Phases[k]>>
    BY <1>1, <1>4
  <2>2. \A c \in DOMAIN t : t[c][1] = kind /\ t[c][2] = i => c = j
    BY <1>1, <2>1
  <2> QED BY <1>1, <1>4, <2>1, <2>2, JoinOne
<1> QED BY <1>2, <1>3, <1>4 DEF t

-----------------------------------------------------------------------------
(* The counters of Execute.                                                *)

EngineBase == EngineTypeOK /\ PlaceFits

LEMMA BaseParts ==
  EngineBase <=> /\ FlowTyped /\ CountersTyped /\ ListsTyped
                 /\ CountersFit /\ OutcomeFits /\ RanFits
BY DEF EngineBase, EngineTypeOK, PlaceFits

LEMMA BasePartsNext ==
  EngineBase' <=> /\ FlowTyped' /\ CountersTyped' /\ ListsTyped'
                  /\ CountersFit' /\ OutcomeFits' /\ RanFits'
BY DEF EngineBase, EngineTypeOK, PlaceFits

LEMMA EngineBaseInit == EngineInit => EngineBase
<1> SUFFICES ASSUME EngineInit PROVE EngineBase
  OBVIOUS
<1>1. FlowTyped
  BY DEF EngineInit, FlowTyped
<1>2. CountersTyped
  BY PhasesFacts DEF EngineInit, CountersTyped
<1>3. ListsTyped
  BY DEF EngineInit, ListsTyped
<1>4. CountersFit
  BY DEF EngineInit, CountersFit
<1>5. OutcomeFits
  BY DEF EngineInit, OutcomeFits
<1>6. RanFits
  BY DEF EngineInit, RanFits
<1> QED BY <1>1, <1>2, <1>3, <1>4, <1>5, <1>6, BaseParts

\* What a call of a hook or of a cleanup is.
LEMMA CallsAre ==
  ASSUME NEW kind \in {"pre", "post", "onError", "cleanup"}, NEW i \in Nat,
         NEW a \in 1 .. Len(Phases)
  PROVE  <<kind, i, Phases[a]>> \in Calls
BY PhasesFacts DEF Calls

LEMMA Appended ==
  ASSUME NEW S, NEW s \in Seq(S), NEW e \in S
  PROVE  /\ Append(s, e) \in Seq(S)
         /\ Len(Append(s, e)) = Len(s) + 1 /\ Len(s) \in Nat
         /\ DOMAIN s = 1 .. Len(s) /\ DOMAIN Append(s, e) = 1 .. Len(s) + 1
         /\ \A c \in 1 .. Len(s) : Append(s, e)[c] = s[c]
         /\ Append(s, e)[Len(s) + 1] = e
OBVIOUS

LEMMA ExecuteBase ==
  EngineBase /\ Execute => EngineBase'
<1> SUFFICES ASSUME EngineBase, Execute PROVE EngineBase'
  OBVIOUS
<1>0. /\ FlowTyped /\ CountersTyped /\ ListsTyped
      /\ CountersFit /\ OutcomeFits /\ RanFits
  BY BaseParts
<1>1. FlowTyped'
  BY <1>0 DEF Execute, FlowTyped, Failures
<1>2. CountersTyped'
  BY <1>0, Sizes DEF Execute, CountersTyped, CountersFit
<1>3. ListsTyped'
  BY <1>0 DEF Execute, ListsTyped, CountersTyped, CountersFit
<1>4. CountersFit'
  BY <1>0, Sizes DEF Execute, CountersTyped, CountersFit, OutcomeFits
<1>5. OutcomeFits'
  BY <1>0 DEF Execute, FlowTyped, OutcomeFits, Failures
<1>6. RanFits'
  BY <1>0, Sizes DEF Execute, RanFits, CountersTyped, CountersFit, OutcomeFits, ListsTyped
<1> QED BY <1>1, <1>2, <1>3, <1>4, <1>5, <1>6, BasePartsNext

LEMMA CancelBase ==
  EngineBase /\ Cancel => EngineBase'
<1> SUFFICES ASSUME EngineBase, Cancel PROVE EngineBase'
  OBVIOUS
<1>0. /\ FlowTyped /\ CountersTyped /\ ListsTyped
      /\ CountersFit /\ OutcomeFits /\ RanFits
  BY BaseParts
<1>1. FlowTyped'
  BY <1>0 DEF Cancel, passed, failing, FlowTyped, Failures
<1>2. CountersTyped'
  BY <1>0, Sizes DEF Cancel, passed, failing, CountersTyped, CountersFit
<1>3. ListsTyped'
  BY <1>0 DEF Cancel, passed, failing, ListsTyped, CountersTyped, CountersFit
<1>4. CountersFit'
  BY <1>0, Sizes DEF Cancel, passed, failing, CountersTyped, CountersFit, OutcomeFits
<1>5. OutcomeFits'
  BY <1>0 DEF Cancel, passed, failing, FlowTyped, OutcomeFits, Failures
<1>6. RanFits'
  BY <1>0, Sizes
     DEF Cancel, passed, failing, RanFits, CountersTyped, CountersFit, OutcomeFits,
         ListsTyped
<1> QED BY <1>1, <1>2, <1>3, <1>4, <1>5, <1>6, BasePartsNext

LEMMA CheckContextBase ==
  EngineBase /\ CheckContext => EngineBase'
<1> SUFFICES ASSUME EngineBase, CheckContext PROVE EngineBase'
  OBVIOUS
<1>0. /\ FlowTyped /\ CountersTyped /\ ListsTyped
      /\ CountersFit /\ OutcomeFits /\ RanFits
  BY BaseParts
<1>1. FlowTyped'
  BY <1>0 DEF CheckContext, Fail, passed, settled, failing, FlowTyped, Failures
<1>2. CountersTyped'
  BY <1>0, Sizes DEF CheckContext, Fail, passed, settled, failing, CountersTyped, CountersFit
<1>3. ListsTyped'
  BY <1>0 DEF CheckContext, Fail, passed, settled, failing, ListsTyped, CountersTyped, CountersFit
<1>4. CountersFit'
  BY <1>0, Sizes
     DEF CheckContext, Fail, passed, settled, failing, CountersTyped, CountersFit,
         OutcomeFits
<1>5. OutcomeFits'
  BY <1>0 DEF CheckContext, Fail, passed, settled, failing, FlowTyped, OutcomeFits, Failures
<1>6. RanFits'
  BY <1>0, Sizes
     DEF CheckContext, Fail, passed, settled, failing, RanFits, CountersTyped, CountersFit,
         OutcomeFits, ListsTyped
<1> QED BY <1>1, <1>2, <1>3, <1>4, <1>5, <1>6, BasePartsNext

LEMMA PreHookBase ==
  EngineBase /\ PreHook => EngineBase'
<1> SUFFICES ASSUME EngineBase, PreHook PROVE EngineBase'
  OBVIOUS
<1>0. /\ FlowTyped /\ CountersTyped /\ ListsTyped
      /\ CountersFit /\ OutcomeFits /\ RanFits
  BY BaseParts
<1>a. at = "pre" /\ hook <= Len(Hooks) /\ UNCHANGED <<passed, settled>>
  BY DEF PreHook
<1>b. \/ at' = "pre" /\ hook' = hook + 1 /\ UNCHANGED failing
      \/ at' = "cleanup" /\ hook' = hook /\ cleaning' = completed /\ outcome' = "hookError"
  BY DEF PreHook, Fail, failing
<1>1. FlowTyped'
  BY <1>0, <1>a, <1>b DEF passed, settled, failing, FlowTyped, Failures
<1>2. CountersTyped'
  BY <1>0, <1>a, <1>b, Sizes DEF passed, settled, failing, CountersTyped, CountersFit
<1>3. ListsTyped'
  <2> DEFINE e == <<"pre", hook, Phases[k]>>
  <2>1. e \in Calls
    <3>1. hook \in Nat /\ k \in 1 .. Len(Phases)
      BY <1>0, <1>a, Sizes DEF CountersTyped, CountersFit
    <3> QED BY <3>1, CallsAre
  <2>2. calls' = calls \/ calls' = Append(calls, e)
    BY DEF PreHook
  <2>3. ran' = ran /\ ran \in Seq(STRING) /\ calls \in Seq(Calls)
    BY <1>0 DEF PreHook, settled, ListsTyped
  <2> HIDE DEF e
  <2> QED BY <2>1, <2>2, <2>3 DEF ListsTyped
<1>4. CountersFit'
  BY <1>0, <1>a, <1>b, Sizes DEF passed, settled, failing, CountersTyped, CountersFit, OutcomeFits
<1>5. OutcomeFits'
  BY <1>0, <1>a, <1>b DEF passed, settled, failing, FlowTyped, OutcomeFits, Failures
<1>6. RanFits'
  BY <1>0, <1>a, <1>b, Sizes
     DEF passed, settled, failing, RanFits, CountersTyped, CountersFit, OutcomeFits,
         ListsTyped
<1> QED BY <1>1, <1>2, <1>3, <1>4, <1>5, <1>6, BasePartsNext

LEMMA BeginPhaseBase ==
  EngineBase /\ BeginPhase => EngineBase'
<1> SUFFICES ASSUME EngineBase, BeginPhase PROVE EngineBase'
  OBVIOUS
<1>0. /\ FlowTyped /\ CountersTyped /\ ListsTyped
      /\ CountersFit /\ OutcomeFits /\ RanFits
  BY BaseParts
<1>1. FlowTyped'
  BY <1>0 DEF BeginPhase, passed, settled, failing, FlowTyped, Failures
<1>2. CountersTyped'
  BY <1>0, Sizes DEF BeginPhase, passed, settled, failing, CountersTyped, CountersFit
<1>3. ListsTyped'
  BY <1>0 DEF BeginPhase, passed, settled, failing, ListsTyped, CountersTyped, CountersFit
<1>4. CountersFit'
  BY <1>0, Sizes DEF BeginPhase, passed, settled, failing, CountersTyped, CountersFit, OutcomeFits
<1>5. OutcomeFits'
  BY <1>0 DEF BeginPhase, passed, settled, failing, FlowTyped, OutcomeFits, Failures
<1>6. RanFits'
  BY <1>0, Sizes
     DEF BeginPhase, passed, settled, failing, RanFits, CountersTyped, CountersFit,
         OutcomeFits, ListsTyped
<1> QED BY <1>1, <1>2, <1>3, <1>4, <1>5, <1>6, BasePartsNext

LEMMA PhaseReturnsBase ==
  ASSUME EngineBase, NEW err \in BOOLEAN, PhaseReturns(err) PROVE EngineBase'
<1>0. /\ FlowTyped /\ CountersTyped /\ ListsTyped
      /\ CountersFit /\ OutcomeFits /\ RanFits
  BY BaseParts
<1>ran. /\ ran' \in Seq(STRING) /\ Len(ran') = k
        /\ \A j \in DOMAIN ran' : ran'[j] = Phases[j]
  <2>1. ran \in Seq(STRING) /\ Len(ran) = k - 1 /\ k \in 1 .. Len(Phases)
    BY <1>0, PhasesFacts
       DEF PhaseReturns, ListsTyped, RanFits, CountersTyped, CountersFit, OutcomeFits
  <2>2. \A j \in DOMAIN ran : ran[j] = Phases[j]
    BY <1>0 DEF RanFits
  <2>3. Phases[k] \in STRING /\ ran' = Append(ran, Phases[k])
    BY <2>1, PhasesFacts DEF PhaseReturns
  <2>4. /\ ran' \in Seq(STRING) /\ Len(ran') = Len(ran) + 1 /\ DOMAIN ran = 1 .. Len(ran)
        /\ DOMAIN ran' = 1 .. Len(ran) + 1
        /\ \A j \in 1 .. Len(ran) : ran'[j] = ran[j]
        /\ ran'[Len(ran) + 1] = Phases[k]
    BY <2>1, <2>3, Appended
  <2> QED BY <2>1, <2>2, <2>4
<1>1. FlowTyped'
  BY <1>0 DEF PhaseReturns, passed, failing, FlowTyped, Failures
<1>2. CountersTyped'
  BY <1>0, Sizes DEF PhaseReturns, passed, failing, CountersTyped, CountersFit
<1>3. ListsTyped'
  BY <1>0, <1>ran DEF PhaseReturns, ListsTyped
<1>4. CountersFit'
  BY <1>0, Sizes DEF PhaseReturns, passed, failing, CountersTyped, CountersFit, OutcomeFits
<1>5. OutcomeFits'
  BY <1>0 DEF PhaseReturns, passed, failing, FlowTyped, OutcomeFits, Failures
<1>6. RanFits'
  <2>1. at' = "post" /\ k' = k
    BY DEF PhaseReturns, passed
  <2> QED BY <1>ran, <2>1 DEF RanFits
<1> QED BY <1>1, <1>2, <1>3, <1>4, <1>5, <1>6, BasePartsNext

LEMMA AfterPhaseBase ==
  EngineBase /\ AfterPhase => EngineBase'
<1> SUFFICES ASSUME EngineBase, AfterPhase PROVE EngineBase'
  OBVIOUS
<1>0. /\ FlowTyped /\ CountersTyped /\ ListsTyped
      /\ CountersFit /\ OutcomeFits /\ RanFits
  BY BaseParts
<1>a. at = "post" /\ UNCHANGED <<hook, settled>>
  BY DEF AfterPhase
<1>b. \/ /\ phaseErr = TRUE
         /\ at' = "cleanup" /\ cleaning' = completed /\ outcome' = "phaseError"
         /\ UNCHANGED passed
      \/ /\ phaseErr = FALSE
         /\ at' = "context" /\ completed' = completed + 1 /\ k' = k + 1
         /\ UNCHANGED failing
  BY <1>0 DEF AfterPhase, Fail, FlowTyped
<1>1. FlowTyped'
  BY <1>0, <1>a, <1>b DEF passed, settled, failing, FlowTyped, Failures
<1>2. CountersTyped'
  BY <1>0, <1>a, <1>b, Sizes DEF passed, settled, failing, CountersTyped, CountersFit
<1>3. ListsTyped'
  <2>1. k \in DOMAIN Phases /\ calls \in Seq(Calls)
    BY <1>0, <1>a, PhasesFacts DEF ListsTyped, CountersTyped, CountersFit
  <2>2. calls \o HookCalls("post") \in Seq(Calls)
    BY <2>1, HookCallsAdd DEF HookKinds
  <2>3. calls \o HookCalls("post") \o HookCalls("onError") \in Seq(Calls)
    BY <2>1, <2>2, HookCallsAdd DEF HookKinds
  <2> QED BY <1>0, <2>2, <2>3 DEF AfterPhase, settled, ListsTyped
<1>4. CountersFit'
  BY <1>0, <1>a, <1>b, Sizes DEF passed, settled, failing, CountersTyped, CountersFit, OutcomeFits
<1>5. OutcomeFits'
  BY <1>0, <1>a, <1>b DEF passed, settled, failing, FlowTyped, OutcomeFits, Failures
<1>6. RanFits'
  BY <1>0, <1>a, <1>b, Sizes
     DEF passed, settled, failing, RanFits, CountersTyped, CountersFit, OutcomeFits,
         ListsTyped
<1> QED BY <1>1, <1>2, <1>3, <1>4, <1>5, <1>6, BasePartsNext

LEMMA SucceedBase ==
  EngineBase /\ Succeed => EngineBase'
<1> SUFFICES ASSUME EngineBase, Succeed PROVE EngineBase'
  OBVIOUS
<1>0. /\ FlowTyped /\ CountersTyped /\ ListsTyped
      /\ CountersFit /\ OutcomeFits /\ RanFits
  BY BaseParts
<1>1. FlowTyped'
  BY <1>0 DEF Succeed, passed, settled, FlowTyped, Failures
<1>2. CountersTyped'
  BY <1>0, Sizes DEF Succeed, passed, settled, CountersTyped, CountersFit
<1>3. ListsTyped'
  BY <1>0 DEF Succeed, passed, settled, ListsTyped, CountersTyped, CountersFit
<1>4. CountersFit'
  BY <1>0, Sizes DEF Succeed, passed, settled, CountersTyped, CountersFit, OutcomeFits
<1>5. OutcomeFits'
  BY <1>0 DEF Succeed, passed, settled, FlowTyped, OutcomeFits, Failures
<1>6. RanFits'
  BY <1>0, Sizes
     DEF Succeed, passed, settled, RanFits, CountersTyped, CountersFit, OutcomeFits,
         ListsTyped
<1> QED BY <1>1, <1>2, <1>3, <1>4, <1>5, <1>6, BasePartsNext

LEMMA CleanupPhaseBase ==
  EngineBase /\ CleanupPhase => EngineBase'
<1> SUFFICES ASSUME EngineBase, CleanupPhase PROVE EngineBase'
  OBVIOUS
<1>0. /\ FlowTyped /\ CountersTyped /\ ListsTyped
      /\ CountersFit /\ OutcomeFits /\ RanFits
  BY BaseParts
<1>1. FlowTyped'
  BY <1>0 DEF CleanupPhase, passed, settled, FlowTyped, Failures
<1>2. CountersTyped'
  BY <1>0, Sizes DEF CleanupPhase, passed, settled, CountersTyped, CountersFit
<1>3. ListsTyped'
  <2> DEFINE e == <<"cleanup", 0, Cleaning>>
  <2>1. e \in Calls
    <3>1. cleaning \in 1 .. Len(Phases)
      BY <1>0, PhasesFacts DEF CleanupPhase, CountersTyped
    <3> QED BY <3>1, CallsAre DEF Cleaning
  <2>2. calls' = calls \/ calls' = Append(calls, e)
    BY DEF CleanupPhase
  <2>3. ran' = ran /\ ran \in Seq(STRING) /\ calls \in Seq(Calls)
    BY <1>0 DEF CleanupPhase, settled, ListsTyped
  <2> HIDE DEF e
  <2> QED BY <2>1, <2>2, <2>3 DEF ListsTyped
<1>4. CountersFit'
  BY <1>0, Sizes DEF CleanupPhase, passed, settled, CountersTyped, CountersFit, OutcomeFits
<1>5. OutcomeFits'
  BY <1>0 DEF CleanupPhase, passed, settled, FlowTyped, OutcomeFits, Failures
<1>6. RanFits'
  BY <1>0, Sizes
     DEF CleanupPhase, passed, settled, RanFits, CountersTyped, CountersFit, OutcomeFits,
         ListsTyped
<1> QED BY <1>1, <1>2, <1>3, <1>4, <1>5, <1>6, BasePartsNext

LEMMA EndCleanupsBase ==
  EngineBase /\ EndCleanups => EngineBase'
<1> SUFFICES ASSUME EngineBase, EndCleanups PROVE EngineBase'
  OBVIOUS
<1>0. /\ FlowTyped /\ CountersTyped /\ ListsTyped
      /\ CountersFit /\ OutcomeFits /\ RanFits
  BY BaseParts
<1>1. FlowTyped'
  BY <1>0 DEF EndCleanups, passed, settled, failing, FlowTyped, Failures
<1>2. CountersTyped'
  BY <1>0, Sizes DEF EndCleanups, passed, settled, failing, CountersTyped, CountersFit
<1>3. ListsTyped'
  BY <1>0 DEF EndCleanups, passed, settled, failing, ListsTyped, CountersTyped, CountersFit
<1>4. CountersFit'
  BY <1>0, Sizes
     DEF EndCleanups, passed, settled, failing, CountersTyped, CountersFit, OutcomeFits
<1>5. OutcomeFits'
  BY <1>0 DEF EndCleanups, passed, settled, failing, FlowTyped, OutcomeFits, Failures
<1>6. RanFits'
  BY <1>0, Sizes
     DEF EndCleanups, passed, settled, failing, RanFits, CountersTyped, CountersFit,
         OutcomeFits, ListsTyped
<1> QED BY <1>1, <1>2, <1>3, <1>4, <1>5, <1>6, BasePartsNext

LEMMA EngineBaseNext == EngineBase /\ [EngineNext]_engine => EngineBase'
<1> SUFFICES ASSUME EngineBase, [EngineNext]_engine PROVE EngineBase'
  OBVIOUS
<1>1. ASSUME NEW err \in BOOLEAN, PhaseReturns(err) PROVE EngineBase'
  BY <1>1, PhaseReturnsBase
<1>2. CASE UNCHANGED engine
  BY <1>2 DEF engine, EngineBase, EngineTypeOK, FlowTyped, CountersTyped, ListsTyped,
              PlaceFits, CountersFit, OutcomeFits, RanFits
<1> QED BY <1>1, <1>2, ExecuteBase, CancelBase, CheckContextBase, PreHookBase,
           BeginPhaseBase, AfterPhaseBase, SucceedBase, CleanupPhaseBase, EndCleanupsBase
        DEF EngineNext, EngineStep

-----------------------------------------------------------------------------
(* The calls made so far.                                                  *)

CallsFit == PresFit /\ PostsFit /\ ErrorsFit /\ CleanupsFit

LEMMA EmptyLists ==
  ASSUME NEW kind, NEW i
  PROVE  MadeFor(<< >>, kind, i, {}) /\ Ascending(<< >>, kind, i)
         /\ Descending(<< >>, kind, i)
<1>1. Of(<< >>, kind, i) = {}
  BY DEF Of
<1> QED BY <1>1 DEF MadeFor, Ascending, Descending

\* An empty list fits as long as no phase has been begun.
LEMMA NoCalls ==
  ASSUME calls = << >>, ran = << >>, k = 1, at \in {"idle", "context"}, outcome = "none"
  PROVE  CallsFit
<1>1. PresFit
  <2> SUFFICES ASSUME NEW i \in DOMAIN Hooks
               PROVE  \E m \in PreTurns(i) :
                        /\ m \in 0 .. Len(Phases)
                        /\ MadeFor(calls, "pre", i, PreFor(i, m))
                        /\ Ascending(calls, "pre", i)
    BY DEF PresFit
  <2>1. 0 \in PreTurns(i) /\ 0 \in 0 .. Len(Phases) /\ PreFor(i, 0) = {}
    BY Sizes DEF PreTurns, PreFor
  <2> QED BY <2>1, EmptyLists
<1>2. PostsFit
  <2>1. \A i \in DOMAIN Hooks : PostFor(i) = {}
    BY DEF PostFor
  <2> QED BY <2>1, EmptyLists DEF PostsFit
<1>3. ErrorsFit
  <2>1. \A i \in DOMAIN Hooks : ErrorFor(i) = {}
    BY DEF ErrorFor
  <2> QED BY <2>1, EmptyLists DEF ErrorsFit
<1>4. CleanupsFit
  <2>1. CleanupsFor = {}
    BY DEF CleanupsFor, Failures
  <2> QED BY <2>1, EmptyLists DEF CleanupsFit
<1> QED BY <1>1, <1>2, <1>3, <1>4 DEF CallsFit

LEMMA NoCallsNext ==
  ASSUME calls' = << >>, ran' = << >>, k' = 1, at' \in {"idle", "context"}, outcome' = "none"
  PROVE  CallsFit'
<1>1. PresFit'
  <2> SUFFICES ASSUME NEW i \in DOMAIN Hooks
               PROVE  \E m \in PreTurns(i)' :
                        /\ m \in 0 .. Len(Phases)
                        /\ MadeFor(calls', "pre", i, PreFor(i, m))
                        /\ Ascending(calls', "pre", i)
    BY DEF PresFit
  <2>1. 0 \in PreTurns(i)' /\ 0 \in 0 .. Len(Phases) /\ PreFor(i, 0) = {}
    BY Sizes DEF PreTurns, PreFor
  <2> QED BY <2>1, EmptyLists
<1>2. PostsFit'
  <2>1. \A i \in DOMAIN Hooks : PostFor(i)' = {}
    BY DEF PostFor
  <2> QED BY <2>1, EmptyLists DEF PostsFit
<1>3. ErrorsFit'
  <2>1. \A i \in DOMAIN Hooks : ErrorFor(i)' = {}
    BY DEF ErrorFor
  <2> QED BY <2>1, EmptyLists DEF ErrorsFit
<1>4. CleanupsFit'
  <2>1. CleanupsFor' = {}
    BY DEF CleanupsFor, Failures
  <2> QED BY <2>1, EmptyLists DEF CleanupsFit
<1> QED BY <1>1, <1>2, <1>3, <1>4 DEF CallsFit

\* Steps that call nobody, and after which the same calls are due.
LEMMA QuietSteps ==
  ASSUME CallsFit, calls' = calls, CleanupsFor' = CleanupsFor,
         \A i \in DOMAIN Hooks : /\ PreTurns(i) \subseteq PreTurns(i)'
                                 /\ PostFor(i)' = PostFor(i)
                                 /\ ErrorFor(i)' = ErrorFor(i)
  PROVE  CallsFit'
<1>1. PresFit'
  <2> SUFFICES ASSUME NEW i \in DOMAIN Hooks
               PROVE  \E m \in PreTurns(i)' :
                        /\ m \in 0 .. Len(Phases)
                        /\ MadeFor(calls, "pre", i, PreFor(i, m))
                        /\ Ascending(calls, "pre", i)
    BY DEF PresFit, PreFor
  <2> QED BY DEF CallsFit, PresFit
<1>2. PostsFit'
  BY DEF CallsFit, PostsFit
<1>3. ErrorsFit'
  BY DEF CallsFit, ErrorsFit
<1>4. CleanupsFit'
  BY DEF CallsFit, CleanupsFit
<1> QED BY <1>1, <1>2, <1>3, <1>4 DEF CallsFit

\* What the places of Execute say of the calls that are due.
LEMMA Numbers ==
  ASSUME EngineBase
  PROVE  /\ k \in 1 .. Len(Phases) + 1 /\ completed = k - 1 /\ cleaning \in 0 .. Len(Phases)
         /\ hook \in 1 .. Len(Hooks) + 1 /\ Len(ran) \in 0 .. Len(Phases)
         /\ at \in {"context", "pre", "run", "post"} => outcome = "none"
         /\ at \in {"context", "pre", "run"} => Len(ran) = k - 1
         /\ at \in {"pre", "run", "post"} => k \in 1 .. Len(Phases)
         /\ at = "post" => Len(ran) = k
         /\ Len(ran) \in {k - 1, k}
<1>1. /\ CountersTyped /\ CountersFit /\ OutcomeFits /\ RanFits
  BY BaseParts
<1> QED BY <1>1, Sizes DEF CountersTyped, CountersFit, OutcomeFits, RanFits

LEMMA QuietCalls ==
  ASSUME EngineBase, CallsFit,
         \/ Cancel \/ CheckContext \/ BeginPhase \/ Succeed \/ EndCleanups
         \/ \E err \in BOOLEAN : PhaseReturns(err)
         \/ UNCHANGED engine
  PROVE  CallsFit'
<1> DEFINE Same == /\ calls' = calls
                   /\ \A i \in DOMAIN Hooks : PostFor(i)' = PostFor(i)
                   /\ \A i \in DOMAIN Hooks : ErrorFor(i)' = ErrorFor(i)
                   /\ CleanupsFor' = CleanupsFor
                   /\ \A i \in DOMAIN Hooks : PreTurns(i) \subseteq PreTurns(i)'
<1>0. /\ k \in 1 .. Len(Phases) + 1 /\ completed = k - 1 /\ cleaning \in 0 .. Len(Phases)
      /\ hook \in 1 .. Len(Hooks) + 1 /\ Len(ran) \in 0 .. Len(Phases)
      /\ at \in {"context", "pre", "run", "post"} => outcome = "none"
      /\ at \in {"context", "pre", "run"} => Len(ran) = k - 1
      /\ at = "post" => Len(ran) = k
  BY Numbers
<1>1. ASSUME Same PROVE CallsFit'
  BY <1>1, QuietSteps
<1>2. CASE Cancel \/ UNCHANGED engine
  <2>1. UNCHANGED <<at, k, hook, completed, cleaning, outcome, ran, calls>>
    BY <1>2 DEF Cancel, passed, failing, engine
  <2>2. Same
    BY <2>1 DEF PreTurns, PostFor, ErrorFor, CleanupsFor
  <2> QED BY <1>1, <2>2
<1>3. CASE CheckContext
  <2>1. /\ at = "context" /\ UNCHANGED <<k, completed, ran, calls>>
        /\ \/ at' = "cleanup" /\ cleaning' = completed /\ outcome' = "cancelled"
           \/ at' = "pre" /\ hook' = 1 /\ UNCHANGED <<cleaning, outcome>>
    BY <1>3 DEF CheckContext, Fail, passed, settled, failing
  <2>2. \A i \in DOMAIN Hooks : PostFor(i)' = PostFor(i)
    BY <2>1 DEF PostFor
  <2>3. \A i \in DOMAIN Hooks : ErrorFor(i)' = ErrorFor(i)
    BY <1>0, <2>1 DEF ErrorFor
  <2>4. CleanupsFor' = CleanupsFor
    <3>1. CASE at' = "pre"
      BY <2>1, <3>1 DEF CleanupsFor
    <3>2. CASE at' = "cleanup"
      <4>1. cleaning' + 1 .. completed' = {}
        BY <1>0, <2>1, <3>2, Sizes
      <4>2. CleanupsFor' = {}
        BY <4>1 DEF CleanupsFor
      <4>3. CleanupsFor = {}
        BY <1>0, <2>1 DEF CleanupsFor, Failures
      <4> QED BY <4>2, <4>3
    <3> QED BY <2>1, <3>1, <3>2
  <2>5. \A i \in DOMAIN Hooks : PreTurns(i) \subseteq PreTurns(i)'
    <3> SUFFICES ASSUME NEW i \in DOMAIN Hooks PROVE k - 1 \in PreTurns(i)'
      BY <2>1 DEF PreTurns
    <3>1. ~(i < 1)
      BY PhasesFacts
    <3>2. CASE at' = "pre"
      BY <2>1, <3>1, <3>2 DEF PreTurns
    <3>3. CASE at' = "cleanup"
      BY <1>0, <2>1, <3>3 DEF PreTurns
    <3> QED BY <2>1, <3>2, <3>3
  <2> QED BY <1>1, <2>1, <2>2, <2>3, <2>4, <2>5
<1>4. CASE BeginPhase
  <2>1. /\ at = "pre" /\ hook > Len(Hooks) /\ at' = "run"
        /\ UNCHANGED <<k, hook, completed, cleaning, outcome, ran, calls>>
    BY <1>4 DEF BeginPhase, passed, settled, failing
  <2>2. \A i \in DOMAIN Hooks : PreTurns(i) \subseteq PreTurns(i)'
    <3>1. \A i \in DOMAIN Hooks : i < hook
      BY <1>0, <2>1, PhasesFacts
    <3> QED BY <2>1, <3>1 DEF PreTurns
  <2>3. Same
    BY <2>1, <2>2 DEF PostFor, ErrorFor, CleanupsFor
  <2> QED BY <1>1, <2>3
<1>5. CASE Succeed
  <2>1. /\ at = "context" /\ at' = "idle" /\ outcome' = "success"
        /\ UNCHANGED <<k, hook, completed, cleaning, ran, calls>>
    BY <1>5 DEF Succeed, passed, settled
  <2>2. Same
    BY <1>0, <2>1 DEF PreTurns, PostFor, ErrorFor, CleanupsFor, Failures
  <2> QED BY <1>1, <2>2
<1>6. CASE EndCleanups
  <2>1. /\ at = "cleanup" /\ at' = "idle"
        /\ UNCHANGED <<k, hook, completed, cleaning, outcome, ran, calls>>
    BY <1>6 DEF EndCleanups, passed, settled, failing
  <2>2. Same
    BY <2>1 DEF PreTurns, PostFor, ErrorFor, CleanupsFor
  <2> QED BY <1>1, <2>2
<1>7. ASSUME NEW err \in BOOLEAN, PhaseReturns(err) PROVE CallsFit'
  <2>1. /\ at = "run" /\ at' = "post"
        /\ UNCHANGED <<k, hook, completed, cleaning, outcome, calls>>
    BY <1>7 DEF PhaseReturns, passed, failing
  <2>2. /\ \A i \in DOMAIN Hooks : ErrorFor(i)' = ErrorFor(i)
        /\ \A i \in DOMAIN Hooks : PreTurns(i) \subseteq PreTurns(i)'
    BY <2>1 DEF ErrorFor, PreTurns
  <2>3. CleanupsFor' = CleanupsFor
    BY <2>1 DEF CleanupsFor
  <2>4. \A i \in DOMAIN Hooks : PostFor(i)' = PostFor(i)
    BY <1>0, <2>1 DEF PostFor
  <2> QED BY <1>1, <2>1, <2>2, <2>3, <2>4
<1> QED BY <1>2, <1>3, <1>4, <1>5, <1>6, <1>7

LEMMA ExecuteCalls == EngineBase /\ CallsFit /\ Execute => CallsFit'
BY NoCallsNext DEF Execute

LEMMA PreHookCalls == EngineBase /\ CallsFit /\ PreHook => CallsFit'
<1> SUFFICES ASSUME EngineBase, CallsFit, PreHook PROVE CallsFit'
  OBVIOUS
<1>0. /\ k \in 1 .. Len(Phases) /\ completed = k - 1 /\ cleaning \in 0 .. Len(Phases)
      /\ hook \in 1 .. Len(Hooks) /\ Len(ran) = k - 1 /\ outcome = "none"
  BY Numbers, Sizes DEF PreHook
<1>1. /\ at = "pre" /\ UNCHANGED <<k, completed, ran>>
      /\ \/ at' = "pre" /\ hook' = hook + 1 /\ UNCHANGED <<cleaning, outcome>>
         \/ /\ at' = "cleanup" /\ hook' = hook /\ cleaning' = completed
            /\ outcome' = "hookError" /\ "pre" \in Hooks[hook]
  BY DEF PreHook, Fail, passed, settled, failing
<1> DEFINE e == <<"pre", hook, Phases[k]>>
<1>2. e \in Calls /\ calls \in Seq(Calls)
  <2>1. calls \in Seq(Calls)
    BY BaseParts DEF ListsTyped
  <2> QED BY <1>0, <2>1, CallsAre, Sizes
<1>3. calls' = IF "pre" \in Hooks[hook] THEN Append(calls, e) ELSE calls
  BY DEF PreHook
<1>e. e[1] = "pre" /\ e[2] = hook
  OBVIOUS
<1> HIDE DEF e
<1>4. /\ \A i \in DOMAIN Hooks : PostFor(i)' = PostFor(i)
      /\ \A i \in DOMAIN Hooks : ErrorFor(i)' = ErrorFor(i)
  BY <1>0, <1>1 DEF PostFor, ErrorFor
<1>5. CleanupsFor' = CleanupsFor
  <2>1. CASE at' = "pre"
    BY <1>0, <1>1, <2>1 DEF CleanupsFor
  <2>2. CASE at' = "cleanup"
    <3>1. cleaning' + 1 .. completed' = {}
      BY <1>0, <1>1, <2>2, Sizes
    <3>2. CleanupsFor' = {}
      BY <3>1 DEF CleanupsFor
    <3> QED BY <1>0, <3>2 DEF CleanupsFor, Failures
  <2> QED BY <1>1, <2>1, <2>2
<1>6. PostsFit' /\ ErrorsFit' /\ CleanupsFit'
  <2>1. ASSUME NEW kind, NEW i, kind # "pre"
        PROVE  /\ \A A : MadeFor(calls, kind, i, A) => MadeFor(calls', kind, i, A)
               /\ Ascending(calls, kind, i) => Ascending(calls', kind, i)
               /\ Descending(calls, kind, i) => Descending(calls', kind, i)
    <3>1. CASE calls' = calls
      BY <3>1
    <3>2. CASE calls' = Append(calls, e)
      <4>1. ~(e[1] = kind /\ e[2] = i)
        BY <1>e, <2>1
      <4>2. /\ \A A : MadeFor(calls, kind, i, A) => MadeFor(Append(calls, e), kind, i, A)
            /\ Ascending(calls, kind, i) => Ascending(Append(calls, e), kind, i)
            /\ Descending(calls, kind, i) => Descending(Append(calls, e), kind, i)
        BY <1>2, <4>1, AppendOther
      <4> QED BY <3>2, <4>2
    <3> QED BY <1>3, <3>1, <3>2
  <2>2. PostsFit'
    BY <1>4, <2>1 DEF CallsFit, PostsFit
  <2>3. ErrorsFit'
    BY <1>4, <2>1 DEF CallsFit, ErrorsFit
  <2>4. CleanupsFit'
    BY <1>5, <2>1 DEF CallsFit, CleanupsFit
  <2> QED BY <2>2, <2>3, <2>4
<1>7. PresFit'
  <2> SUFFICES ASSUME NEW i \in DOMAIN Hooks
               PROVE  \E m \in PreTurns(i)' :
                        /\ m \in 0 .. Len(Phases)
                        /\ MadeFor(calls', "pre", i, PreFor(i, m))
                        /\ Ascending(calls', "pre", i)
    BY DEF PresFit, PreFor
  <2>1. PICK m \in PreTurns(i) : /\ m \in 0 .. Len(Phases)
                                 /\ MadeFor(calls, "pre", i, PreFor(i, m))
                                 /\ Ascending(calls, "pre", i)
    BY DEF CallsFit, PresFit
  <2>2. m = IF i < hook THEN k ELSE k - 1
    BY <1>1, <2>1 DEF PreTurns
  <2>3. i \in Nat
    BY PhasesFacts
  <2>4. CASE i # hook
    <3>1. MadeFor(calls', "pre", i, PreFor(i, m)) /\ Ascending(calls', "pre", i)
      <4>1. CASE calls' = calls
        BY <2>1, <4>1
      <4>2. CASE calls' = Append(calls, e)
        <5>1. ~(e[1] = "pre" /\ e[2] = i)
          BY <1>e, <2>4
        <5>2. /\ \A A : MadeFor(calls, "pre", i, A) => MadeFor(Append(calls, e), "pre", i, A)
              /\ Ascending(calls, "pre", i) => Ascending(Append(calls, e), "pre", i)
          BY <1>2, <5>1, AppendOther
        <5> QED BY <2>1, <4>2, <5>2
      <4> QED BY <1>3, <4>1, <4>2
    <3>2. m \in PreTurns(i)'
      <4>1. (i < hook) = (i < hook + 1)
        BY <1>0, <2>3, <2>4
      <4>2. CASE at' = "pre"
        BY <1>1, <2>2, <4>1, <4>2 DEF PreTurns
      <4>3. CASE at' = "cleanup"
        BY <1>0, <1>1, <2>2, <4>3 DEF PreTurns
      <4> QED BY <1>1, <4>2, <4>3
    <3> QED BY <2>1, <3>1, <3>2
  <2>5. CASE i = hook /\ "pre" \notin Hooks[hook]
    <3>1. at' = "pre" /\ hook' = hook + 1 /\ calls' = calls
      BY <1>1, <1>3, <2>5
    <3>2. i < hook' /\ k \in 0 .. Len(Phases)
      BY <1>0, <2>3, <2>5, <3>1, Sizes
    <3>3. k \in PreTurns(i)'
      BY <1>1, <3>1, <3>2 DEF PreTurns
    <3>4. PreFor(i, m) = PreFor(i, k)
      BY <2>5 DEF PreFor
    <3> QED BY <2>1, <3>1, <3>2, <3>3, <3>4
  <2>6. CASE i = hook /\ "pre" \in Hooks[hook]
    <3>1. calls' = Append(calls, e) /\ ~(i < hook) /\ m = k - 1
      BY <1>0, <1>3, <2>2, <2>3, <2>6
    <3>2. /\ PreFor(i, m) = 1 .. k - 1 /\ PreFor(i, k) = 1 .. k
          /\ k \in 0 .. Len(Phases) /\ k \in DOMAIN Phases
          /\ 1 .. k - 1 \in SUBSET DOMAIN Phases
          /\ 1 .. k = (1 .. k - 1) \cup {k}
          /\ \A b \in 1 .. k - 1 : b < k
      <4>1. PreFor(i, m) = 1 .. k - 1 /\ PreFor(i, k) = 1 .. k
        BY <2>6, <3>1 DEF PreFor
      <4>2. DOMAIN Phases = 1 .. Len(Phases)
        BY PhasesFacts
      <4> QED BY <1>0, <4>1, <4>2, Sizes
    <3>3. MadeFor(calls, "pre", i, 1 .. k - 1) /\ Ascending(calls, "pre", i)
      BY <2>1, <3>2
    <3>4. MadeFor(calls', "pre", i, PreFor(i, k)) /\ Ascending(calls', "pre", i)
      <4>1. e = <<"pre", i, Phases[k]>>
        BY <2>6 DEF e
      <4>2. LET u == Append(calls, <<"pre", i, Phases[k]>>) IN
            /\ MadeFor(u, "pre", i, (1 .. k - 1) \cup {k})
            /\ Ascending(calls, "pre", i) /\ (\A b \in 1 .. k - 1 : b < k)
                 => Ascending(u, "pre", i)
        <5> DEFINE A == 1 .. k - 1
        <5>1. /\ <<"pre", i, Phases[k]>> \in Calls
              /\ A \in SUBSET DOMAIN Phases /\ k \in DOMAIN Phases
              /\ MadeFor(calls, "pre", i, A)
          BY <1>2, <3>2, <3>3, <4>1
        <5> HIDE DEF A
        <5>2. LET u == Append(calls, <<"pre", i, Phases[k]>>) IN
              /\ MadeFor(u, "pre", i, A \cup {k})
              /\ Ascending(calls, "pre", i) /\ (\A b \in A : b < k) => Ascending(u, "pre", i)
              /\ Descending(calls, "pre", i) /\ (\A b \in A : k < b)
                   => Descending(u, "pre", i)
          BY <1>2, <5>1, AppendOne
        <5> QED BY <5>2 DEF A
      <4> QED BY <3>1, <3>2, <3>3, <4>1, <4>2
    <3>5. k \in PreTurns(i)'
      <4>1. CASE at' = "pre"
        <5>1. i < hook'
          BY <1>0, <1>1, <2>3, <2>6, <4>1
        <5> QED BY <1>1, <4>1, <5>1 DEF PreTurns
      <4>2. CASE at' = "cleanup"
        BY <1>1, <4>2 DEF PreTurns
      <4> QED BY <1>1, <4>1, <4>2
    <3> QED BY <3>2, <3>4, <3>5
  <2> QED BY <2>4, <2>5, <2>6
<1> QED BY <1>6, <1>7 DEF CallsFit

LEMMA AfterPhaseCalls == EngineBase /\ CallsFit /\ AfterPhase => CallsFit'
<1> SUFFICES ASSUME EngineBase, CallsFit, AfterPhase PROVE CallsFit'
  OBVIOUS
<1>0. /\ k \in 1 .. Len(Phases) /\ completed = k - 1 /\ cleaning \in 0 .. Len(Phases)
      /\ Len(ran) = k /\ outcome = "none" /\ at = "post" /\ ran' = ran
  BY Numbers DEF AfterPhase, settled
<1> DEFINE s1 == calls \o HookCalls("post")
           s2 == s1 \o HookCalls("onError")
<1>1. \/ /\ at' = "cleanup" /\ cleaning' = completed /\ outcome' = "phaseError"
         /\ UNCHANGED <<k, completed>> /\ calls' = s2
      \/ /\ at' = "context" /\ completed' = completed + 1 /\ k' = k + 1
         /\ UNCHANGED <<cleaning, outcome>> /\ calls' = s1
  BY DEF AfterPhase, Fail, passed, failing
<1>2. k \in DOMAIN Phases /\ calls \in Seq(Calls)
  BY <1>0, PhasesFacts, BaseParts DEF ListsTyped
<1>3. /\ s1 \in Seq(Calls)
      /\ \A kind, i :
           kind # "post" \/ i \notin DOMAIN Hooks \/ "post" \notin Hooks[i] =>
             /\ \A A : MadeFor(calls, kind, i, A) => MadeFor(s1, kind, i, A)
             /\ Ascending(calls, kind, i) => Ascending(s1, kind, i)
             /\ Descending(calls, kind, i) => Descending(s1, kind, i)
      /\ \A i \in DOMAIN Hooks, A \in SUBSET DOMAIN Phases :
           "post" \in Hooks[i] /\ MadeFor(calls, "post", i, A) =>
             /\ MadeFor(s1, "post", i, A \cup {k})
             /\ Ascending(calls, "post", i) /\ (\A b \in A : b < k) => Ascending(s1, "post", i)
  BY <1>2, HookCallsAdd DEF HookKinds
<1> HIDE DEF s1
<1>4. /\ s2 \in Seq(Calls)
      /\ \A kind, i :
           kind # "onError" \/ i \notin DOMAIN Hooks \/ "onError" \notin Hooks[i] =>
             /\ \A A : MadeFor(s1, kind, i, A) => MadeFor(s2, kind, i, A)
             /\ Ascending(s1, kind, i) => Ascending(s2, kind, i)
             /\ Descending(s1, kind, i) => Descending(s2, kind, i)
      /\ \A i \in DOMAIN Hooks, A \in SUBSET DOMAIN Phases :
           "onError" \in Hooks[i] /\ MadeFor(s1, "onError", i, A) =>
             /\ MadeFor(s2, "onError", i, A \cup {k})
             /\ Ascending(s1, "onError", i) /\ (\A b \in A : b < k) =>
                  Ascending(s2, "onError", i)
  BY <1>2, <1>3, HookCallsAdd DEF HookKinds
<1> HIDE DEF s2
\* The calls before the phases and the cleanups are as they were.
<1>5. /\ \A i \in DOMAIN Hooks : \A A :
           /\ MadeFor(calls, "pre", i, A) => MadeFor(calls', "pre", i, A)
           /\ Ascending(calls, "pre", i) => Ascending(calls', "pre", i)
      /\ MadeFor(calls, "cleanup", 0, {}) => MadeFor(calls', "cleanup", 0, {})
      /\ Descending(calls, "cleanup", 0) => Descending(calls', "cleanup", 0)
  <2>1. ASSUME NEW kind, NEW i, kind \notin {"post", "onError"}
        PROVE  /\ \A A : MadeFor(calls, kind, i, A) => MadeFor(calls', kind, i, A)
               /\ Ascending(calls, kind, i) => Ascending(calls', kind, i)
               /\ Descending(calls, kind, i) => Descending(calls', kind, i)
    BY <1>1, <1>3, <1>4, <2>1
  <2> QED BY <2>1
<1>6. PresFit'
  <2> SUFFICES ASSUME NEW i \in DOMAIN Hooks
               PROVE  \E m \in PreTurns(i)' :
                        /\ m \in 0 .. Len(Phases)
                        /\ MadeFor(calls', "pre", i, PreFor(i, m))
                        /\ Ascending(calls', "pre", i)
    BY DEF PresFit, PreFor
  <2>1. PICK m \in PreTurns(i) : /\ m \in 0 .. Len(Phases)
                                 /\ MadeFor(calls, "pre", i, PreFor(i, m))
                                 /\ Ascending(calls, "pre", i)
    BY DEF CallsFit, PresFit
  <2>2. m = k
    BY <1>0, <2>1 DEF PreTurns
  <2>3. k \in PreTurns(i)'
    <3>1. CASE at' = "cleanup"
      BY <1>0, <1>1, <3>1 DEF PreTurns
    <3>2. CASE at' = "context"
      <4>1. k' - 1 = k
        BY <1>0, <1>1, <3>2
      <4> QED BY <3>2, <4>1 DEF PreTurns
    <3> QED BY <1>1, <3>1, <3>2
  <2> QED BY <1>5, <2>1, <2>2, <2>3
<1>7. PostsFit'
  <2> SUFFICES ASSUME NEW i \in DOMAIN Hooks
               PROVE  MadeFor(calls', "post", i, PostFor(i)') /\ Ascending(calls', "post", i)
    BY DEF PostsFit
  <2>1. MadeFor(calls, "post", i, PostFor(i)) /\ Ascending(calls, "post", i)
    BY DEF CallsFit, PostsFit
  <2>2. MadeFor(s1, "post", i, PostFor(i)') /\ Ascending(s1, "post", i)
    <3>1. at' # "post"
      BY <1>1
    <3>2. CASE "post" \notin Hooks[i]
      <4>1. PostFor(i) = {} /\ PostFor(i)' = {}
        BY <3>2 DEF PostFor
      <4> QED BY <1>3, <2>1, <3>2, <4>1
    <3>3. CASE "post" \in Hooks[i]
      <4> DEFINE A == 1 .. k - 1
      <4>1. PostFor(i) = A /\ PostFor(i)' = A \cup {k}
        <5>1. PostFor(i)' = 1 .. k
          BY <1>0, <3>1, <3>3 DEF PostFor
        <5>2. PostFor(i) = A
          BY <1>0, <3>3 DEF PostFor
        <5>3. 1 .. k = A \cup {k}
          BY <1>0
        <5> QED BY <5>1, <5>2, <5>3
      <4>2. A \in SUBSET DOMAIN Phases /\ \A b \in A : b < k
        <5>1. DOMAIN Phases = 1 .. Len(Phases)
          BY PhasesFacts
        <5> QED BY <1>0, <5>1, Sizes
      <4> HIDE DEF A
      <4> QED BY <1>3, <2>1, <3>3, <4>1, <4>2
    <3> QED BY <3>2, <3>3
  <2> QED BY <1>1, <1>4, <2>2
<1>8. ErrorsFit'
  <2> SUFFICES ASSUME NEW i \in DOMAIN Hooks
               PROVE  /\ MadeFor(calls', "onError", i, ErrorFor(i)')
                      /\ Ascending(calls', "onError", i)
    BY DEF ErrorsFit
  <2>1. MadeFor(calls, "onError", i, {}) /\ Ascending(calls, "onError", i)
    <3>1. ErrorFor(i) = {}
      BY <1>0 DEF ErrorFor
    <3> QED BY <3>1 DEF CallsFit, ErrorsFit
  <2>2. MadeFor(s1, "onError", i, {}) /\ Ascending(s1, "onError", i)
    BY <1>3, <2>1
  <2>3. CASE at' = "context"
    <3>1. calls' = s1 /\ ErrorFor(i)' = {}
      BY <1>0, <1>1, <2>3 DEF ErrorFor
    <3> QED BY <2>2, <3>1
  <2>4. CASE at' = "cleanup"
    <3>1. calls' = s2 /\ k' = k /\ outcome' = "phaseError"
      BY <1>1, <2>4
    <3>2. CASE "onError" \notin Hooks[i]
      <4>1. ErrorFor(i)' = {}
        BY <3>2 DEF ErrorFor
      <4> QED BY <1>4, <2>2, <3>1, <3>2, <4>1
    <3>3. CASE "onError" \in Hooks[i]
      <4> DEFINE A == {}
      <4>1. ErrorFor(i)' = A \cup {k}
        BY <3>1, <3>3 DEF ErrorFor
      <4>2. /\ A \in SUBSET DOMAIN Phases /\ \A b \in A : b < k
            /\ MadeFor(s1, "onError", i, A)
        BY <2>2
      <4> HIDE DEF A
      <4> QED BY <1>4, <2>2, <3>1, <3>3, <4>1, <4>2
    <3> QED BY <3>2, <3>3
  <2> QED BY <1>1, <2>3, <2>4
<1>9. CleanupsFit'
  <2>1. CleanupsFor = {}
    BY <1>0 DEF CleanupsFor, Failures
  <2>2. CleanupsFor' = {}
    <3>1. CASE at' = "context"
      BY <1>0, <1>1, <3>1 DEF CleanupsFor, Failures
    <3>2. CASE at' = "cleanup"
      <4>1. cleaning' + 1 .. completed' = {}
        BY <1>0, <1>1, <3>2, Sizes
      <4> QED BY <4>1 DEF CleanupsFor
    <3> QED BY <1>1, <3>1, <3>2
  <2> QED BY <1>5, <2>1, <2>2 DEF CallsFit, CleanupsFit
<1> QED BY <1>6, <1>7, <1>8, <1>9 DEF CallsFit

LEMMA CleanupPhaseCalls == EngineBase /\ CallsFit /\ CleanupPhase => CallsFit'
<1> SUFFICES ASSUME EngineBase, CallsFit, CleanupPhase PROVE CallsFit'
  OBVIOUS
<1>1. /\ at = "cleanup" /\ at' = at /\ cleaning' = cleaning - 1
      /\ UNCHANGED <<k, completed, outcome, ran, hook>>
  BY DEF CleanupPhase, passed, settled
<1>2. /\ cleaning \in 1 .. Len(Phases) /\ cleaning \in 1 .. completed /\ completed \in Nat
      /\ outcome \in Failures /\ cleaning \in DOMAIN Phases
      /\ 1 .. completed \subseteq DOMAIN Phases
  <2>1. CountersTyped /\ CountersFit /\ outcome \in Failures
    BY <1>1, BaseParts DEF OutcomeFits
  <2>2. cleaning > 0
    BY DEF CleanupPhase
  <2>3. /\ cleaning \in 1 .. Len(Phases) /\ cleaning \in 1 .. completed
        /\ completed \in 0 .. Len(Phases)
    BY <1>1, <2>1, <2>2, Sizes DEF CountersTyped, CountersFit
  <2>4. DOMAIN Phases = 1 .. Len(Phases)
    BY PhasesFacts
  <2> QED BY <2>1, <2>3, <2>4, Sizes
<1> DEFINE e == <<"cleanup", 0, Cleaning>>
<1>3. e \in Calls /\ calls \in Seq(Calls) /\ Cleaning = Phases[cleaning]
  <2>1. calls \in Seq(Calls)
    BY BaseParts DEF ListsTyped
  <2> QED BY <1>2, <2>1, CallsAre DEF Cleaning
<1>4. calls' = IF Cleaning \in Cleanable THEN Append(calls, e) ELSE calls
  BY DEF CleanupPhase
<1>e. e[1] = "cleanup" /\ e[2] = 0 /\ e = <<"cleanup", 0, Phases[cleaning]>>
  BY <1>3
<1> HIDE DEF e
<1>5. \A i \in DOMAIN Hooks : /\ PostFor(i)' = PostFor(i)
                              /\ ErrorFor(i)' = ErrorFor(i)
                              /\ PreTurns(i)' = PreTurns(i)
  BY <1>1 DEF PostFor, ErrorFor, PreTurns
<1>6. ASSUME NEW kind, NEW i, kind # "cleanup"
      PROVE  /\ \A A : MadeFor(calls, kind, i, A) => MadeFor(calls', kind, i, A)
             /\ Ascending(calls, kind, i) => Ascending(calls', kind, i)
  <2>1. CASE calls' = calls
    BY <2>1
  <2>2. CASE calls' = Append(calls, e)
    <3>1. ~(e[1] = kind /\ e[2] = i)
      BY <1>e, <1>6
    <3>2. /\ \A A : MadeFor(calls, kind, i, A) => MadeFor(Append(calls, e), kind, i, A)
          /\ Ascending(calls, kind, i) => Ascending(Append(calls, e), kind, i)
      BY <1>3, <3>1, AppendOther
    <3> QED BY <2>2, <3>2
  <2> QED BY <1>4, <2>1, <2>2
<1>7. PresFit'
  <2> SUFFICES ASSUME NEW i \in DOMAIN Hooks
               PROVE  \E m \in PreTurns(i)' :
                        /\ m \in 0 .. Len(Phases)
                        /\ MadeFor(calls', "pre", i, PreFor(i, m))
                        /\ Ascending(calls', "pre", i)
    BY DEF PresFit, PreFor
  <2> QED BY <1>5, <1>6 DEF CallsFit, PresFit
<1>8. PostsFit'
  BY <1>5, <1>6 DEF CallsFit, PostsFit
<1>9. ErrorsFit'
  BY <1>5, <1>6 DEF CallsFit, ErrorsFit
<1>10. CleanupsFit'
  <2> DEFINE A == CleanupsFor
  <2>1. MadeFor(calls, "cleanup", 0, A) /\ Descending(calls, "cleanup", 0)
    BY DEF CallsFit, CleanupsFit
  <2>2. A = {a \in cleaning + 1 .. completed : Phases[a] \in Cleanable}
    BY <1>2 DEF CleanupsFor
  <2>3. CleanupsFor' = {a \in cleaning .. completed : Phases[a] \in Cleanable}
    <3>1. cleaning' + 1 .. completed' = cleaning .. completed
      BY <1>1, <1>2
    <3> QED BY <1>1, <1>2, <3>1 DEF CleanupsFor
  <2> HIDE DEF A
  <2>4. /\ A \in SUBSET DOMAIN Phases
        /\ \A b \in A : cleaning < b
        /\ cleaning .. completed = (cleaning + 1 .. completed) \cup {cleaning}
    <3>1. /\ cleaning + 1 .. completed \subseteq 1 .. completed
          /\ cleaning .. completed = (cleaning + 1 .. completed) \cup {cleaning}
          /\ \A b \in cleaning + 1 .. completed : cleaning < b
      BY <1>2
    <3> QED BY <1>2, <2>2, <3>1
  <2>5. CASE Cleaning \notin Cleanable
    <3>1. CleanupsFor' = A /\ calls' = calls
      BY <1>3, <1>4, <2>2, <2>3, <2>4, <2>5
    <3> QED BY <2>1, <3>1 DEF CleanupsFit
  <2>6. CASE Cleaning \in Cleanable
    <3>1. CleanupsFor' = A \cup {cleaning} /\ calls' = Append(calls, e)
      BY <1>3, <1>4, <2>2, <2>3, <2>4, <2>6
    <3>2. <<"cleanup", 0, Phases[cleaning]>> \in Calls
      BY <1>3, <1>e
    <3>3. LET u == Append(calls, <<"cleanup", 0, Phases[cleaning]>>) IN
          /\ MadeFor(u, "cleanup", 0, A \cup {cleaning})
          /\ Ascending(calls, "cleanup", 0) /\ (\A b \in A : b < cleaning)
               => Ascending(u, "cleanup", 0)
          /\ Descending(calls, "cleanup", 0) /\ (\A b \in A : cleaning < b)
               => Descending(u, "cleanup", 0)
      BY <1>2, <1>3, <2>1, <2>4, <3>2, AppendOne
    <3> QED BY <1>e, <2>1, <2>4, <3>1, <3>3 DEF CleanupsFit
  <2> QED BY <2>5, <2>6
<1> QED BY <1>7, <1>8, <1>9, <1>10 DEF CallsFit

LEMMA EngineInvNext == EngineInv /\ [EngineNext]_engine => EngineInv'
<1> SUFFICES ASSUME EngineBase, CallsFit, [EngineNext]_engine PROVE EngineBase' /\ CallsFit'
  BY DEF EngineInv, EngineBase, CallsFit
<1>1. EngineBase'
  BY EngineBaseNext
<1>2. CallsFit'
  BY ExecuteCalls, PreHookCalls, AfterPhaseCalls, CleanupPhaseCalls, QuietCalls
     DEF EngineNext, EngineStep
<1> QED BY <1>1, <1>2

LEMMA EngineInvInit == EngineInit => EngineInv
<1> SUFFICES ASSUME EngineInit PROVE EngineBase /\ CallsFit
  BY DEF EngineInv, EngineBase, CallsFit
<1> QED BY EngineBaseInit, NoCalls DEF EngineInit

THEOREM EngineInvariant == EngineSpec => []EngineInv
BY EngineInvInit, EngineInvNext, PTL DEF EngineSpec

\* Calls made for the phases up to a point, in the order of the phases, are made for
\* every list that begins as the list of phases does.
LEMMA CalledForPrefix ==
  ASSUME NEW kind, NEW i, NEW m \in 0 .. Len(Phases),
         NEW list, DOMAIN list = 1 .. m, \A j \in 1 .. m : list[j] = Phases[j],
         MadeFor(calls, kind, i, 1 .. m), Ascending(calls, kind, i)
  PROVE  CalledFor(kind, i, list)
<1> DEFINE made == CallsTo(kind, i)
<1>1. made = Of(calls, kind, i)
  BY DEF CallsTo, Of
<1>2. 1 .. m \subseteq DOMAIN Phases
  BY PhasesFacts, Sizes
<1>3. \A c \in made : \E a \in 1 .. m : calls[c][3] = list[a] /\ list[a] = Phases[a]
  BY <1>1 DEF MadeFor
<1>4. \A a \in 1 .. m : \E c \in made : calls[c][3] = list[a]
  BY <1>1 DEF MadeFor
<1> HIDE DEF made
<1>5. {calls[c][3] : c \in made} = Range(list)
  BY <1>3, <1>4 DEF Range
<1>6. ASSUME NEW c \in made, NEW d \in made, c < d
      PROVE  Precedes(list, calls[c][3], calls[d][3])
  <2>1. PICK a \in 1 .. m : calls[c][3] = list[a] /\ list[a] = Phases[a]
    BY <1>3
  <2>2. PICK b \in 1 .. m : calls[d][3] = list[b] /\ list[b] = Phases[b]
    BY <1>3
  <2>3. a < b
    BY <1>1, <1>2, <1>6, <2>1, <2>2 DEF Ascending
  <2> QED BY <2>1, <2>2, <2>3 DEF Precedes
<1> QED BY <1>5, <1>6 DEF CalledFor, made

\* Calls made for no phase, and for one.
LEMMA CalledForNone ==
  ASSUME NEW kind, NEW i, MadeFor(calls, kind, i, {})
  PROVE  CalledFor(kind, i, << >>)
<1>1. CallsTo(kind, i) = {}
  BY DEF CallsTo, Of, MadeFor
<1> QED BY <1>1 DEF CalledFor, Range

LEMMA CalledForOne ==
  ASSUME NEW kind, NEW i, NEW a \in DOMAIN Phases,
         MadeFor(calls, kind, i, {a}), Ascending(calls, kind, i)
  PROVE  CalledFor(kind, i, <<Phases[a]>>)
<1> DEFINE list == <<Phases[a]>>
<1>0. DOMAIN list = {1} /\ list[1] = Phases[a]
  OBVIOUS
<1> HIDE DEF list
<1>1. CallsTo(kind, i) = Of(calls, kind, i)
  BY DEF CallsTo, Of
<1>2. \A c \in CallsTo(kind, i) : calls[c][3] = Phases[a]
  BY <1>1 DEF MadeFor
<1>3. \E c \in CallsTo(kind, i) : calls[c][3] = Phases[a]
  BY <1>1 DEF MadeFor
<1>4. Range(list) = {Phases[a]}
  BY <1>0 DEF Range
<1>5. \A c, d \in CallsTo(kind, i) : ~(c < d)
  <2> SUFFICES ASSUME NEW c \in CallsTo(kind, i), NEW d \in CallsTo(kind, i), c < d
               PROVE  FALSE
    OBVIOUS
  <2>1. a < a
    BY <1>1, <1>2 DEF Ascending
  <2> QED BY <2>1, PhasesFacts
<1> QED BY <1>2, <1>3, <1>4, <1>5 DEF CalledFor, list

\* The hooks of an engine with any phases and any hooks are called as they should be
\* when Execute returns (pipeline.go:24-78).
LEMMA EngineInvHooks == EngineInv => HooksSeeEveryPhase
<1> SUFFICES ASSUME EngineBase, CallsFit, at = "idle", NEW i \in DOMAIN Hooks
             PROVE  /\ \E begun \in {ran} \cup
                           {Append(ran, p) : p \in Range(Phases) \ Range(ran)} :
                         CalledFor("pre", i, IF "pre" \in Hooks[i] THEN begun ELSE << >>)
                    /\ CalledFor("post", i, IF "post" \in Hooks[i] THEN ran ELSE << >>)
                    /\ CalledFor("onError", i,
                         IF "onError" \in Hooks[i] /\ outcome = "phaseError"
                           THEN <<ran[Len(ran)]>> ELSE << >>)
  BY DEF EngineInv, EngineBase, CallsFit, HooksSeeEveryPhase
<1>1. /\ ran \in Seq(STRING) /\ DOMAIN ran = 1 .. Len(ran)
      /\ \A j \in 1 .. Len(ran) : ran[j] = Phases[j]
      /\ Len(ran) \in 0 .. Len(Phases) /\ Len(ran) \in {k - 1, k}
      /\ outcome = "phaseError" => Len(ran) = k
      /\ k \in 1 .. Len(Phases) + 1
  BY BaseParts, Numbers DEF ListsTyped, RanFits
<1>2. \E begun \in {ran} \cup {Append(ran, p) : p \in Range(Phases) \ Range(ran)} :
        CalledFor("pre", i, IF "pre" \in Hooks[i] THEN begun ELSE << >>)
  <2>1. PICK m \in PreTurns(i) : /\ m \in 0 .. Len(Phases)
                                 /\ MadeFor(calls, "pre", i, PreFor(i, m))
                                 /\ Ascending(calls, "pre", i)
    BY DEF CallsFit, PresFit
  <2>2. m = Len(ran) \/ (m = k /\ k # Len(ran))
    BY <2>1 DEF PreTurns
  <2>3. CASE "pre" \notin Hooks[i]
    <3>1. CalledFor("pre", i, << >>)
      BY <2>1, <2>3, CalledForNone DEF PreFor
    <3> QED BY <2>3, <3>1
  <2>4. CASE "pre" \in Hooks[i] /\ m = Len(ran)
    <3>1. CalledFor("pre", i, ran)
      BY <1>1, <2>1, <2>4, CalledForPrefix DEF PreFor
    <3> QED BY <2>4, <3>1
  <2>5. CASE "pre" \in Hooks[i] /\ m = k /\ k # Len(ran)
    <3> DEFINE begun == Append(ran, Phases[k])
    <3>1. k \in 1 .. Len(Phases) /\ Len(ran) = k - 1 /\ Phases[k] \in STRING
      <4>1. k \in 1 .. Len(Phases) /\ Len(ran) = k - 1
        <5>1. Len(ran) \in {k - 1, k} /\ k \in 1 .. Len(Phases) + 1
          BY <1>1
        <5>2. k \in 0 .. Len(Phases) /\ k # Len(ran)
          BY <2>1, <2>5
        <5>3. Len(ran) = k - 1
          BY <5>1, <5>2
        <5>4. k \in 1 .. Len(Phases)
          BY <5>1, <5>2, Sizes
        <5> QED BY <5>3, <5>4
      <4> QED BY <4>1, PhasesFacts
    <3>2. DOMAIN begun = 1 .. k /\ \A j \in 1 .. k : begun[j] = Phases[j]
      BY <1>1, <3>1, Appended
    <3>3. Phases[k] \in Range(Phases) \ Range(ran)
      <4>1. \A j \in 1 .. Len(ran) : ran[j] # Phases[k]
        BY <1>1, <3>1, PhasesFacts
      <4>2. Phases[k] \in Range(Phases)
        BY <3>1, PhasesFacts DEF Range
      <4> QED BY <1>1, <4>1, <4>2 DEF Range
    <3> HIDE DEF begun
    <3>4. CalledFor("pre", i, begun)
      BY <2>1, <2>5, <3>1, <3>2, CalledForPrefix DEF PreFor
    <3> QED BY <2>5, <3>3, <3>4 DEF begun
  <2> QED BY <2>2, <2>3, <2>4, <2>5
<1>3. CalledFor("post", i, IF "post" \in Hooks[i] THEN ran ELSE << >>)
  <2>1. MadeFor(calls, "post", i, PostFor(i)) /\ Ascending(calls, "post", i)
    BY DEF CallsFit, PostsFit
  <2>2. CASE "post" \in Hooks[i]
    BY <1>1, <2>1, <2>2, CalledForPrefix DEF PostFor
  <2>3. CASE "post" \notin Hooks[i]
    BY <2>1, <2>3, CalledForNone DEF PostFor
  <2> QED BY <2>2, <2>3
<1>4. CalledFor("onError", i,
        IF "onError" \in Hooks[i] /\ outcome = "phaseError" THEN <<ran[Len(ran)]>> ELSE << >>)
  <2>1. MadeFor(calls, "onError", i, ErrorFor(i)) /\ Ascending(calls, "onError", i)
    BY DEF CallsFit, ErrorsFit
  <2>2. CASE "onError" \in Hooks[i] /\ outcome = "phaseError"
    <3>1. k \in 1 .. Len(Phases) /\ ran[Len(ran)] = Phases[k] /\ k \in DOMAIN Phases
      BY <1>1, <2>2, PhasesFacts
    <3>2. CalledFor("onError", i, <<Phases[k]>>)
      BY <2>1, <2>2, <3>1, CalledForOne DEF ErrorFor
    <3> QED BY <2>2, <3>1, <3>2
  <2>3. CASE ~("onError" \in Hooks[i] /\ outcome = "phaseError")
    <3>1. CalledFor("onError", i, << >>)
      BY <2>1, <2>3, CalledForNone DEF ErrorFor
    <3> QED BY <2>3, <3>1
  <2> QED BY <2>2, <2>3
<1> QED BY <1>2, <1>3, <1>4

\* Exactly the completed phases that have a cleanup are cleaned up, last first, when
\* Execute fails (pipeline.go:80-89).
LEMMA EngineInvCleanups == EngineInv => CleanupsUndoCompletedPhases
<1> DEFINE done == IF outcome \notin Failures THEN << >>
                   ELSE IF phaseErr THEN SubSeq(ran, 1, Len(ran) - 1) ELSE ran
           made == CallsTo("cleanup", 0)
<1> SUFFICES ASSUME EngineBase, CallsFit, at = "idle"
             PROVE  /\ {calls[c][3] : c \in made} = Range(done) \cap Cleanable
                    /\ \A c, d \in made :
                         c < d => Precedes(done, calls[d][3], calls[c][3])
  BY DEF EngineInv, EngineBase, CallsFit, CleanupsUndoCompletedPhases
<1>1. /\ ran \in Seq(STRING) /\ DOMAIN ran = 1 .. Len(ran) /\ Len(ran) \in Nat
      /\ \A j \in 1 .. Len(ran) : ran[j] = Phases[j]
      /\ Len(ran) \in 0 .. Len(Phases) /\ k \in 1 .. Len(Phases) + 1
      /\ completed = k - 1 /\ cleaning = 0
  BY BaseParts, Numbers DEF ListsTyped, RanFits, CountersFit
<1>2. outcome \in Failures => Len(ran) = IF phaseErr THEN completed + 1 ELSE completed
  <2>1. /\ phaseErr = TRUE => outcome = "phaseError"
        /\ outcome = "phaseError" => phaseErr = TRUE
        /\ Len(ran) = IF outcome = "phaseError" THEN k ELSE k - 1
    BY BaseParts DEF OutcomeFits, RanFits
  <2>2. phaseErr \in BOOLEAN
    BY BaseParts DEF FlowTyped
  <2>3. CASE phaseErr
    BY <1>1, <2>1, <2>3
  <2>4. CASE ~phaseErr
    BY <1>1, <2>1, <2>2, <2>4
  <2> QED BY <2>3, <2>4
<1>3. MadeFor(calls, "cleanup", 0, CleanupsFor) /\ Descending(calls, "cleanup", 0)
  BY DEF CallsFit, CleanupsFit
<1>4. made = Of(calls, "cleanup", 0)
  BY DEF CallsTo, Of
<1> HIDE DEF done, made
<1>5. CASE outcome \notin Failures
  <2>1. CleanupsFor = {} /\ done = << >>
    BY <1>5 DEF CleanupsFor, done
  <2>2. made = {}
    BY <1>3, <1>4, <2>1 DEF MadeFor
  <2> QED BY <2>1, <2>2 DEF Range
<1>6. CASE outcome \in Failures
  <2>1. DOMAIN done = 1 .. completed /\ \A j \in 1 .. completed : done[j] = Phases[j]
    <3>1. CASE phaseErr
      <4>0. done = SubSeq(ran, 1, Len(ran) - 1)
        BY <1>6, <3>1 DEF done
      <4>1. done = SubSeq(ran, 1, completed) /\ Len(ran) = completed + 1
        <5>1. Len(ran) = completed + 1
          BY <1>2, <1>6, <3>1
        <5>2. Len(ran) - 1 = completed
          BY <1>1, <5>1
        <5> QED BY <4>0, <5>1, <5>2
      <4>2. completed \in Nat /\ 1 .. completed \subseteq 1 .. Len(ran)
        BY <1>1, <4>1
      <4> QED BY <1>1, <4>1, <4>2
    <3>2. CASE ~phaseErr
      BY <1>1, <1>2, <1>6, <3>2 DEF done
    <3> QED BY <3>1, <3>2
  <2>2. CleanupsFor = {a \in 1 .. completed : done[a] \in Cleanable}
    <3>1. cleaning + 1 .. completed = 1 .. completed
      BY <1>1
    <3> QED BY <1>6, <2>1, <3>1 DEF CleanupsFor
  <2>3. 1 .. completed \subseteq DOMAIN Phases
    BY <1>1, PhasesFacts, Sizes
  <2>4. \A c \in made : \E a \in 1 .. completed :
          done[a] \in Cleanable /\ calls[c][3] = done[a] /\ done[a] = Phases[a]
    BY <1>3, <1>4, <2>1, <2>2 DEF MadeFor
  <2>5. \A a \in 1 .. completed :
          done[a] \in Cleanable => \E c \in made : calls[c][3] = done[a]
    BY <1>3, <1>4, <2>1, <2>2 DEF MadeFor
  <2>6. {calls[c][3] : c \in made} = Range(done) \cap Cleanable
    BY <2>1, <2>4, <2>5 DEF Range
  <2>7. ASSUME NEW c \in made, NEW d \in made, c < d
        PROVE  Precedes(done, calls[d][3], calls[c][3])
    <3>1. PICK a \in 1 .. completed : calls[c][3] = done[a] /\ done[a] = Phases[a]
      BY <2>4
    <3>2. PICK b \in 1 .. completed : calls[d][3] = done[b] /\ done[b] = Phases[b]
      BY <2>4
    <3>3. b < a
      BY <1>3, <1>4, <2>3, <2>7, <3>1, <3>2 DEF Descending
    <3> QED BY <2>1, <3>1, <3>2, <3>3 DEF Precedes
  <2> QED BY <2>6, <2>7
<1> QED BY <1>5, <1>6


\* Execute calls every hook for every phase it applies to, once and in order, and
\* for no other, whatever phases and hooks a pipeline has and wherever it fails.
THEOREM PipelineHooks == EngineSpec => []HooksSeeEveryPhase
BY EngineInvariant, EngineInvHooks, PTL

\* A failed Execute has cleaned up exactly the phases that completed, in reverse.
THEOREM PipelineCleanups == EngineSpec => []CleanupsUndoCompletedPhases
BY EngineInvariant, EngineInvCleanups, PTL
-----------------------------------------------------------------------------
(* `init' is a run of the engine.                                          *)

LEMMA InitIsEngineInit == Init => EngineInit
BY DEF Init

LEMMA StepIsEngineStep == [Next]_vars => [EngineNext]_engine
<1> SUFFICES ASSUME [Next]_vars PROVE [EngineNext]_engine
  OBVIOUS
<1>1. CASE StartRun
  BY <1>1 DEF StartRun, EngineNext
<1>2. CASE EngineOnly
  BY <1>2 DEF EngineOnly, EngineNext, EngineStep
<1>3. CASE StartPhase
  BY <1>3 DEF StartPhase, EngineNext, EngineStep
<1>4. CASE Validate \/ ConnectFails \/ ConnectDone
  BY <1>4 DEF Validate, ConnectFails, ConnectDone, EngineNext
<1>5. CASE ConnectNode \/ BeginBootstrap \/ InstallNode \/ InstallFails \/ FirstNodeReady
  BY <1>5 DEF ConnectNode, BeginBootstrap, InstallNode, InstallFails, FirstNodeReady
<1>6. CASE JoinsDone \/ AllNodesReady \/ WaitEnds
  BY <1>6 DEF JoinsDone, AllNodesReady, WaitEnds, EngineNext
<1>7. CASE RollbackNode \/ RollbackDone \/ FetchKubeconfig
  BY <1>7 DEF RollbackNode, UninstallNode, RollbackDone, FetchKubeconfig, EngineNext
<1>8. CASE CleanupNothing \/ CleanupConnect \/ EndCleanupBootstrap
  BY <1>8 DEF CleanupNothing, CleanupConnect, EndCleanupBootstrap, EngineNext, EngineStep
<1>9. CASE BeginCleanupBootstrap \/ CleanupBootstrapNode
  BY <1>9 DEF BeginCleanupBootstrap, CleanupBootstrapNode, UninstallNode
<1>10. CASE \E h \in Hosts : LoseConnection(h) \/ BecomesReady(h)
  BY <1>10 DEF LoseConnection, BecomesReady
<1>11. CASE UNCHANGED vars
  BY <1>11 DEF vars
<1> QED BY <1>1, <1>2, <1>3, <1>4, <1>5, <1>6, <1>7, <1>8, <1>9, <1>10, <1>11
        DEF Next, Progress

LEMMA InitIsPipeline == Spec => EngineSpec
BY InitIsEngineInit, StepIsEngineStep, PTL DEF Spec, EngineSpec

-----------------------------------------------------------------------------
(* The invariant of `init'.  The phases are numbered as Phases lists them: *)
(* 1 validate, 2 connect, 3 bootstrap, 4 kubeconfig.                       *)

WorldTyped ==
  /\ sub \in {"begin", "install", "waitFirst", "join", "waitAll", "rollback", "cleanup"}
  /\ pos \in Nat \ {0}
  /\ clients \subseteq Hosts
  /\ open \in [Hosts -> Int]
  /\ link \in [Hosts -> BOOLEAN]
  /\ software \in [Hosts -> SUBSET NodeRoles]
  /\ before \in [Hosts -> SUBSET NodeRoles]
  /\ ready \subseteq Hosts
  /\ config \in Configs

Listed == {Nodes[j].host : j \in DOMAIN Nodes}

ListedOnce(h) ==
  \A i, j \in DOMAIN Nodes : Nodes[i].host = h /\ Nodes[j].host = h => i = j

\* Where the connections of all nodes are open: between connect and its cleanup.
Connecting == at = "run" /\ k = 2
Connected ==
  \/ at \in {"context", "pre", "run", "post"} /\ k >= 3
  \/ at = "post" /\ k = 2 /\ phaseErr = FALSE
  \/ at = "cleanup" /\ cleaning >= 2
Disconnected ==
  ~Connecting /\ ~Connected /\ ~(at = "idle" /\ outcome = "success")

SessionsFit ==
  /\ Connecting => /\ pos \in 1 .. Len(Nodes) + 1
                   /\ clients = {Nodes[j].host : j \in 1 .. pos - 1}
  /\ Connected => executor = TRUE /\ clients = Listed
  /\ Disconnected => clients = {}
  /\ \A h \in Hosts : ListedOnce(h) => open[h] = IF h \in clients THEN 1 ELSE 0

\* The node's software is gone, or its removal has failed on its host.
Gone(n) == n.role \in software[n.host] => <<n.host, n.role>> \in stuck
GoneBefore(p) == \A j \in DOMAIN Nodes : j < p => Gone(Nodes[j])

\* Where nothing may be left any more of a bootstrap that was begun.
Undone ==
  \/ at = "post" /\ k = 3 /\ phaseErr = TRUE
  \/ at = "cleanup" /\ cleaning <= 2
  \/ at = "idle" /\ outcome \in Failures

CleanFit ==
  /\ touched = TRUE => k >= 3 /\ ~(k = 3 /\ at \in {"context", "pre"})
  /\ sub = "cleanup" => at = "idle" \/ (at = "cleanup" /\ cleaning <= 3)
  /\ touched = TRUE /\ Undone => GoneBefore(Len(Nodes) + 1)
  /\ at = "run" /\ k = 3 /\ sub = "rollback" => GoneBefore(pos)
  /\ at = "cleanup" /\ cleaning = 3 /\ sub = "cleanup" => GoneBefore(pos)

\* Only hosts of the configuration have been set up before.
NoOthers == \A h \in Hosts : before[h] # {} => h \in Listed

AllReady == NoOthers => /\ \A i, j \in DOMAIN Nodes : Nodes[i].host = Nodes[j].host => i = j
                        /\ Listed \subseteq ready

\* Where validate, bootstrap and kubeconfig have succeeded.
Passed(p) ==
  \/ at \in {"context", "pre", "run", "post"} /\ k > p
  \/ at = "post" /\ k = p /\ phaseErr = FALSE
  \/ at = "idle" /\ outcome = "success"

\* The API server that shows the Ready nodes is there.
FirstServer == "server" \in software[Nodes[1].host]

\* Ready nodes are set up, and nothing is set up that was not there before and
\* that the configuration does not ask for.
HostsFit ==
  /\ \A h \in Hosts : h \in ready => software[h] # {}
  /\ \A h \in Hosts : software[h] \subseteq before[h] \cup Roles(h)
InstallFits ==
  at = "run" /\ k = 3 =>
    /\ sub \in {"waitFirst", "join", "waitAll"} /\ ready # {} => FirstServer
    /\ sub \in {"join", "waitAll"} => ready # {}
PassedFits ==
  /\ Passed(1) => ValidNodes
  /\ Passed(3) => FirstServer /\ AllReady
  /\ Passed(4) => merged = TRUE

\* Before the first install returns no API server has been asked for nodes.
Early ==
  \/ at \in {"context", "pre", "run", "post"} /\ k < 3
  \/ at \in {"context", "pre"} /\ k = 3
  \/ at = "run" /\ k = 3 /\ sub \in {"begin", "install"}
ReadyFits == Early => ready = {}

ClusterFits == HostsFit /\ InstallFits /\ PassedFits

InitInv == EngineBase /\ WorldTyped /\ SessionsFit /\ CleanFit /\ ReadyFits /\ ClusterFits

-----------------------------------------------------------------------------
(* Places and types.                                                       *)

LEMMA FourPhases ==
  /\ Len(Phases) = 4
  /\ Phases[1] = "validate" /\ Phases[2] = "connect"
  /\ Phases[3] = "bootstrap" /\ Phases[4] = "kubeconfig"
BY InitPhasesAssumption

LEMMA PhaseAt ==
  ASSUME EngineBase
  PROVE  /\ InPhase("validate") => at = "run" /\ k = 1
         /\ InPhase("connect") => at = "run" /\ k = 2
         /\ InPhase("bootstrap") => at = "run" /\ k = 3
         /\ InPhase("kubeconfig") => at = "run" /\ k = 4
<1>1. at = "run" => k \in 1 .. 4
  BY Numbers, FourPhases
<1> QED BY <1>1, FourPhases DEF InPhase

LEMMA CleanupAt ==
  ASSUME EngineBase
  PROVE  /\ CleaningUp("connect") => at = "cleanup" /\ cleaning = 2
         /\ CleaningUp("bootstrap") => at = "cleanup" /\ cleaning = 3
         /\ CleaningUp("validate") => at = "cleanup" /\ cleaning = 1
         /\ CleaningUp("kubeconfig") => at = "cleanup" /\ cleaning = 4
<1>1. cleaning \in 0 .. 4
  BY Numbers, FourPhases
<1>2. cleaning > 0 => cleaning \in 1 .. 4
  BY <1>1
<1> QED BY <1>2, FourPhases DEF CleaningUp

\* The numbers that the proofs below argue about.
LEMMA EngineNumbers ==
  ASSUME EngineBase
  PROVE  /\ k \in 1 .. 5 /\ completed = k - 1 /\ cleaning \in 0 .. 4
         /\ at \in {"context", "pre", "run", "post"} => outcome = "none"
         /\ at \in {"pre", "run", "post"} => k \in 1 .. 4
         /\ at = "cleanup" => outcome \in Failures /\ cleaning \in 0 .. k - 1
         /\ at \in {"idle", "context", "pre", "run", "post", "cleanup"}
<1>1. /\ CountersFit /\ OutcomeFits /\ CountersTyped /\ FlowTyped
  BY BaseParts
<1> QED BY <1>1, FourPhases
        DEF CountersFit, OutcomeFits, CountersTyped, FlowTyped

LEMMA SeqFacts ==
  ASSUME NEW S, NEW s \in Seq(S)
  PROVE  Len(s) \in Nat /\ DOMAIN s = 1 .. Len(s) /\ \A j \in DOMAIN s : s[j] \in S
OBVIOUS

LEMMA NodesTyped ==
  ASSUME WorldTyped
  PROVE  /\ Nodes \in Seq([role : NodeRoles, host : Hosts])
         /\ Len(Nodes) \in Nat /\ DOMAIN Nodes = 1 .. Len(Nodes)
         /\ \A j \in DOMAIN Nodes : Nodes[j].role \in NodeRoles /\ Nodes[j].host \in Hosts
         /\ Listed \subseteq Hosts
<1>1. Nodes \in Seq([role : NodeRoles, host : Hosts])
  BY ConfigsAssumption DEF WorldTyped, Nodes
<1>2. /\ Len(Nodes) \in Nat /\ DOMAIN Nodes = 1 .. Len(Nodes)
      /\ \A j \in DOMAIN Nodes : Nodes[j] \in [role : NodeRoles, host : Hosts]
  BY <1>1, SeqFacts
<1>3. \A j \in DOMAIN Nodes : Nodes[j].role \in NodeRoles /\ Nodes[j].host \in Hosts
  <2> HIDE DEF Nodes
  <2> QED BY <1>2
<1> QED BY <1>1, <1>2, <1>3 DEF Listed

LEMMA WorldTypedInit == Init => WorldTyped
BY DEF Init, WorldTyped

\* Parts of the world that a step leaves as they are stay typed.
LEMMA TypedUnchanged ==
  ASSUME WorldTyped, UNCHANGED world PROVE WorldTyped'
BY DEF WorldTyped, world

LEMMA InstallTyped ==
  ASSUME WorldTyped, NEW j \in DOMAIN Nodes
  PROVE  /\ Install(Nodes[j]) \in [Hosts -> SUBSET NodeRoles]
         /\ \A s \in Uninstalled(Nodes[j]) : s \in [Hosts -> SUBSET NodeRoles]
<1> DEFINE n == Nodes[j]
<1>1. n.role \in NodeRoles /\ n.host \in Hosts
  BY NodesTyped
<1>2. software \in [Hosts -> SUBSET NodeRoles]
  BY DEF WorldTyped
<1> HIDE DEF n
<1>3. /\ [software EXCEPT ![n.host] = @ \cup {n.role}] \in [Hosts -> SUBSET NodeRoles]
      /\ [software EXCEPT ![n.host] = @ \ {n.role}] \in [Hosts -> SUBSET NodeRoles]
      /\ [software EXCEPT ![n.host] = {}] \in [Hosts -> SUBSET NodeRoles]
  BY <1>1, <1>2
<1> QED BY <1>3 DEF Install, Uninstalled, n

LEMMA CloseTyped ==
  ASSUME WorldTyped, Close
  PROVE  /\ open' \in [Hosts -> Int] /\ link' \in [Hosts -> BOOLEAN] /\ clients' = {}
         /\ \A h \in Hosts : open'[h] = IF h \in clients THEN open[h] - 1 ELSE open[h]
<1>1. open \in [Hosts -> Int]
  BY DEF WorldTyped
<1>2. open' = [h \in Hosts |-> IF h \in clients THEN open[h] - 1 ELSE open[h]]
      /\ link' = [h \in Hosts |-> FALSE] /\ clients' = {}
  BY DEF Close
<1>3. link' \in [Hosts -> BOOLEAN]
  BY <1>2
<1> QED BY <1>1, <1>2, <1>3

LEMMA WorldTypedNext ==
  EngineBase /\ WorldTyped /\ [Next]_vars => WorldTyped'
<1> SUFFICES ASSUME EngineBase, WorldTyped, [Next]_vars PROVE WorldTyped'
  OBVIOUS
<1>0. pos \in Nat \ {0} /\ pos + 1 \in Nat \ {0} /\ 1 \in Nat \ {0}
  BY DEF WorldTyped
<1>1. CASE StartRun
  BY <1>1 DEF StartRun, WorldTyped
<1>2. CASE EngineOnly \/ UNCHANGED vars
  BY <1>2, TypedUnchanged DEF EngineOnly, vars
<1>3. CASE StartPhase
  BY <1>3 DEF StartPhase, setting, sessions, remote, WorldTyped
<1>4. CASE Validate \/ AllNodesReady \/ RollbackDone \/ CleanupNothing \/ EndCleanupBootstrap
  BY <1>4, TypedUnchanged
     DEF Validate, AllNodesReady, RollbackDone, CleanupNothing, EndCleanupBootstrap
<1>5. CASE ConnectNode
  <2>1. pos \in DOMAIN Nodes
    BY <1>0, <1>5, NodesTyped DEF ConnectNode
  <2>2. PICK h \in Hosts : NewClient(h) /\ clients' = clients \cup {h}
    BY <1>5, <2>1, NodesTyped DEF ConnectNode
  <2>3. open' \in [Hosts -> Int] /\ link' \in [Hosts -> BOOLEAN]
    <3>1. open \in [Hosts -> Int] /\ link \in [Hosts -> BOOLEAN]
      BY DEF WorldTyped
    <3>2. [open EXCEPT ![h] = @ + 1] \in [Hosts -> Int]
      BY <3>1
    <3>3. [link EXCEPT ![h] = TRUE] \in [Hosts -> BOOLEAN]
      BY <3>1
    <3> QED BY <2>2, <3>2, <3>3 DEF NewClient
  <2>4. pos' = pos + 1 /\ UNCHANGED <<sub, software, before, ready, config>>
    BY <1>5 DEF ConnectNode, setting, remote
  <2> QED BY <1>0, <2>2, <2>3, <2>4 DEF WorldTyped
<1>6. CASE ConnectFails \/ CleanupConnect
  <2>1. UNCHANGED <<sub, pos, software, before, ready, config>>
    BY <1>6 DEF ConnectFails, CleanupConnect, setting, remote
  <2>2. Close \/ UNCHANGED <<clients, open, link>>
    BY <1>6 DEF ConnectFails, CleanupConnect, sessions
  <2>3. CASE Close
    BY <2>1, <2>3, CloseTyped DEF WorldTyped
  <2>4. CASE UNCHANGED <<clients, open, link>>
    BY <2>1, <2>4 DEF WorldTyped
  <2> QED BY <2>2, <2>3, <2>4
<1>7. CASE ConnectDone
  BY <1>7 DEF ConnectDone, sessions, remote, WorldTyped
<1>8. ASSUME NEW h \in Hosts, LoseConnection(h) PROVE WorldTyped'
  <2>1. UNCHANGED <<sub, pos, clients, open, software, before, ready, config>>
    BY <1>8 DEF LoseConnection, setting
  <2>2. link' \in [Hosts -> BOOLEAN]
    BY <1>8 DEF LoseConnection, WorldTyped
  <2> QED BY <2>1, <2>2 DEF WorldTyped
<1>9. ASSUME NEW h \in Hosts, BecomesReady(h) PROVE WorldTyped'
  BY <1>9 DEF BecomesReady, setting, sessions, WorldTyped
<1>10. CASE BeginBootstrap \/ FirstNodeReady \/ JoinsDone \/ WaitEnds
  <2>1. UNCHANGED <<clients, open, link, software, before, ready, config>>
    BY <1>10 DEF BeginBootstrap, FirstNodeReady, JoinsDone, WaitEnds,
                 setting, sessions, remote
  <2>2. CASE BeginBootstrap
    BY <1>0, <2>1, <2>2 DEF BeginBootstrap, WorldTyped
  <2>3. CASE FirstNodeReady
    BY <1>0, <2>1, <2>3 DEF FirstNodeReady, WorldTyped
  <2>4. CASE JoinsDone
    <3>1. pos' = pos /\ sub' \in {sub, "waitAll"}
      BY <2>4 DEF JoinsDone
    <3> QED BY <1>0, <2>1, <3>1 DEF WorldTyped
  <2>5. CASE WaitEnds
    BY <1>0, <2>1, <2>5 DEF WaitEnds, WorldTyped
  <2> QED BY <1>10, <2>2, <2>3, <2>4, <2>5
<1>11. CASE InstallNode
  <2>1. pos \in DOMAIN Nodes
    BY <1>0, <1>11, NodesTyped DEF InstallNode
  <2>2. software' \in [Hosts -> SUBSET NodeRoles]
    <3>1. software' = software \/ software' = Install(Nodes[pos])
      BY <1>11 DEF InstallNode
    <3> QED BY <2>1, <3>1, InstallTyped DEF WorldTyped
  <2>3. /\ UNCHANGED <<clients, open, link, before, ready, config>>
        /\ pos' = pos + 1 /\ sub' \in {"waitFirst", "join"}
    BY <1>11 DEF InstallNode, setting, sessions
  <2> QED BY <1>0, <2>2, <2>3 DEF WorldTyped
<1>12. CASE InstallFails
  <2>1. pos \in DOMAIN Nodes
    BY <1>0, <1>12, NodesTyped DEF InstallFails
  <2>2. software' \in [Hosts -> SUBSET NodeRoles]
    <3>1. software' = software \/ software' = Install(Nodes[pos])
      BY <1>12 DEF InstallFails
    <3> QED BY <2>1, <3>1, InstallTyped DEF WorldTyped
  <2>3. /\ UNCHANGED <<clients, open, link, before, ready, config>>
        /\ pos' = 1 /\ sub' = "rollback"
    BY <1>12 DEF InstallFails, setting, sessions
  <2> QED BY <1>0, <2>2, <2>3 DEF WorldTyped
<1>13. CASE RollbackNode \/ CleanupBootstrapNode
  <2>0. UninstallNode
    BY <1>13 DEF RollbackNode, CleanupBootstrapNode
  <2>1. pos \in DOMAIN Nodes
    BY <1>0, <2>0, NodesTyped DEF UninstallNode
  <2>2. software' \in [Hosts -> SUBSET NodeRoles] /\ ready' \subseteq ready
    <3>1. /\ software' = software \/ software' \in Uninstalled(Nodes[pos])
          /\ ready' = ready \/ ready' = ready \ {Nodes[pos].host}
      BY <2>0 DEF UninstallNode, remote
    <3> QED BY <2>1, <3>1, InstallTyped DEF WorldTyped
  <2>3. UNCHANGED <<sub, clients, open, link, before, config>> /\ pos' = pos + 1
    BY <2>0 DEF UninstallNode, setting, sessions
  <2> QED BY <1>0, <2>2, <2>3 DEF WorldTyped
<1>14. CASE FetchKubeconfig
  BY <1>14 DEF FetchKubeconfig, sessions, WorldTyped
<1>15. CASE BeginCleanupBootstrap
  BY <1>15 DEF BeginCleanupBootstrap, setting, sessions, remote, WorldTyped
<1> QED BY <1>1, <1>2, <1>3, <1>4, <1>5, <1>6, <1>7, <1>8, <1>9, <1>10, <1>11, <1>12,
           <1>13, <1>14, <1>15 DEF Next, Progress


-----------------------------------------------------------------------------
(* How the engine moves under the phases.                                  *)

LEMMA PhaseReturnsMoves ==
  ASSUME EngineBase, NEW err \in BOOLEAN, PhaseReturns(err)
  PROVE  /\ at = "run" /\ at' = "post" /\ phaseErr' = err
         /\ UNCHANGED <<k, cleaning, outcome>>
BY DEF PhaseReturns, passed, failing

LEMMA CleanupPhaseMoves ==
  ASSUME EngineBase, CleanupPhase
  PROVE  /\ at = "cleanup" /\ at' = "cleanup" /\ cleaning' = cleaning - 1
         /\ UNCHANGED <<k, phaseErr, outcome>>
BY DEF CleanupPhase, passed, settled

LEMMA BeginPhaseMoves ==
  ASSUME EngineBase, BeginPhase
  PROVE  /\ at = "pre" /\ at' = "run"
         /\ UNCHANGED <<k, phaseErr, cleaning, outcome>>
BY DEF BeginPhase, passed, settled, failing

LEMMA ExecuteMoves ==
  ASSUME EngineBase, Execute
  PROVE  at = "idle" /\ at' = "context" /\ k' = 1 /\ phaseErr' = FALSE /\ outcome' = "none"
BY DEF Execute

LEMMA EngineMoves ==
  ASSUME EngineBase, EngineOnly
  PROVE  /\ UNCHANGED world
         /\ \/ UNCHANGED <<at, k, phaseErr, cleaning, outcome>>
            \/ /\ at = "context" /\ at' = "pre"
               /\ UNCHANGED <<k, phaseErr, cleaning, outcome>>
            \/ /\ at \in {"context", "pre"} \/ (at = "post" /\ phaseErr = TRUE)
               /\ at' = "cleanup" /\ cleaning' = k - 1 /\ outcome' \in Failures
               /\ UNCHANGED <<k, phaseErr>>
            \/ /\ at = "post" /\ phaseErr = FALSE /\ at' = "context" /\ k' = k + 1
               /\ UNCHANGED <<phaseErr, cleaning, outcome>>
            \/ /\ at = "context" /\ k = 5 /\ at' = "idle" /\ outcome' = "success"
               /\ UNCHANGED <<k, phaseErr, cleaning>>
            \/ /\ at = "cleanup" /\ cleaning = 0 /\ at' = "idle"
               /\ UNCHANGED <<k, phaseErr, cleaning, outcome>>
<1>0. UNCHANGED world /\ completed = k - 1 /\ k \in 1 .. 5 /\ Len(Phases) = 4
  BY EngineNumbers, FourPhases DEF EngineOnly
<1>1. ASSUME NEW e \in Failures, Fail(e)
      PROVE  at' = "cleanup" /\ cleaning' = k - 1 /\ outcome' \in Failures
  BY <1>0, <1>1 DEF Fail
<1>2. CASE Cancel
  BY <1>0, <1>2 DEF Cancel, passed, failing
<1>3. CASE CheckContext
  <2>1. at = "context" /\ UNCHANGED <<k, phaseErr>>
    BY <1>3 DEF CheckContext, passed, settled
  <2>2. \/ Fail("cancelled")
        \/ at' = "pre" /\ UNCHANGED <<cleaning, outcome>>
    BY <1>3 DEF CheckContext, failing
  <2> QED BY <1>0, <1>1, <2>1, <2>2 DEF Failures
<1>4. CASE PreHook
  <2>1. at = "pre" /\ UNCHANGED <<k, phaseErr>>
    BY <1>4 DEF PreHook, passed, settled
  <2>2. Fail("hookError") \/ UNCHANGED <<at, cleaning, outcome>>
    BY <1>4 DEF PreHook, failing
  <2> QED BY <1>0, <1>1, <2>1, <2>2 DEF Failures
<1>5. CASE AfterPhase
  <2>1. at = "post" /\ UNCHANGED phaseErr /\ phaseErr \in BOOLEAN
    BY <1>5, BaseParts DEF AfterPhase, settled, FlowTyped
  <2>2. CASE phaseErr = TRUE
    <3>1. Fail("phaseError") /\ UNCHANGED k
      BY <1>5, <2>2 DEF AfterPhase, passed
    <3> QED BY <1>0, <1>1, <2>1, <2>2, <3>1 DEF Failures
  <2>3. CASE phaseErr = FALSE
    <3>1. k' = k + 1 /\ at' = "context" /\ UNCHANGED <<cleaning, outcome>>
      BY <1>5, <2>3 DEF AfterPhase, failing
    <3> QED BY <1>0, <2>1, <2>3, <3>1
  <2> QED BY <2>1, <2>2, <2>3
<1>6. CASE Succeed
  <2>1. k = 5
    BY <1>0, <1>6 DEF Succeed
  <2> QED BY <1>0, <1>6, <2>1 DEF Succeed, passed, settled
<1>7. CASE EndCleanups
  BY <1>0, <1>7 DEF EndCleanups, passed, settled, failing
<1> QED BY <1>2, <1>3, <1>4, <1>5, <1>6, <1>7 DEF EngineOnly

-----------------------------------------------------------------------------
(* The connections.                                                        *)

LEMMA SessionsFitInit == Init => SessionsFit
<1> SUFFICES ASSUME Init PROVE SessionsFit
  OBVIOUS
<1>1. at = "idle" /\ outcome = "none" /\ clients = {} /\ \A h \in Hosts : open[h] = 0
  BY DEF Init, EngineInit
<1> QED BY <1>1 DEF SessionsFit, Connecting, Connected

\* A step that leaves the executor alone and opens and closes no stage.
LEMMA SessionsQuiet ==
  ASSUME SessionsFit, UNCHANGED <<clients, executor, open, config>>,
         Connecting' => Connecting /\ pos' = pos,
         Connected' => Connected,
         Disconnected' => Disconnected
  PROVE  SessionsFit'
<1>1. Nodes' = Nodes /\ Listed' = Listed /\ \A h : ListedOnce(h)' <=> ListedOnce(h)
  BY DEF Nodes, Listed, ListedOnce
<1>2. /\ Connecting' => /\ pos' \in 1 .. Len(Nodes') + 1
                        /\ clients' = {Nodes'[j].host : j \in 1 .. pos' - 1}
      /\ Connected' => executor' = TRUE /\ clients' = Listed'
      /\ Disconnected' => clients' = {}
  BY <1>1 DEF SessionsFit
<1>3. \A h \in Hosts : ListedOnce(h)' => open'[h] = IF h \in clients' THEN 1 ELSE 0
  BY <1>1 DEF SessionsFit
<1> QED BY <1>2, <1>3 DEF SessionsFit

LEMMA EngineOnlySessions ==
  ASSUME EngineBase, SessionsFit, EngineOnly PROVE SessionsFit'
<1>1. UNCHANGED <<clients, executor, open, config, pos>>
  BY EngineMoves DEF world
<1>2. /\ k \in 1 .. 5 /\ cleaning \in 0 .. 4
      /\ at \in {"context", "pre", "run", "post"} => outcome = "none"
  BY EngineNumbers
<1>3. CASE UNCHANGED <<at, k, phaseErr, cleaning, outcome>>
  BY <1>1, <1>3, SessionsQuiet DEF Connecting, Connected, Disconnected
<1>4. CASE /\ at = "context" /\ at' = "pre"
           /\ UNCHANGED <<k, phaseErr, cleaning, outcome>>
  BY <1>1, <1>4, SessionsQuiet DEF Connecting, Connected, Disconnected
<1>5. CASE /\ at \in {"context", "pre"} \/ (at = "post" /\ phaseErr = TRUE)
           /\ at' = "cleanup" /\ cleaning' = k - 1 /\ outcome' \in Failures
           /\ UNCHANGED <<k, phaseErr>>
  <2>1. ~Connecting' /\ (Connected' => Connected) /\ (Disconnected' => Disconnected)
    BY <1>2, <1>5 DEF Connecting, Connected, Disconnected
  <2> QED BY <1>1, <2>1, SessionsQuiet
<1>6. CASE /\ at = "post" /\ phaseErr = FALSE /\ at' = "context" /\ k' = k + 1
           /\ UNCHANGED <<phaseErr, cleaning, outcome>>
  <2>1. ~Connecting' /\ (Connected' => Connected) /\ (Disconnected' => Disconnected)
    BY <1>2, <1>6 DEF Connecting, Connected, Disconnected
  <2> QED BY <1>1, <2>1, SessionsQuiet
<1>7. CASE /\ at = "context" /\ k = 5 /\ at' = "idle" /\ outcome' = "success"
           /\ UNCHANGED <<k, phaseErr, cleaning>>
  <2>1. ~Connecting' /\ ~Connected' /\ ~Disconnected'
    BY <1>7 DEF Connecting, Connected, Disconnected
  <2> QED BY <1>1, <2>1, SessionsQuiet
<1>8. CASE /\ at = "cleanup" /\ cleaning = 0 /\ at' = "idle"
           /\ UNCHANGED <<k, phaseErr, cleaning, outcome>>
  <2>1. ~Connecting' /\ ~Connected' /\ Disconnected
    BY <1>8 DEF Connecting, Connected, Disconnected
  <2> QED BY <1>1, <2>1, SessionsQuiet
<1> QED BY <1>3, <1>4, <1>5, <1>6, <1>7, <1>8, EngineMoves

LEMMA StartPhaseSessions ==
  ASSUME EngineBase, WorldTyped, SessionsFit, StartPhase PROVE SessionsFit'
<1>1. /\ UNCHANGED <<clients, executor, open, config>> /\ pos' = 1
      /\ at = "pre" /\ at' = "run" /\ UNCHANGED <<k, phaseErr, cleaning, outcome>>
  BY BeginPhaseMoves DEF StartPhase, setting, sessions
<1>2. CASE k = 2
  <2>1. Disconnected /\ Connecting' /\ ~Connected' /\ ~Disconnected'
    BY <1>1, <1>2 DEF Connecting, Connected, Disconnected
  <2>2. clients' = {} /\ Len(Nodes') \in Nat
    BY <1>1, <2>1, NodesTyped DEF SessionsFit, Nodes
  <2>3. \A h \in Hosts : ListedOnce(h)' => open'[h] = IF h \in clients' THEN 1 ELSE 0
    BY <1>1 DEF SessionsFit, ListedOnce, Nodes
  <2>4. pos' \in 1 .. Len(Nodes') + 1 /\ 1 .. pos' - 1 = {}
    BY <1>1, <2>2
  <2>5. clients' = {Nodes'[j].host : j \in 1 .. pos' - 1}
    BY <2>2, <2>4
  <2> QED BY <2>1, <2>3, <2>4, <2>5 DEF SessionsFit
<1>3. CASE k # 2
  <2>1. /\ ~Connecting' /\ (Connected' => Connected)
        /\ Disconnected' => Disconnected
    BY <1>1, <1>3 DEF Connecting, Connected, Disconnected
  <2> QED BY <1>1, <2>1, SessionsQuiet
<1> QED BY <1>2, <1>3

LEMMA ConnectNodeSessions ==
  ASSUME EngineBase, WorldTyped, SessionsFit, ConnectNode PROVE SessionsFit'
<1> DEFINE h == Nodes[pos].host
<1>1. at = "run" /\ k = 2 /\ UNCHANGED <<at, k, phaseErr, cleaning, outcome, config>>
  BY PhaseAt DEF ConnectNode, engine, setting, passed
<1>2. /\ NewClient(h) /\ clients' = clients \cup {h}
      /\ pos <= Len(Nodes) /\ pos' = pos + 1
  BY DEF ConnectNode
<1>3. Connecting /\ Connecting' /\ ~Connected' /\ ~Disconnected'
  BY <1>1 DEF Connecting, Connected, Disconnected
<1>4. /\ pos \in 1 .. Len(Nodes) /\ pos \in DOMAIN Nodes /\ Len(Nodes) \in Nat /\ h \in Hosts
      /\ clients = {Nodes[j].host : j \in 1 .. pos - 1}
      /\ DOMAIN Nodes = 1 .. Len(Nodes)
  BY <1>2, <1>3, NodesTyped DEF SessionsFit, WorldTyped
<1>5. Nodes' = Nodes
  BY <1>1 DEF Nodes
<1>6. pos' \in 1 .. Len(Nodes) + 1 /\ 1 .. pos' - 1 = (1 .. pos - 1) \cup {pos}
  BY <1>2, <1>4
<1>7. clients' = {Nodes[j].host : j \in 1 .. pos' - 1}
  BY <1>2, <1>4, <1>6
<1>8. \A g \in Hosts : open'[g] = IF g = h THEN open[g] + 1 ELSE open[g]
  <2> HIDE DEF h
  <2>1. open \in [Hosts -> Int]
    BY DEF WorldTyped
  <2> QED BY <1>2, <2>1 DEF NewClient
<1>9. ASSUME NEW g \in Hosts, ListedOnce(g)'
      PROVE  open'[g] = IF g \in clients' THEN 1 ELSE 0
  <2>1. ListedOnce(g)
    BY <1>5, <1>9 DEF ListedOnce
  <2>2. open[g] = IF g \in clients THEN 1 ELSE 0
    BY <2>1 DEF SessionsFit
  <2>3. g = h => g \notin clients
    <3>1. SUFFICES ASSUME NEW j \in 1 .. pos - 1, g = h, g = Nodes[j].host PROVE FALSE
      BY <1>4
    <3>2. j \in DOMAIN Nodes /\ j # pos
      BY <1>4
    <3> QED BY <1>4, <2>1, <3>1, <3>2 DEF ListedOnce
  <2> HIDE DEF h
  <2> QED BY <1>2, <1>8, <2>2, <2>3
<1> QED BY <1>3, <1>5, <1>6, <1>7, <1>9 DEF SessionsFit

\* Close, at the end of a failed connect or as the cleanup of connect.
LEMMA CloseSessions ==
  ASSUME WorldTyped, SessionsFit, Close, config' = config,
         ~Connecting', ~Connected'
  PROVE  SessionsFit'
<1>1. clients' = {} /\ \A h \in Hosts :
                         open'[h] = IF h \in clients THEN open[h] - 1 ELSE open[h]
  BY CloseTyped
<1>2. \A h \in Hosts : ListedOnce(h)' <=> ListedOnce(h)
  BY DEF ListedOnce, Nodes
<1>3. \A h \in Hosts : ListedOnce(h)' => open'[h] = 0
  BY <1>1, <1>2 DEF SessionsFit
<1> QED BY <1>1, <1>3 DEF SessionsFit

LEMMA ConnectEndsSessions ==
  ASSUME EngineBase, WorldTyped, SessionsFit, ConnectFails \/ ConnectDone PROVE SessionsFit'
<1>1. CASE ConnectFails
  <2>1. InPhase("connect") /\ PhaseReturns(TRUE) /\ Close /\ config' = config
    BY <1>1 DEF ConnectFails, setting
  <2>2. at' = "post" /\ k' = 2 /\ phaseErr' = TRUE
    BY <2>1, PhaseAt, PhaseReturnsMoves
  <2>3. ~Connecting' /\ ~Connected'
    BY <2>2 DEF Connecting, Connected
  <2> QED BY <2>1, <2>3, CloseSessions
<1>2. CASE ConnectDone
  <2>1. /\ InPhase("connect") /\ PhaseReturns(FALSE) /\ executor' = TRUE
        /\ pos > Len(Nodes) /\ UNCHANGED <<clients, open, config>>
    BY <1>2 DEF ConnectDone, sessions
  <2>2. at = "run" /\ k = 2 /\ at' = "post" /\ k' = 2 /\ phaseErr' = FALSE
    BY <2>1, PhaseAt, PhaseReturnsMoves
  <2>3. Connecting /\ ~Connecting' /\ ~Disconnected'
    BY <2>2 DEF Connecting, Connected, Disconnected
  <2>4. 1 .. pos - 1 = DOMAIN Nodes
    BY <2>1, <2>3, NodesTyped DEF SessionsFit
  <2>5. clients' = Listed'
    BY <2>1, <2>3, <2>4 DEF SessionsFit, Listed, Nodes
  <2>6. \A h \in Hosts : ListedOnce(h)' => open'[h] = IF h \in clients' THEN 1 ELSE 0
    BY <2>1 DEF SessionsFit, ListedOnce, Nodes
  <2> QED BY <2>1, <2>3, <2>5, <2>6 DEF SessionsFit
<1> QED BY <1>1, <1>2

LEMMA CleanupConnectSessions ==
  ASSUME EngineBase, WorldTyped, SessionsFit, CleanupConnect PROVE SessionsFit'
<1>1. CleaningUp("connect") /\ CleanupPhase /\ config' = config
  BY DEF CleanupConnect, setting
<1>2. at = "cleanup" /\ cleaning = 2 /\ at' = "cleanup" /\ cleaning' = 1
  BY <1>1, CleanupAt, CleanupPhaseMoves
<1>3. Connected /\ ~Connecting' /\ ~Connected'
  BY <1>2 DEF Connecting, Connected
<1>4. executor = TRUE
  BY <1>3 DEF SessionsFit
<1>5. Close
  BY <1>4 DEF CleanupConnect
<1> QED BY <1>1, <1>3, <1>5, CloseSessions

\* The steps of the phases that neither open nor close a connection.
LEMMA InsideSessions ==
  ASSUME EngineBase, SessionsFit,
         \/ Validate \/ BeginBootstrap \/ InstallNode \/ InstallFails \/ FirstNodeReady
         \/ JoinsDone \/ AllNodesReady \/ WaitEnds \/ RollbackNode \/ RollbackDone
         \/ FetchKubeconfig
  PROVE  SessionsFit'
<1>1. UNCHANGED <<clients, executor, open, config>>
  BY DEF Validate, BeginBootstrap, InstallNode, InstallFails, FirstNodeReady, JoinsDone,
         AllNodesReady, WaitEnds, RollbackNode, UninstallNode, RollbackDone,
         FetchKubeconfig, setting, sessions, world
<1>2. at = "run" /\ k \in {1, 3, 4}
  BY PhaseAt DEF Validate, BeginBootstrap, InstallNode, InstallFails, FirstNodeReady,
         JoinsDone, AllNodesReady, WaitEnds, RollbackNode, RollbackDone, FetchKubeconfig
<1>3. \/ UNCHANGED engine
      \/ \E err \in BOOLEAN : PhaseReturns(err)
  BY DEF Validate, BeginBootstrap, InstallNode, InstallFails, FirstNodeReady, JoinsDone,
         AllNodesReady, WaitEnds, RollbackNode, UninstallNode, RollbackDone, FetchKubeconfig
<1>4. at' \in {"run", "post"} /\ k' = k
  BY <1>2, <1>3, PhaseReturnsMoves DEF engine
<1>5. /\ ~Connecting' /\ (Connected' => Connected)
      /\ Disconnected' => Disconnected
  BY <1>2, <1>4 DEF Connecting, Connected, Disconnected
<1> QED BY <1>1, <1>5, SessionsQuiet

LEMMA CleanupSessions ==
  ASSUME EngineBase, SessionsFit,
         CleanupNothing \/ BeginCleanupBootstrap \/ CleanupBootstrapNode
         \/ EndCleanupBootstrap
  PROVE  SessionsFit'
<1>1. UNCHANGED <<clients, executor, open, config>>
  BY DEF CleanupNothing, BeginCleanupBootstrap, CleanupBootstrapNode, UninstallNode,
         EndCleanupBootstrap, setting, sessions, world
<1>2. at = "cleanup" /\ cleaning \in {1, 3, 4}
  BY CleanupAt DEF CleanupNothing, BeginCleanupBootstrap, CleanupBootstrapNode,
                   EndCleanupBootstrap
<1>3. UNCHANGED engine \/ CleanupPhase
  BY DEF CleanupNothing, BeginCleanupBootstrap, CleanupBootstrapNode, UninstallNode,
         EndCleanupBootstrap
<1>4. at' = "cleanup" /\ cleaning' \in {cleaning, cleaning - 1}
  BY <1>2, <1>3, CleanupPhaseMoves DEF engine
<1>5. /\ ~Connecting' /\ (Connected' => Connected)
      /\ Disconnected' => Disconnected
  BY <1>2, <1>4 DEF Connecting, Connected, Disconnected
<1> QED BY <1>1, <1>5, SessionsQuiet

LEMMA SessionsFitNext ==
  EngineBase /\ WorldTyped /\ SessionsFit /\ [Next]_vars => SessionsFit'
<1> SUFFICES ASSUME EngineBase, WorldTyped, SessionsFit, [Next]_vars PROVE SessionsFit'
  OBVIOUS
<1>1. CASE StartRun
  <2>1. at' = "context" /\ k' = 1 /\ clients' = {} /\ \A h \in Hosts : open'[h] = 0
    BY <1>1 DEF StartRun, Execute
  <2> QED BY <2>1 DEF SessionsFit, Connecting, Connected
<1>2. ASSUME NEW h \in Hosts, LoseConnection(h) \/ BecomesReady(h) PROVE SessionsFit'
  <2>1. UNCHANGED <<clients, executor, open, config, pos, at, k, phaseErr, cleaning, outcome>>
    BY <1>2 DEF LoseConnection, BecomesReady, engine, setting, sessions
  <2> QED BY <2>1, SessionsQuiet DEF Connecting, Connected, Disconnected
<1>3. CASE UNCHANGED vars
  <2>1. UNCHANGED <<clients, executor, open, config, pos, at, k, phaseErr, cleaning, outcome>>
    BY <1>3 DEF vars, engine, world
  <2> QED BY <2>1, SessionsQuiet DEF Connecting, Connected, Disconnected
<1> QED BY <1>1, <1>2, <1>3, EngineOnlySessions, StartPhaseSessions, ConnectNodeSessions,
           ConnectEndsSessions, CleanupConnectSessions, InsideSessions, CleanupSessions
        DEF Next, Progress

-----------------------------------------------------------------------------
(* What a failed run leaves behind.                                        *)

LEMMA CleanFitInit == Init => CleanFit
<1> SUFFICES ASSUME Init PROVE CleanFit
  OBVIOUS
<1>1. at = "idle" /\ sub = "begin" /\ touched = FALSE
  BY DEF Init, EngineInit
<1> QED BY <1>1 DEF CleanFit

LEMMA GoneStays ==
  ASSUME UNCHANGED <<software, stuck, config>>, NEW p
  PROVE  GoneBefore(p) => GoneBefore(p)'
BY DEF GoneBefore, Gone, Nodes

\* A step that leaves the hosts alone and the bootstrap where it is.
LEMMA CleanQuiet ==
  ASSUME CleanFit, UNCHANGED <<software, stuck, config, pos, sub, touched>>,
         touched = TRUE => k' >= 3 /\ ~(k' = 3 /\ at' \in {"context", "pre"}),
         sub = "cleanup" => at' = "idle" \/ (at' = "cleanup" /\ cleaning' <= 3),
         touched = TRUE /\ Undone' => Undone,
         at' = "run" /\ k' = 3 /\ sub = "rollback" => at = "run" /\ k = 3,
         at' = "cleanup" /\ cleaning' = 3 /\ sub = "cleanup" => at = "cleanup" /\ cleaning = 3
  PROVE  CleanFit'
<1>1. touched = TRUE /\ Undone' => GoneBefore(Len(Nodes) + 1)
  BY DEF CleanFit
<1>2. at' = "run" /\ k' = 3 /\ sub = "rollback" => GoneBefore(pos)
  BY DEF CleanFit
<1>3. at' = "cleanup" /\ cleaning' = 3 /\ sub = "cleanup" => GoneBefore(pos)
  BY DEF CleanFit
<1>4. \A p : GoneBefore(p) => GoneBefore(p)'
  BY GoneStays
<1>5. Nodes' = Nodes
  BY DEF Nodes
<1>6. touched' = TRUE /\ Undone' => GoneBefore(Len(Nodes) + 1)'
  BY <1>1, <1>4, <1>5 DEF GoneBefore, Gone
<1>7. at' = "run" /\ k' = 3 /\ sub' = "rollback" => GoneBefore(pos)'
  BY <1>2, <1>4 DEF GoneBefore, Gone
<1>8. at' = "cleanup" /\ cleaning' = 3 /\ sub' = "cleanup" => GoneBefore(pos)'
  BY <1>3, <1>4 DEF GoneBefore, Gone
<1> QED BY <1>6, <1>7, <1>8 DEF CleanFit

\* A step to a place where nothing has been cleaned up yet.
LEMMA CleanElsewhere ==
  ASSUME at' \in {"context", "pre", "run", "post"},
         sub' # "cleanup",
         touched' = TRUE => k' >= 3 /\ ~(k' = 3 /\ at' \in {"context", "pre"}),
         ~(at' = "run" /\ k' = 3 /\ sub' = "rollback"),
         ~(at' = "post" /\ k' = 3 /\ phaseErr' = TRUE)
  PROVE  CleanFit'
<1>1. ~Undone'
  BY DEF Undone
<1> QED BY <1>1 DEF CleanFit

LEMMA EngineOnlyClean ==
  ASSUME EngineBase, CleanFit, EngineOnly PROVE CleanFit'
<1>1. UNCHANGED <<software, stuck, config, pos, sub, touched>>
  BY EngineMoves DEF world
<1>2. /\ k \in 1 .. 5 /\ cleaning \in 0 .. 4
      /\ touched = TRUE => k >= 3 /\ ~(k = 3 /\ at \in {"context", "pre"})
      /\ sub = "cleanup" => at = "idle" \/ (at = "cleanup" /\ cleaning <= 3)
  BY EngineNumbers DEF CleanFit
<1>3. CASE UNCHANGED <<at, k, phaseErr, cleaning, outcome>>
  BY <1>1, <1>2, <1>3, CleanQuiet DEF Undone
<1>4. CASE /\ at = "context" /\ at' = "pre"
           /\ UNCHANGED <<k, phaseErr, cleaning, outcome>>
  BY <1>1, <1>2, <1>4, CleanElsewhere
<1>5. CASE /\ at \in {"context", "pre"} \/ (at = "post" /\ phaseErr = TRUE)
           /\ at' = "cleanup" /\ cleaning' = k - 1 /\ outcome' \in Failures
           /\ UNCHANGED <<k, phaseErr>>
  <2>1. touched = TRUE /\ Undone' => Undone
    <3>1. SUFFICES ASSUME touched = TRUE, Undone' PROVE Undone
      OBVIOUS
    <3>2. cleaning' <= 2
      BY <1>5, <3>1 DEF Undone
    <3>3. k = 3 /\ at = "post" /\ phaseErr = TRUE
      BY <1>2, <1>5, <3>1, <3>2
    <3> QED BY <3>3 DEF Undone
  <2>2. sub # "cleanup"
    BY <1>2, <1>5
  <2>3. touched = TRUE => k' >= 3 /\ ~(k' = 3 /\ at' \in {"context", "pre"})
    BY <1>2, <1>5
  <2> QED BY <1>1, <1>5, <2>1, <2>2, <2>3, CleanQuiet
<1>6. CASE /\ at = "post" /\ phaseErr = FALSE /\ at' = "context" /\ k' = k + 1
           /\ UNCHANGED <<phaseErr, cleaning, outcome>>
  <2>1. /\ touched' = TRUE => k' >= 3 /\ ~(k' = 3 /\ at' \in {"context", "pre"})
        /\ sub' # "cleanup"
    BY <1>1, <1>2, <1>6
  <2> QED BY <1>6, <2>1, CleanElsewhere
<1>7. CASE /\ at = "context" /\ k = 5 /\ at' = "idle" /\ outcome' = "success"
           /\ UNCHANGED <<k, phaseErr, cleaning>>
  <2>1. ~Undone'
    BY <1>7 DEF Undone, Failures
  <2> QED BY <1>1, <1>2, <1>7, <2>1, CleanQuiet
<1>8. CASE /\ at = "cleanup" /\ cleaning = 0 /\ at' = "idle"
           /\ UNCHANGED <<k, phaseErr, cleaning, outcome>>
  <2>1. Undone
    BY <1>8 DEF Undone
  <2> QED BY <1>1, <1>2, <1>8, <2>1, CleanQuiet
<1> QED BY <1>3, <1>4, <1>5, <1>6, <1>7, <1>8, EngineMoves

LEMMA StartPhaseClean ==
  ASSUME EngineBase, CleanFit, StartPhase PROVE CleanFit'
<1>1. /\ sub' = "begin" /\ touched' = touched
      /\ at = "pre" /\ at' = "run" /\ k' = k /\ k \in 1 .. 5
  BY BeginPhaseMoves, EngineNumbers DEF StartPhase, setting
<1> QED BY <1>1, CleanElsewhere DEF CleanFit

\* validate and connect come before the bootstrap, kubeconfig after it.
LEMMA OtherPhasesClean ==
  ASSUME EngineBase, CleanFit,
         Validate \/ ConnectNode \/ ConnectFails \/ ConnectDone \/ FetchKubeconfig
  PROVE  CleanFit'
<1>1. at = "run" /\ k \in {1, 2, 4} /\ UNCHANGED <<sub, touched>>
  BY PhaseAt DEF Validate, ConnectNode, ConnectFails, ConnectDone, FetchKubeconfig,
                 world, setting
<1>2. UNCHANGED engine \/ \E err \in BOOLEAN : PhaseReturns(err)
  BY DEF Validate, ConnectNode, ConnectFails, ConnectDone, FetchKubeconfig
<1>3. at' \in {"run", "post"} /\ k' = k
  BY <1>1, <1>2, PhaseReturnsMoves DEF engine
<1>4. touched = TRUE => k >= 3
  BY DEF CleanFit
<1>5. sub # "cleanup"
  BY <1>1 DEF CleanFit
<1>6. /\ k' # 3
      /\ touched' = TRUE => k' >= 3 /\ ~(k' = 3 /\ at' \in {"context", "pre"})
  BY <1>1, <1>3, <1>4
<1> QED BY <1>1, <1>3, <1>5, <1>6, CleanElsewhere

\* The steps of the bootstrap phase up to its success.
LEMMA BootstrapClean ==
  ASSUME EngineBase, CleanFit,
         BeginBootstrap \/ InstallNode \/ FirstNodeReady \/ JoinsDone \/ AllNodesReady
  PROVE  CleanFit'
<1>1. at = "run" /\ k = 3
  BY PhaseAt DEF BeginBootstrap, InstallNode, FirstNodeReady, JoinsDone, AllNodesReady
<1>2. UNCHANGED engine \/ PhaseReturns(FALSE)
  BY DEF BeginBootstrap, InstallNode, FirstNodeReady, JoinsDone, AllNodesReady
<1>3. k' = 3 /\ at' \in {"run", "post"} /\ (at' = "post" => phaseErr' = FALSE)
  <2>1. CASE UNCHANGED engine
    BY <1>1, <2>1 DEF engine
  <2>2. CASE PhaseReturns(FALSE)
    BY <1>1, <2>2, PhaseReturnsMoves
  <2> QED BY <1>2, <2>1, <2>2
<1>4. sub' \in {"install", "waitFirst", "join", "waitAll"}
  BY DEF BeginBootstrap, InstallNode, FirstNodeReady, JoinsDone, AllNodesReady, world
<1>5. /\ at' \in {"context", "pre", "run", "post"} /\ sub' # "cleanup" /\ sub' # "rollback"
      /\ ~(at' = "post" /\ k' = 3 /\ phaseErr' = TRUE)
  BY <1>3, <1>4
<1>6. k' >= 3 /\ ~(k' = 3 /\ at' \in {"context", "pre"})
  BY <1>3
<1> QED BY <1>5, <1>6, CleanElsewhere

\* An uninstall takes away software only, the node's own in any case.
LEMMA UninstallTakes ==
  ASSUME WorldTyped, NEW j \in DOMAIN Nodes,
         software' = software \/ software' \in Uninstalled(Nodes[j])
  PROVE  /\ \A h \in Hosts : software'[h] \subseteq software[h]
         /\ \A h \in Hosts \ {Nodes[j].host} : software'[h] = software[h]
         /\ software' \in Uninstalled(Nodes[j])
              => Nodes[j].role \notin software'[Nodes[j].host]
<1> DEFINE n == Nodes[j]
<1>1. software \in [Hosts -> SUBSET NodeRoles] /\ n.host \in Hosts
  BY NodesTyped DEF WorldTyped
<1>2. software' \in Uninstalled(n) =>
        \/ software' = [software EXCEPT ![n.host] = @ \ {n.role}]
        \/ software' = [software EXCEPT ![n.host] = {}]
  BY DEF Uninstalled
<1>3. software' = software \/ software' \in Uninstalled(n)
  OBVIOUS
<1> HIDE DEF n
<1>4. /\ \A h \in Hosts : software'[h] \subseteq software[h]
      /\ \A h \in Hosts \ {n.host} : software'[h] = software[h]
      /\ software' \in Uninstalled(n) => n.role \notin software'[n.host]
  BY <1>1, <1>2, <1>3
<1> QED BY <1>4 DEF n

\* An uninstall, whoever calls it, deals with the node it is at.
LEMMA UninstallGone ==
  ASSUME WorldTyped, UninstallNode, clients = Listed, GoneBefore(pos)
  PROVE  GoneBefore(pos)' /\ pos' = pos + 1
<1> DEFINE n == Nodes[pos]
<1>1. pos \in DOMAIN Nodes /\ pos' = pos + 1 /\ pos \in Nat
  BY NodesTyped DEF UninstallNode, WorldTyped
<1>2. n.host \in clients /\ n.host \in Hosts
  BY <1>1, NodesTyped DEF Listed
<1>3. Nodes' = Nodes
  BY DEF UninstallNode, setting, Nodes
<1>4. /\ software' = software \/ software' \in Uninstalled(n)
      /\ \/ software' \in Uninstalled(n) /\ stuck' = stuck
         \/ stuck' = stuck \cup {<<n.host, n.role>>}
  BY <1>2 DEF UninstallNode, remote
<1> DEFINE GoneAfter(m) == m.role \in software'[m.host] => <<m.host, m.role>> \in stuck'
<1>5. GoneAfter(n) /\ \A j \in DOMAIN Nodes : Gone(Nodes[j]) => GoneAfter(Nodes[j])
  <2>1. /\ \A h \in Hosts : software'[h] \subseteq software[h]
        /\ software' \in Uninstalled(n) => n.role \notin software'[n.host]
    BY <1>1, <1>4, UninstallTakes
  <2>2. GoneAfter(n)
    BY <1>4, <2>1
  <2>3. ASSUME NEW j \in DOMAIN Nodes, Gone(Nodes[j])
        PROVE  Nodes[j].role \in software'[Nodes[j].host]
                 => <<Nodes[j].host, Nodes[j].role>> \in stuck'
    <3>1. Nodes[j].host \in Hosts
      BY NodesTyped
    <3>2. stuck \subseteq stuck'
      BY <1>4
    <3> QED BY <2>1, <2>3, <3>1, <3>2 DEF Gone
  <2> QED BY <2>2, <2>3
<1>6. ASSUME NEW j \in DOMAIN Nodes, j < pos + 1 PROVE GoneAfter(Nodes[j])
  <2>1. j \in Nat
    BY NodesTyped
  <2>2. CASE j = pos
    BY <1>5, <2>2
  <2>3. CASE j < pos
    BY <1>5, <2>3 DEF GoneBefore
  <2> QED BY <1>1, <1>6, <2>1, <2>2, <2>3
<1> QED BY <1>1, <1>3, <1>6 DEF GoneBefore, Gone

LEMMA RollbackClean ==
  ASSUME EngineBase, WorldTyped, SessionsFit, CleanFit,
         InstallFails \/ WaitEnds \/ RollbackNode \/ RollbackDone
  PROVE  CleanFit'
<1>1. at = "run" /\ k = 3
  BY PhaseAt DEF InstallFails, WaitEnds, RollbackNode, RollbackDone
<1>2. CASE InstallFails \/ WaitEnds
  <2>1. UNCHANGED engine /\ sub' = "rollback" /\ pos' = 1
    BY <1>2 DEF InstallFails, WaitEnds
  <2>2. at' = "run" /\ k' = 3
    BY <1>1, <2>1 DEF engine
  <2>3. GoneBefore(pos)'
    <3>1. config' = config
      BY <1>2 DEF InstallFails, WaitEnds, setting
    <3>2. \A j \in DOMAIN Nodes' : ~(j < pos')
      BY <2>1, <3>1, NodesTyped DEF Nodes
    <3> QED BY <3>2 DEF GoneBefore
  <2> QED BY <2>1, <2>2, <2>3 DEF CleanFit, Undone
<1>3. CASE RollbackNode
  <2>1. UNCHANGED engine /\ sub = "rollback" /\ sub' = "rollback" /\ UninstallNode
    BY <1>3 DEF RollbackNode, UninstallNode
  <2>2. at' = "run" /\ k' = 3
    BY <1>1, <2>1 DEF engine
  <2>3. clients = Listed
    BY <1>1 DEF SessionsFit, Connected
  <2>4. GoneBefore(pos)
    BY <1>1, <2>1 DEF CleanFit
  <2>5. GoneBefore(pos)'
    BY <2>1, <2>3, <2>4, UninstallGone
  <2> QED BY <2>1, <2>2, <2>5 DEF CleanFit, Undone
<1>4. CASE RollbackDone
  <2>1. /\ sub = "rollback" /\ pos > Len(Nodes) /\ PhaseReturns(TRUE)
        /\ UNCHANGED <<software, stuck, config, sub, pos>>
    BY <1>4 DEF RollbackDone, world
  <2>2. at' = "post" /\ k' = 3 /\ sub' = "rollback"
    BY <1>1, <2>1, PhaseReturnsMoves
  <2>3. GoneBefore(pos)
    BY <1>1, <2>1 DEF CleanFit
  <2>4. GoneBefore(Len(Nodes) + 1)
    BY <2>1, <2>3, NodesTyped DEF GoneBefore, WorldTyped
  <2>5. GoneBefore(Len(Nodes) + 1)'
    BY <2>1, <2>4 DEF GoneBefore, Gone, Nodes
  <2> QED BY <2>2, <2>5 DEF CleanFit
<1> QED BY <1>2, <1>3, <1>4

LEMMA CleanupBootstrapClean ==
  ASSUME EngineBase, WorldTyped, SessionsFit, CleanFit,
         BeginCleanupBootstrap \/ CleanupBootstrapNode \/ EndCleanupBootstrap
  PROVE  CleanFit'
<1>1. at = "cleanup" /\ cleaning = 3
  BY CleanupAt DEF BeginCleanupBootstrap, CleanupBootstrapNode, EndCleanupBootstrap
<1>2. executor = TRUE /\ clients = Listed
  BY <1>1 DEF SessionsFit, Connected
<1>3. touched = TRUE => k >= 3 /\ ~(k = 3 /\ at \in {"context", "pre"})
  BY DEF CleanFit
<1>4. CASE BeginCleanupBootstrap
  <2>1. /\ UNCHANGED engine /\ sub' = "cleanup" /\ pos' = 1
        /\ UNCHANGED <<touched, config>>
    BY <1>4 DEF BeginCleanupBootstrap, setting
  <2>2. at' = "cleanup" /\ cleaning' = 3 /\ k' = k
    BY <1>1, <2>1 DEF engine
  <2>3. GoneBefore(pos)'
    <3>2. \A j \in DOMAIN Nodes' : ~(j < pos')
      BY <2>1, NodesTyped DEF Nodes
    <3> QED BY <3>2 DEF GoneBefore
  <2> QED BY <1>3, <2>1, <2>2, <2>3 DEF CleanFit, Undone
<1>5. CASE CleanupBootstrapNode
  <2>1. /\ UNCHANGED engine /\ sub = "cleanup" /\ sub' = "cleanup" /\ UninstallNode
        /\ UNCHANGED touched
    BY <1>5 DEF CleanupBootstrapNode, UninstallNode, setting
  <2>2. at' = "cleanup" /\ cleaning' = 3 /\ k' = k
    BY <1>1, <2>1 DEF engine
  <2>3. GoneBefore(pos)
    BY <1>1, <2>1 DEF CleanFit
  <2>4. GoneBefore(pos)'
    BY <1>2, <2>1, <2>3, UninstallGone
  <2> QED BY <1>3, <2>1, <2>2, <2>4 DEF CleanFit, Undone
<1>6. CASE EndCleanupBootstrap
  <2>1. /\ sub = "cleanup" /\ pos > Len(Nodes) /\ CleanupPhase
        /\ UNCHANGED <<software, stuck, config, sub, pos, touched>>
    BY <1>2, <1>6 DEF EndCleanupBootstrap, world
  <2>2. at' = "cleanup" /\ cleaning' = 2 /\ k' = k
    BY <1>1, <2>1, CleanupPhaseMoves
  <2>3. GoneBefore(pos)
    BY <1>1, <2>1 DEF CleanFit
  <2>4. GoneBefore(Len(Nodes) + 1)
    BY <2>1, <2>3, NodesTyped DEF GoneBefore, WorldTyped
  <2>5. GoneBefore(Len(Nodes) + 1)'
    BY <2>1, <2>4 DEF GoneBefore, Gone, Nodes
  <2> QED BY <1>1, <1>3, <2>1, <2>2, <2>5 DEF CleanFit
<1> QED BY <1>4, <1>5, <1>6

LEMMA CleanupOthersClean ==
  ASSUME EngineBase, CleanFit, CleanupNothing \/ CleanupConnect PROVE CleanFit'
<1>1. at = "cleanup" /\ cleaning \in {1, 2, 4}
  BY CleanupAt DEF CleanupNothing, CleanupConnect
<1>2. CleanupPhase /\ UNCHANGED <<software, stuck, config, pos, sub, touched>>
  BY DEF CleanupNothing, CleanupConnect, world, setting, remote
<1>3. at' = "cleanup" /\ cleaning' = cleaning - 1 /\ UNCHANGED <<k, phaseErr, outcome>>
  BY <1>2, CleanupPhaseMoves
<1>4. sub = "cleanup" => cleaning <= 3
  BY <1>1 DEF CleanFit
<1>5. Undone' => Undone
  BY <1>1, <1>3 DEF Undone
<1>6. touched = TRUE => k' >= 3 /\ ~(k' = 3 /\ at' \in {"context", "pre"})
  BY <1>3 DEF CleanFit
<1>7. /\ sub = "cleanup" => cleaning' <= 3
      /\ cleaning' = 3 => sub # "cleanup"
  BY <1>1, <1>3, <1>4
<1> QED BY <1>2, <1>3, <1>5, <1>6, <1>7, CleanQuiet

LEMMA CleanFitNext ==
  EngineBase /\ WorldTyped /\ SessionsFit /\ CleanFit /\ [Next]_vars => CleanFit'
<1> SUFFICES ASSUME EngineBase, WorldTyped, SessionsFit, CleanFit, [Next]_vars
             PROVE  CleanFit'
  OBVIOUS
<1>1. CASE StartRun
  <2>1. at' = "context" /\ sub' = "begin" /\ touched' = FALSE
    BY <1>1 DEF StartRun, Execute
  <2> QED BY <2>1, CleanElsewhere
<1>2. ASSUME UNCHANGED engine, UNCHANGED <<software, stuck, config, pos, sub, touched>>
      PROVE  CleanFit'
  <2>1. UNCHANGED <<at, k, phaseErr, cleaning, outcome>>
    BY <1>2 DEF engine
  <2>2. /\ touched = TRUE => k' >= 3 /\ ~(k' = 3 /\ at' \in {"context", "pre"})
        /\ sub = "cleanup" => at' = "idle" \/ (at' = "cleanup" /\ cleaning' <= 3)
    BY <2>1 DEF CleanFit
  <2>3. Undone' => Undone
    BY <2>1 DEF Undone
  <2> QED BY <1>2, <2>1, <2>2, <2>3, CleanQuiet
<1>3. ASSUME NEW h \in Hosts, LoseConnection(h) \/ BecomesReady(h) PROVE CleanFit'
  BY <1>2, <1>3 DEF LoseConnection, BecomesReady, setting
<1>4. CASE UNCHANGED vars
  BY <1>2, <1>4 DEF vars, world
<1> QED BY <1>1, <1>3, <1>4, EngineOnlyClean, StartPhaseClean, OtherPhasesClean,
           BootstrapClean, RollbackClean, CleanupBootstrapClean, CleanupOthersClean
        DEF Next, Progress

-----------------------------------------------------------------------------
(* What a run that succeeded has set up.                                   *)

LEMMA ClusterFitsInit == Init => ClusterFits
<1> SUFFICES ASSUME Init PROVE ClusterFits
  OBVIOUS
<1>1. /\ at = "idle" /\ outcome = "none" /\ ready = {}
      /\ \A h \in Hosts : software[h] = {}
  BY DEF Init, EngineInit
<1>2. \A p : ~Passed(p)
  BY <1>1 DEF Passed
<1> QED BY <1>1, <1>2 DEF ClusterFits, HostsFit, InstallFits, PassedFits

LEMMA RolesListed ==
  \A h : Roles(h) # {} <=> h \in Listed
BY DEF Roles, Listed

LEMMA ClusterParts == ClusterFits <=> HostsFit /\ InstallFits /\ PassedFits
BY DEF ClusterFits

LEMMA ClusterPartsNext == ClusterFits' <=> HostsFit' /\ InstallFits' /\ PassedFits'
BY DEF ClusterFits

LEMMA HostsQuiet ==
  ASSUME HostsFit, UNCHANGED <<software, ready, before, config>> PROVE HostsFit'
BY DEF HostsFit, Roles, Nodes

LEMMA PassedQuiet ==
  ASSUME PassedFits, UNCHANGED <<software, ready, before, config>>,
         Passed(1)' => Passed(1), Passed(3)' => Passed(3), Passed(4)' => Passed(4),
         merged' = merged
  PROVE  PassedFits'
<1>1. /\ Nodes' = Nodes /\ Listed' = Listed
      /\ ValidNodes' <=> ValidNodes
      /\ AllReady' <=> AllReady
      /\ FirstServer' <=> FirstServer
  BY DEF Nodes, Listed, ValidNodes, Servers, AllReady, NoOthers, FirstServer
<1> QED BY <1>1 DEF PassedFits

\* The engine goes on to the next phase, or fails.
LEMMA EngineOnlyCluster ==
  ASSUME EngineBase, ClusterFits, EngineOnly PROVE ClusterFits'
<1>1. UNCHANGED <<software, ready, config, before, merged, pos, sub>>
  BY EngineMoves DEF world
<1>2. /\ k \in 1 .. 5 /\ cleaning \in 0 .. 4
      /\ at = "cleanup" => outcome \in Failures
  BY EngineNumbers
<1>3. ASSUME NEW p \in 1 .. 4, Passed(p)' PROVE Passed(p)
  <2>1. CASE UNCHANGED <<at, k, phaseErr, cleaning, outcome>>
    BY <1>3, <2>1 DEF Passed
  <2>2. CASE /\ at = "context" /\ at' = "pre"
             /\ UNCHANGED <<k, phaseErr, cleaning, outcome>>
    BY <1>3, <2>2 DEF Passed
  <2>3. ~(at' = "cleanup")
    BY <1>3 DEF Passed
  <2>4. CASE /\ at = "post" /\ phaseErr = FALSE /\ at' = "context" /\ k' = k + 1
             /\ UNCHANGED <<phaseErr, cleaning, outcome>>
    <3>1. k + 1 > p
      BY <1>3, <2>4 DEF Passed
    <3>2. k > p \/ k = p
      BY <1>2, <3>1
    <3> QED BY <2>4, <3>2 DEF Passed
  <2>5. CASE at = "context" /\ k = 5
    BY <2>5 DEF Passed
  <2>6. CASE /\ at = "cleanup" /\ cleaning = 0 /\ at' = "idle"
             /\ UNCHANGED <<k, phaseErr, cleaning, outcome>>
    <3>1. outcome' \in Failures /\ at' = "idle"
      BY <1>2, <2>6
    <3> QED BY <1>3, <3>1 DEF Passed, Failures
  <2> QED BY <2>1, <2>2, <2>3, <2>4, <2>5, <2>6, EngineMoves
<1>4. at' = "run" /\ k' = 3 => at = "run" /\ k = 3
  BY EngineMoves
<1>5. InstallFits'
  BY <1>1, <1>4, ClusterParts DEF InstallFits, FirstServer, Nodes
<1> QED BY <1>1, <1>3, <1>5, ClusterParts, ClusterPartsNext, HostsQuiet, PassedQuiet

LEMMA StartPhaseCluster ==
  ASSUME EngineBase, ClusterFits, StartPhase PROVE ClusterFits'
<1>1. /\ sub' = "begin" /\ at = "pre" /\ at' = "run" /\ k' = k
      /\ UNCHANGED <<software, ready, config, before, merged>>
  BY BeginPhaseMoves DEF StartPhase, setting, remote
<1>2. InstallFits'
  BY <1>1 DEF InstallFits
<1>3. \A p : Passed(p)' => Passed(p)
  BY <1>1 DEF Passed
<1> QED BY <1>1, <1>2, <1>3, ClusterParts, ClusterPartsNext, HostsQuiet, PassedQuiet

\* validate and connect.
LEMMA FirstPhasesCluster ==
  ASSUME EngineBase, ClusterFits, Validate \/ ConnectNode \/ ConnectFails \/ ConnectDone
  PROVE  ClusterFits'
<1>1. /\ at = "run" /\ k \in {1, 2}
      /\ UNCHANGED <<software, ready, config, before, merged>>
  BY PhaseAt DEF Validate, ConnectNode, ConnectFails, ConnectDone, world, setting, remote
<1>2. UNCHANGED engine \/ \E err \in BOOLEAN : PhaseReturns(err)
  BY DEF Validate, ConnectNode, ConnectFails, ConnectDone
<1>3. at' \in {"run", "post"} /\ k' = k
  BY <1>1, <1>2, PhaseReturnsMoves DEF engine
<1>4. InstallFits' /\ ~Passed(3)' /\ ~Passed(4)'
  BY <1>1, <1>3 DEF InstallFits, Passed
<1>5. Passed(1)' => ValidNodes
  <2>1. CASE k = 2
    <3>1. Passed(1)
      BY <1>1, <2>1 DEF Passed
    <3> QED BY <3>1, ClusterParts DEF PassedFits
  <2>2. CASE k = 1
    <3>0. ~InPhase("connect")
      BY <2>2, PhaseAt
    <3>1. Validate
      BY <3>0 DEF ConnectNode, ConnectFails, ConnectDone
    <3>2. PICK err \in BOOLEAN : (ValidNodes \/ err = TRUE) /\ PhaseReturns(err)
      BY <3>1 DEF Validate
    <3>3. at' = "post" /\ k' = 1 /\ phaseErr' = err
      BY <2>2, <3>2, PhaseReturnsMoves
    <3>4. Passed(1)' => phaseErr' = FALSE
      BY <3>3 DEF Passed
    <3> QED BY <3>2, <3>3, <3>4
  <2> QED BY <1>1, <2>1, <2>2
<1>6. ValidNodes' <=> ValidNodes
  BY <1>1 DEF ValidNodes, Servers, Nodes
<1>7. PassedFits'
  BY <1>4, <1>5, <1>6 DEF PassedFits
<1> QED BY <1>1, <1>4, <1>7, ClusterParts, ClusterPartsNext, HostsQuiet

\* In the bootstrap phase the configuration has been validated already.
LEMMA InBootstrap ==
  ASSUME EngineBase, ClusterFits, InPhase("bootstrap"), config' = config
  PROVE  /\ at = "run" /\ k = 3 /\ ValidNodes /\ (ValidNodes' <=> ValidNodes)
         /\ UNCHANGED engine => /\ at' = "run" /\ k' = 3
                                /\ ~Passed(3)' /\ ~Passed(4)' /\ PassedFits'
         /\ PhaseReturns(FALSE) => at' = "post" /\ ~Passed(4)' /\ InstallFits'
         /\ PhaseReturns(TRUE) => at' = "post" /\ InstallFits' /\ PassedFits'
<1>1. at = "run" /\ k = 3
  BY PhaseAt
<1>2. Passed(1)
  BY <1>1 DEF Passed
<1>3. ValidNodes /\ (ValidNodes' <=> ValidNodes)
  BY <1>2, ClusterParts DEF PassedFits, ValidNodes, Servers, Nodes
<1>4. ASSUME UNCHANGED engine
      PROVE  /\ at' = "run" /\ k' = 3
             /\ ~Passed(3)' /\ ~Passed(4)' /\ PassedFits'
  <2>1. at' = "run" /\ k' = 3
    BY <1>1, <1>4 DEF engine
  <2>2. ~Passed(3)' /\ ~Passed(4)'
    BY <2>1 DEF Passed
  <2> QED BY <1>3, <2>1, <2>2 DEF PassedFits
<1>5. ASSUME PhaseReturns(FALSE) PROVE at' = "post" /\ ~Passed(4)' /\ InstallFits'
  <2>1. at' = "post" /\ k' = 3
    BY <1>1, <1>5, PhaseReturnsMoves
  <2> QED BY <2>1 DEF Passed, InstallFits
<1>6. ASSUME PhaseReturns(TRUE) PROVE at' = "post" /\ InstallFits' /\ PassedFits'
  <2>1. at' = "post" /\ k' = 3 /\ phaseErr' = TRUE
    BY <1>1, <1>6, PhaseReturnsMoves
  <2>2. ~Passed(3)' /\ ~Passed(4)'
    BY <2>1 DEF Passed
  <2> QED BY <1>3, <2>1, <2>2 DEF InstallFits, PassedFits
<1> QED BY <1>1, <1>3, <1>4, <1>5, <1>6

\* The steps of the bootstrap that leave the hosts alone and do not end it.
LEMMA BootstrapMovesCluster ==
  ASSUME EngineBase, WorldTyped, ClusterFits,
         BeginBootstrap \/ FirstNodeReady \/ WaitEnds \/ (JoinsDone /\ Len(Nodes) > 1)
  PROVE  ClusterFits'
<1>1. /\ InPhase("bootstrap") /\ UNCHANGED engine
      /\ UNCHANGED <<software, ready, config, before>>
  BY DEF BeginBootstrap, FirstNodeReady, WaitEnds, JoinsDone, setting, remote
<1>2. at = "run" /\ k = 3 /\ at' = "run" /\ k' = 3 /\ PassedFits'
  BY <1>1, InBootstrap
<1>3. /\ sub \in {"waitFirst", "join", "waitAll"} /\ ready # {} => FirstServer
      /\ sub \in {"join", "waitAll"} => ready # {}
  BY <1>2, ClusterParts DEF InstallFits
<1>4. FirstServer => FirstServer'
  BY <1>1 DEF FirstServer, Nodes
<1>6. InstallFits'
  <2>1. CASE BeginBootstrap
    BY <2>1 DEF BeginBootstrap, InstallFits
  <2>2. CASE FirstNodeReady
    <3>1. sub' = "join" /\ sub = "waitFirst" /\ ready # {} /\ ready' = ready
      BY <1>1, <2>2 DEF FirstNodeReady
    <3> QED BY <1>3, <1>4, <3>1 DEF InstallFits
  <2>3. CASE WaitEnds
    BY <2>3 DEF WaitEnds, InstallFits
  <2>4. CASE JoinsDone /\ Len(Nodes) > 1
    <3>1. sub' = "waitAll" /\ sub = "join" /\ ready' = ready
      BY <1>1, <2>4 DEF JoinsDone
    <3> QED BY <1>3, <1>4, <3>1 DEF InstallFits
  <2> QED BY <2>1, <2>2, <2>3, <2>4
<1> QED BY <1>1, <1>2, <1>6, ClusterParts, ClusterPartsNext, HostsQuiet

\* The software of a node is installed: other hosts keep theirs.
LEMMA InstallSoftware ==
  ASSUME WorldTyped, NEW j \in DOMAIN Nodes
  PROVE  \A h \in Hosts : Install(Nodes[j])[h] =
            IF h = Nodes[j].host THEN software[h] \cup {Nodes[j].role} ELSE software[h]
<1>1. software \in [Hosts -> SUBSET NodeRoles] /\ Nodes[j].host \in Hosts
  BY NodesTyped DEF WorldTyped
<1> QED BY <1>1 DEF Install

LEMMA InstallHosts ==
  ASSUME WorldTyped, HostsFit, NEW j \in DOMAIN Nodes,
         software' = software \/ software' = Install(Nodes[j]),
         UNCHANGED <<ready, before, config>>
  PROVE  HostsFit' /\ \A h \in Hosts : software[h] \subseteq software'[h]
<1> DEFINE n == Nodes[j]
<1>1. n.role \in Roles(n.host) /\ \A h : Roles(h)' = Roles(h)
  BY DEF Roles, Nodes
<1>2. /\ \A h \in Hosts : software[h] \subseteq software'[h]
      /\ \A h \in Hosts \ {n.host} : software'[h] = software[h]
      /\ software'[n.host] \subseteq software[n.host] \cup {n.role}
  <2>1. n.host \in Hosts
    BY NodesTyped
  <2> QED BY <2>1, InstallSoftware
<1> HIDE DEF n
<1>3. \A h \in Hosts : software'[h] \subseteq software[h] \cup Roles(h)
  BY <1>1, <1>2
<1> QED BY <1>1, <1>2, <1>3 DEF HostsFit

LEMMA InstallNodeCluster ==
  ASSUME EngineBase, WorldTyped, ReadyFits, ClusterFits, InstallNode PROVE ClusterFits'
<1>1. /\ InPhase("bootstrap") /\ UNCHANGED engine /\ UNCHANGED <<ready, before, config>>
      /\ sub \in {"install", "join"} /\ pos <= Len(Nodes)
      /\ software' = software \/ software' = Install(Nodes[pos])
      /\ sub' \in {"waitFirst", "join"} /\ (sub' = "join" => sub = "join")
  BY DEF InstallNode, setting
<1>2. at = "run" /\ k = 3 /\ at' = "run" /\ k' = 3 /\ PassedFits'
  BY <1>1, InBootstrap
<1>3. pos \in DOMAIN Nodes
  BY <1>1, NodesTyped DEF WorldTyped
<1>4. HostsFit' /\ \A h \in Hosts : software[h] \subseteq software'[h]
  BY <1>1, <1>3, ClusterParts, InstallHosts
<1>5. Nodes[1].host \in Hosts
  BY <1>3, NodesTyped DEF WorldTyped
<1>6. FirstServer => FirstServer'
  BY <1>1, <1>4, <1>5 DEF FirstServer, Nodes
<1>7. /\ sub = "install" => ready = {}
      /\ sub = "join" => ready # {} /\ FirstServer
  BY <1>2, ClusterParts DEF ReadyFits, Early, InstallFits
<1>8. InstallFits'
  BY <1>1, <1>6, <1>7 DEF InstallFits
<1> QED BY <1>2, <1>4, <1>8, ClusterPartsNext

LEMMA InstallFailsCluster ==
  ASSUME EngineBase, WorldTyped, ClusterFits, InstallFails PROVE ClusterFits'
<1>1. /\ InPhase("bootstrap") /\ UNCHANGED engine /\ UNCHANGED <<ready, before, config>>
      /\ pos <= Len(Nodes) /\ sub' = "rollback"
      /\ software' = software \/ software' = Install(Nodes[pos])
  BY DEF InstallFails, setting
<1>2. pos \in DOMAIN Nodes
  BY <1>1, NodesTyped DEF WorldTyped
<1>3. HostsFit'
  BY <1>1, <1>2, ClusterParts, InstallHosts
<1>4. InstallFits' /\ PassedFits'
  BY <1>1, InBootstrap DEF InstallFits
<1> QED BY <1>3, <1>4, ClusterPartsNext

LEMMA BecomesReadyCluster ==
  ASSUME EngineBase, ClusterFits, NEW h \in Hosts, BecomesReady(h) PROVE ClusterFits'
<1>1. /\ InPhase("bootstrap") /\ UNCHANGED engine
      /\ UNCHANGED <<sub, pos, software, before, config>>
      /\ software[h] # {} /\ ready' = ready \cup {h} /\ FirstServer
  BY DEF BecomesReady, setting, FirstServer
<1>2. at = "run" /\ k = 3 /\ at' = "run" /\ k' = 3 /\ PassedFits'
  BY <1>1, InBootstrap
<1>3. HostsFit'
  BY <1>1, ClusterParts DEF HostsFit, Roles, Nodes
<1>4. InstallFits'
  BY <1>1, <1>2, ClusterParts DEF InstallFits, FirstServer, Nodes
<1> QED BY <1>2, <1>3, <1>4, ClusterPartsNext

LEMMA NodesFinite ==
  ASSUME WorldTyped
  PROVE  IsFiniteSet(DOMAIN Nodes) /\ Cardinality(DOMAIN Nodes) = Len(Nodes)
<1> DEFINE m == Len(Nodes)
<1>1. 1 \in Int /\ m \in Int /\ m \in Nat /\ DOMAIN Nodes = 1 .. m
  BY NodesTyped
<1> HIDE DEF m
<1>2. /\ IsFiniteSet(1 .. m)
      /\ Cardinality(1 .. m) = IF 1 > m THEN 0 ELSE m - 1 + 1
  BY <1>1, FS_Interval
<1>3. IsFiniteSet(1 .. m) /\ Cardinality(1 .. m) = m
  BY <1>1, <1>2
<1> QED BY <1>1, <1>3 DEF m

LEMMA ReadyListed ==
  ASSUME WorldTyped, HostsFit, NoOthers PROVE ready \subseteq Listed
<1> SUFFICES ASSUME NEW h \in ready PROVE h \in Listed
  OBVIOUS
<1>1. h \in Hosts /\ software[h] # {} /\ software[h] \subseteq before[h] \cup Roles(h)
  BY DEF WorldTyped, HostsFit
<1>2. before[h] # {} \/ Roles(h) # {}
  BY <1>1
<1> QED BY <1>1, <1>2, RolesListed DEF NoOthers

\* With no foreign nodes, as many Ready nodes as the configuration lists are
\* those nodes, and no host is listed twice.
LEMMA ReadyCounted ==
  ASSUME WorldTyped, HostsFit, Cardinality(ready) >= Len(Nodes)
  PROVE  AllReady
<1> SUFFICES ASSUME NoOthers
             PROVE  /\ \A i, j \in DOMAIN Nodes : Nodes[i].host = Nodes[j].host => i = j
                    /\ Listed \subseteq ready
  BY DEF AllReady
<1> DEFINE S == DOMAIN Nodes
           f == [j \in S |-> Nodes[j].host]
<1>1. S = 1 .. Len(Nodes) /\ Len(Nodes) \in Nat
  BY NodesTyped
<1>2. IsFiniteSet(S) /\ Cardinality(S) = Len(Nodes)
  BY NodesFinite
<1>3. f \in Surjection(S, Listed)
  BY DEF Surjection, Listed
<1>4. /\ IsFiniteSet(Listed) /\ Cardinality(Listed) <= Cardinality(S)
      /\ Cardinality(Listed) = Cardinality(S) <=> f \in Injection(S, Listed)
  <2> HIDE DEF f, S
  <2> QED BY <1>2, <1>3, FS_Surjection
<1>5. ready \subseteq Listed
  BY ReadyListed
<1>6. /\ IsFiniteSet(ready) /\ Cardinality(ready) <= Cardinality(Listed)
      /\ Cardinality(Listed) = Cardinality(ready) => Listed = ready
  BY <1>4, <1>5, FS_Subset
<1>7. Cardinality(ready) \in Nat /\ Cardinality(Listed) \in Nat
  BY <1>4, <1>6, FS_CardinalityType
<1>8. Cardinality(Listed) = Cardinality(ready) /\ Cardinality(Listed) = Cardinality(S)
  <2> HIDE DEF S
  <2> QED BY <1>1, <1>2, <1>4, <1>6, <1>7
<1>9. f \in Injection(S, Listed)
  BY <1>4, <1>8
<1>10. \A i, j \in S : f[i] = f[j] => i = j
  BY <1>9 DEF Injection, IsInjective
<1> QED BY <1>6, <1>8, <1>10

\* A single node is the one that has been waited for.
LEMMA SingleReady ==
  ASSUME WorldTyped, HostsFit, ready # {}, Servers # {}, Len(Nodes) <= 1
  PROVE  AllReady
<1>1. DOMAIN Nodes = {1}
  <2>1. DOMAIN Nodes = 1 .. Len(Nodes) /\ Len(Nodes) \in Nat
    BY NodesTyped
  <2>2. Len(Nodes) # 0
    BY <2>1 DEF Servers
  <2> QED BY <2>1, <2>2
<1>2. Listed = {Nodes[1].host}
  BY <1>1 DEF Listed
<1>3. NoOthers => ready \subseteq Listed
  BY ReadyListed
<1> QED BY <1>1, <1>2, <1>3 DEF AllReady

LEMMA BootstrapEndsCluster ==
  ASSUME EngineBase, WorldTyped, ClusterFits,
         AllNodesReady \/ (JoinsDone /\ ~(Len(Nodes) > 1))
  PROVE  ClusterFits'
<1>1. /\ InPhase("bootstrap") /\ PhaseReturns(FALSE)
      /\ UNCHANGED <<software, ready, before, config>>
      /\ sub \in {"join", "waitAll"}
  BY DEF AllNodesReady, JoinsDone, world, setting, remote
<1>2. at = "run" /\ k = 3 /\ ValidNodes /\ ValidNodes' /\ ~Passed(4)' /\ InstallFits'
  BY <1>1, InBootstrap
<1>3. FirstServer /\ ready # {}
  BY <1>1, <1>2, ClusterParts DEF InstallFits
<1>5. AllReady
  <2>1. CASE AllNodesReady
    BY <2>1, ClusterParts, ReadyCounted DEF AllNodesReady
  <2>2. CASE JoinsDone /\ ~(Len(Nodes) > 1)
    BY <1>2, <1>3, <2>2, ClusterParts, NodesTyped, SingleReady DEF ValidNodes
  <2> QED BY <2>1, <2>2
<1>6. FirstServer' /\ AllReady'
  BY <1>1, <1>3, <1>5 DEF FirstServer, AllReady, NoOthers, Listed, Nodes
<1>7. PassedFits'
  BY <1>2, <1>6 DEF PassedFits
<1> QED BY <1>1, <1>2, <1>7, ClusterParts, ClusterPartsNext, HostsQuiet

\* An uninstall takes the node out of the Ready ones.
LEMMA UninstallHosts ==
  ASSUME WorldTyped, HostsFit, UninstallNode PROVE HostsFit'
<1> DEFINE n == Nodes[pos]
<1>1. UNCHANGED <<before, config>> /\ pos \in DOMAIN Nodes
  BY NodesTyped DEF UninstallNode, setting, WorldTyped
<1>2. /\ software' = software \/ software' \in Uninstalled(n)
      /\ ready' \subseteq ready
      /\ software' # software => n.host \notin ready'
  BY DEF UninstallNode, remote
<1>3. /\ \A h \in Hosts : software'[h] \subseteq software[h]
      /\ \A h \in Hosts \ {n.host} : software'[h] = software[h]
  BY <1>1, <1>2, UninstallTakes
<1>4. \A h : Roles(h)' = Roles(h)
  BY <1>1 DEF Roles, Nodes
<1> HIDE DEF n
<1>5. ASSUME NEW h \in Hosts, h \in ready' PROVE software'[h] # {}
  <2>1. h \in ready /\ software[h] # {}
    BY <1>2, <1>5 DEF HostsFit
  <2>2. CASE software' = software
    BY <2>1, <2>2
  <2>3. CASE software' # software
    BY <1>2, <1>3, <1>5, <2>1, <2>3
  <2> QED BY <2>2, <2>3
<1>6. \A h \in Hosts : software'[h] \subseteq before'[h] \cup Roles(h)'
  BY <1>1, <1>3, <1>4 DEF HostsFit
<1> QED BY <1>5, <1>6 DEF HostsFit

LEMMA RollbackCluster ==
  ASSUME EngineBase, WorldTyped, ClusterFits, RollbackNode \/ RollbackDone
  PROVE  ClusterFits'
<1>1. CASE RollbackNode
  <2>1. /\ InPhase("bootstrap") /\ UNCHANGED engine /\ sub' = "rollback"
        /\ config' = config /\ UninstallNode
    BY <1>1 DEF RollbackNode, UninstallNode, setting
  <2>2. InstallFits' /\ PassedFits'
    BY <2>1, InBootstrap DEF InstallFits
  <2> QED BY <2>1, <2>2, ClusterParts, ClusterPartsNext, UninstallHosts
<1>2. CASE RollbackDone
  <2>1. /\ InPhase("bootstrap") /\ PhaseReturns(TRUE)
        /\ UNCHANGED <<software, ready, before, config>>
    BY <1>2 DEF RollbackDone, world
  <2> QED BY <2>1, InBootstrap, ClusterParts, ClusterPartsNext, HostsQuiet
<1> QED BY <1>1, <1>2

LEMMA FetchKubeconfigCluster ==
  ASSUME EngineBase, ClusterFits, FetchKubeconfig PROVE ClusterFits'
<1>1. /\ InPhase("kubeconfig") /\ UNCHANGED <<software, ready, before, config>>
      /\ \/ merged' = TRUE /\ PhaseReturns(FALSE)
         \/ PhaseReturns(TRUE)
  BY DEF FetchKubeconfig
<1>2. at = "run" /\ k = 4 /\ at' = "post" /\ k' = 4
  BY <1>1, PhaseAt, PhaseReturnsMoves
<1>3. Passed(1) /\ Passed(3)
  BY <1>2 DEF Passed
<1>4. ValidNodes /\ FirstServer /\ AllReady
  BY <1>3, ClusterParts DEF PassedFits
<1>5. ValidNodes' /\ FirstServer' /\ AllReady'
  BY <1>1, <1>4
     DEF FirstServer, AllReady, NoOthers, Listed, Nodes, ValidNodes, Servers
<1>6. Passed(4)' => merged' = TRUE
  <2>1. CASE merged' = TRUE
    BY <2>1
  <2>2. CASE PhaseReturns(TRUE)
    <3>1. phaseErr' = TRUE
      BY <2>2, PhaseReturnsMoves
    <3> QED BY <1>2, <3>1 DEF Passed
  <2> QED BY <1>1, <2>1, <2>2
<1>7. InstallFits'
  BY <1>2 DEF InstallFits
<1> QED BY <1>1, <1>5, <1>6, <1>7, ClusterParts, ClusterPartsNext, HostsQuiet DEF PassedFits

\* A cleanup says nothing of success any more.
LEMMA CleanupCluster ==
  ASSUME EngineBase, WorldTyped, ClusterFits,
         \/ CleanupNothing \/ CleanupConnect \/ BeginCleanupBootstrap
         \/ CleanupBootstrapNode \/ EndCleanupBootstrap
  PROVE  ClusterFits'
<1>1. at = "cleanup"
  BY DEF CleanupNothing, CleanupConnect, BeginCleanupBootstrap, CleanupBootstrapNode,
         EndCleanupBootstrap, CleaningUp
<1>2. UNCHANGED engine \/ CleanupPhase
  BY DEF CleanupNothing, CleanupConnect, BeginCleanupBootstrap, CleanupBootstrapNode,
         UninstallNode, EndCleanupBootstrap
<1>3. at' = "cleanup"
  BY <1>1, <1>2, CleanupPhaseMoves DEF engine
<1>4. InstallFits' /\ PassedFits'
  BY <1>3 DEF InstallFits, PassedFits, Passed
<1>5. UninstallNode \/ UNCHANGED <<software, ready, before, config>>
  BY DEF CleanupNothing, CleanupConnect, BeginCleanupBootstrap, CleanupBootstrapNode,
         EndCleanupBootstrap, world, setting, remote
<1>6. HostsFit'
  BY <1>5, ClusterParts, HostsQuiet, UninstallHosts
<1> QED BY <1>4, <1>6, ClusterPartsNext

LEMMA ClusterFitsNext ==
  EngineBase /\ WorldTyped /\ ReadyFits /\ ClusterFits /\ [Next]_vars => ClusterFits'
<1> SUFFICES ASSUME EngineBase, WorldTyped, ReadyFits, ClusterFits, [Next]_vars
             PROVE  ClusterFits'
  OBVIOUS
<1>1. CASE StartRun
  <2>1. at' = "context" /\ k' = 1 /\ ready' = {} /\ before' = software /\ software' = software
    BY <1>1 DEF StartRun, Execute
  <2>2. ~Passed(1)' /\ ~Passed(3)' /\ ~Passed(4)'
    BY <2>1 DEF Passed
  <2>3. HostsFit' /\ InstallFits' /\ PassedFits'
    BY <2>1, <2>2 DEF HostsFit, InstallFits, PassedFits
  <2> QED BY <2>3, ClusterPartsNext
<1>2. ASSUME UNCHANGED engine,
             UNCHANGED <<sub, pos, software, ready, before, config, merged>>
      PROVE  ClusterFits'
  <2>1. UNCHANGED <<at, k, phaseErr, outcome>>
    BY <1>2 DEF engine
  <2>2. InstallFits'
    BY <1>2, <2>1, ClusterParts DEF InstallFits, FirstServer, Nodes
  <2>3. \A p : Passed(p)' => Passed(p)
    BY <2>1 DEF Passed
  <2> QED BY <1>2, <2>2, <2>3, ClusterParts, ClusterPartsNext, HostsQuiet, PassedQuiet
<1>3. ASSUME NEW h \in Hosts, LoseConnection(h) PROVE ClusterFits'
  BY <1>2, <1>3 DEF LoseConnection, setting
<1>4. CASE UNCHANGED vars
  BY <1>2, <1>4 DEF vars, world
<1>5. JoinsDone => ClusterFits'
  BY BootstrapMovesCluster, BootstrapEndsCluster
<1> QED BY <1>1, <1>3, <1>4, <1>5, EngineOnlyCluster, StartPhaseCluster,
           FirstPhasesCluster, BootstrapMovesCluster, InstallNodeCluster,
           InstallFailsCluster, BecomesReadyCluster, BootstrapEndsCluster,
           RollbackCluster, FetchKubeconfigCluster, CleanupCluster
        DEF Next, Progress

\* No node is shown as Ready before the first install.
LEMMA ReadyFitsInit == Init => ReadyFits
BY DEF Init, EngineInit, ReadyFits, Early

LEMMA ReadyQuiet ==
  ASSUME ReadyFits, ready' = ready \/ ready' \subseteq ready, Early' => Early
  PROVE  ReadyFits'
BY DEF ReadyFits

LEMMA EarlyMoves ==
  ASSUME EngineBase, EngineOnly \/ StartPhase PROVE Early' => Early
<1>0. k \in 1 .. 5 /\ (at = "post" => k \in 1 .. 4)
  BY EngineNumbers
<1>1. CASE EngineOnly
  <2>0. sub' = sub
    BY <1>1 DEF EngineOnly, world
  <2>1. CASE UNCHANGED <<at, k, phaseErr, cleaning, outcome>>
    BY <2>0, <2>1 DEF Early
  <2>2. CASE at = "context" /\ at' = "pre" /\ k' = k
    BY <2>2 DEF Early
  <2>3. CASE at' = "cleanup" \/ at' = "idle"
    BY <2>3 DEF Early
  <2>4. CASE at = "post" /\ at' = "context" /\ k' = k + 1
    <3>1. ASSUME Early' PROVE k < 3
      <4>1. k + 1 < 3 \/ k + 1 = 3
        BY <2>4, <3>1 DEF Early
      <4> QED BY <1>0, <4>1
    <3> QED BY <2>4, <3>1 DEF Early
  <2> QED BY <1>1, <2>1, <2>2, <2>3, <2>4, EngineMoves
<1>2. CASE StartPhase
  <2>1. at = "pre" /\ at' = "run" /\ k' = k
    BY <1>2, BeginPhaseMoves DEF StartPhase
  <2> QED BY <2>1 DEF Early
<1> QED BY <1>1, <1>2

LEMMA ReadyFitsNext ==
  EngineBase /\ WorldTyped /\ ReadyFits /\ [Next]_vars => ReadyFits'
<1> SUFFICES ASSUME EngineBase, WorldTyped, ReadyFits, [Next]_vars PROVE ReadyFits'
  OBVIOUS
<1>1. CASE StartRun
  BY <1>1 DEF StartRun, ReadyFits
<1>2. CASE EngineOnly \/ StartPhase
  <2>1. ready' = ready
    BY <1>2 DEF EngineOnly, StartPhase, world, remote
  <2> QED BY <1>2, <2>1, EarlyMoves, ReadyQuiet
<1>3. CASE Validate \/ ConnectNode \/ ConnectFails \/ ConnectDone
  <2>1. at = "run" /\ k \in {1, 2} /\ ready' = ready
    BY <1>3, PhaseAt DEF Validate, ConnectNode, ConnectFails, ConnectDone, world, remote
  <2>2. Early
    BY <2>1 DEF Early
  <2> QED BY <2>1, <2>2, ReadyQuiet
<1>4. CASE BeginBootstrap
  <2>1. at = "run" /\ k = 3 /\ sub = "begin" /\ ready' = ready
    BY <1>4, PhaseAt DEF BeginBootstrap, remote
  <2>2. Early
    BY <2>1 DEF Early
  <2> QED BY <2>1, <2>2, ReadyQuiet
<1>5. ASSUME \/ InstallNode \/ InstallFails \/ FirstNodeReady \/ JoinsDone
             \/ AllNodesReady \/ WaitEnds \/ RollbackNode \/ RollbackDone
             \/ \E h \in Hosts : BecomesReady(h)
      PROVE  ReadyFits'
  <2>1. InPhase("bootstrap") /\ (UNCHANGED engine \/ \E err \in BOOLEAN : PhaseReturns(err))
    BY <1>5 DEF InstallNode, InstallFails, FirstNodeReady, JoinsDone, AllNodesReady,
                WaitEnds, RollbackNode, UninstallNode, RollbackDone, BecomesReady
  <2>2. /\ at = "run" /\ k = 3 /\ k' = 3
        /\ UNCHANGED engine => at' = "run"
        /\ ~UNCHANGED engine => at' = "post"
    <3>1. at = "run" /\ k = 3
      BY <2>1, PhaseAt
    <3>2. UNCHANGED engine => at' = "run" /\ k' = 3
      BY <3>1 DEF engine
    <3>3. ASSUME NEW err \in BOOLEAN, PhaseReturns(err) PROVE at' = "post" /\ k' = 3
      BY <3>1, <3>3, PhaseReturnsMoves
    <3> QED BY <2>1, <3>1, <3>2, <3>3
  <2>3. UNCHANGED engine => sub' \notin {"begin", "install"}
    BY <1>5 DEF InstallNode, InstallFails, FirstNodeReady, JoinsDone, AllNodesReady,
                WaitEnds, RollbackNode, UninstallNode, RollbackDone, BecomesReady, world
  <2>4. ~Early'
    BY <2>2, <2>3 DEF Early
  <2> QED BY <2>4 DEF ReadyFits
<1>6. CASE FetchKubeconfig
  <2>1. at' = "post" /\ k' = 4
    BY <1>6, PhaseAt, PhaseReturnsMoves DEF FetchKubeconfig
  <2> QED BY <2>1 DEF Early, ReadyFits
<1>7. CASE \/ CleanupNothing \/ CleanupConnect \/ BeginCleanupBootstrap
           \/ CleanupBootstrapNode \/ EndCleanupBootstrap
  <2>1. at = "cleanup" /\ (UNCHANGED engine \/ CleanupPhase)
    BY <1>7 DEF CleanupNothing, CleanupConnect, BeginCleanupBootstrap, CleaningUp,
                CleanupBootstrapNode, UninstallNode, EndCleanupBootstrap
  <2>2. at' = "cleanup"
    BY <2>1, CleanupPhaseMoves DEF engine
  <2> QED BY <2>2 DEF Early, ReadyFits
<1>8. ASSUME UNCHANGED <<engine, sub, ready>> PROVE ReadyFits'
  BY <1>8 DEF ReadyFits, Early, engine
<1>9. ASSUME NEW h \in Hosts, LoseConnection(h) PROVE ReadyFits'
  BY <1>8, <1>9 DEF LoseConnection
<1>10. CASE UNCHANGED vars
  BY <1>8, <1>10 DEF vars, world
<1> QED BY <1>1, <1>2, <1>3, <1>4, <1>5, <1>6, <1>7, <1>9, <1>10 DEF Next, Progress

-----------------------------------------------------------------------------
(* The theorems about `init'.                                              *)

LEMMA InitInvInit == Init => InitInv
BY InitIsEngineInit, EngineBaseInit, WorldTypedInit, SessionsFitInit, CleanFitInit,
   ReadyFitsInit, ClusterFitsInit DEF InitInv

LEMMA InitInvNext == InitInv /\ [Next]_vars => InitInv'
BY StepIsEngineStep, EngineBaseNext, WorldTypedNext, SessionsFitNext, CleanFitNext,
   ReadyFitsNext, ClusterFitsNext DEF InitInv

\* In every reachable state of `init' the executor's clients, what is installed on
\* the hosts and what the rollback and the cleanups have removed fit the place in
\* Execute and in the phase, for any configurations, hosts and hooks, any number
\* of runs and any number of faults.
THEOREM InitInvariant == Spec => []InitInv
BY InitInvInit, InitInvNext, PTL DEF Spec

LEMMA InvIsClean == InitInv => NothingLeftBehind
<1> SUFFICES ASSUME InitInv, Failed, touched PROVE
      \A i \in DOMAIN Nodes :
        Nodes[i].role \in software[Nodes[i].host] => <<Nodes[i].host, Nodes[i].role>> \in stuck
  BY DEF NothingLeftBehind
<1>1. Undone /\ touched = TRUE
  BY DEF Failed, Undone
<1>2. GoneBefore(Len(Nodes) + 1)
  BY <1>1 DEF InitInv, CleanFit
<1>3. \A i \in DOMAIN Nodes : i < Len(Nodes) + 1
  BY NodesTyped DEF InitInv
<1> QED BY <1>2, <1>3 DEF GoneBefore, Gone

\* A run of init that failed after the bootstrap phase had begun leaves software
\* only where an uninstall command failed on its host: BootstrapPhase.Run and
\* runCleanups between them reach every node before the connections are closed.
THEOREM InitCleansUp == Spec => []NothingLeftBehind
BY InitInvariant, InvIsClean, PTL

LEMMA OnceIsListedOnce ==
  ASSUME WorldTyped, NEW h \in Hosts,
         Cardinality({i \in DOMAIN Nodes : Nodes[i].host = h}) <= 1
  PROVE  ListedOnce(h)
<1> DEFINE S == {i \in DOMAIN Nodes : Nodes[i].host = h}
<1>1. IsFiniteSet(DOMAIN Nodes) /\ S \subseteq DOMAIN Nodes
  BY NodesTyped, NodesFinite
<1>2. SUFFICES ASSUME NEW i \in S, NEW j \in S, i # j PROVE FALSE
  BY DEF ListedOnce
<1>3. Cardinality(S) <= 1
  OBVIOUS
<1> HIDE DEF S
<1>4. IsFiniteSet(S) /\ Cardinality(S) \in Nat
  BY <1>1, FS_Subset, FS_CardinalityType
<1>5. IsFiniteSet({i}) /\ Cardinality({i}) = 1
  BY FS_Singleton
<1>6. IsFiniteSet({i} \cup {j}) /\ Cardinality({i} \cup {j}) = 2
  BY <1>2, <1>5, FS_AddElement
<1>7. Cardinality({i} \cup {j}) <= Cardinality(S)
  <2>1. {i} \cup {j} \subseteq S
    BY <1>2
  <2> QED BY <1>4, <2>1, FS_Subset
<1> QED BY <1>3, <1>4, <1>6, <1>7

LEMMA InvIsClosed == InitInv => ConnectionsClosed
<1> SUFFICES ASSUME InitInv, Failed, NEW h \in Hosts,
                    Cardinality({i \in DOMAIN Nodes : Nodes[i].host = h}) <= 1
             PROVE  open[h] = 0
  BY DEF ConnectionsClosed
<1>1. Disconnected
  BY DEF Failed, Failures, Disconnected, Connecting, Connected
<1>2. clients = {} /\ (ListedOnce(h) => open[h] = IF h \in clients THEN 1 ELSE 0)
  BY <1>1 DEF InitInv, SessionsFit
<1>3. ListedOnce(h)
  BY OnceIsListedOnce DEF InitInv
<1> QED BY <1>2, <1>3

\* A run of init that failed has closed every connection to a host that its
\* configuration lists once, whether connect failed half way or its cleanup ran.
THEOREM InitDisconnects == Spec => []ConnectionsClosed
BY InitInvariant, InvIsClosed, PTL

LEMMA ValidIsOdd ==
  ASSUME WorldTyped, ValidNodes PROVE Cardinality(Servers) % 2 = 1
<1>1. IsFiniteSet(DOMAIN Nodes) /\ Servers \subseteq DOMAIN Nodes
  BY NodesTyped, NodesFinite DEF Servers
<1>2. IsFiniteSet(Servers) /\ Cardinality(Servers) \in Nat
  BY <1>1, FS_Subset, FS_CardinalityType
<1>3. Cardinality(Servers) # 0
  BY <1>2, FS_EmptySet DEF ValidNodes
<1>4. Cardinality(Servers) = 1 \/ Cardinality(Servers) > 1
  BY <1>2, <1>3
<1> QED BY <1>4 DEF ValidNodes

LEMMA InvIsSuccess == InitInv => SuccessMeansCluster
<1> SUFFICES ASSUME InitInv, at = "idle", outcome = "success" PROVE SuccessMeansCluster
  BY DEF SuccessMeansCluster
<1>1. Passed(1) /\ Passed(3) /\ Passed(4)
  BY DEF Passed
<1>2. /\ WorldTyped /\ ValidNodes /\ merged /\ HostsFit
      /\ FirstServer /\ AllReady
  BY <1>1 DEF InitInv, ClusterFits, PassedFits
<1>3. Cardinality(Servers) % 2 = 1
  BY <1>2, ValidIsOdd
<1>4. ASSUME \A h \in Hosts : before[h] # {} => Roles(h) # {}
      PROVE  /\ \A i, j \in DOMAIN Nodes : Nodes[i].host = Nodes[j].host => i = j
             /\ \A i \in DOMAIN Nodes : Nodes[i].host \in ready
  BY <1>2, <1>4, RolesListed DEF AllReady, NoOthers, Listed
<1>5. ASSUME \A h \in Hosts : before[h] \subseteq Roles(h), NEW i \in DOMAIN Nodes
      PROVE  Nodes[i].role \in software[Nodes[i].host]
  <2> DEFINE h == Nodes[i].host
  <2>1. \A g \in Hosts : before[g] # {} => Roles(g) # {}
    BY <1>5
  <2>2. /\ \A j \in DOMAIN Nodes : Nodes[j].host = h => j = i
        /\ h \in ready /\ h \in Hosts
    BY <1>2, <1>4, <2>1, NodesTyped
  <2>3. Roles(h) = {Nodes[i].role}
    BY <2>2 DEF Roles
  <2>4. software[h] # {} /\ software[h] \subseteq before[h] \cup Roles(h)
    BY <1>2, <2>2 DEF HostsFit
  <2>5. before[h] \subseteq Roles(h)
    BY <1>5, <2>2
  <2> HIDE DEF h
  <2>6. Nodes[i].role \in software[h]
    BY <2>3, <2>4, <2>5
  <2> QED BY <2>6 DEF h
<1> QED BY <1>2, <1>3, <1>4, <1>5 DEF SuccessMeansCluster, FirstServer

\* init reports success only with a control plane that can hold a quorum, the
\* server of the first node installed and the kubeconfig merged.  An installer may
\* have exited with 0 and done nothing: if only hosts of the configuration had been
\* set up before, and for what it gives them, the count of Ready nodes still shows
\* that every node is Ready and has its software, and no host is listed twice.
THEOREM InitSucceeds == Spec => []SuccessMeansCluster
BY InitInvariant, InvIsSuccess, PTL

\* With the phases of init, whose steps are steps of the engine or leave it as it
\* is, every hook is called for every phase it applies to.
THEOREM InitHooks == Spec => []HooksSeeEveryPhase
BY InitIsPipeline, PipelineHooks, PTL

\* And the phases of init that completed are cleaned up in reverse order.
THEOREM InitCleanups == Spec => []CleanupsUndoCompletedPhases
BY InitIsPipeline, PipelineCleanups, PTL
====

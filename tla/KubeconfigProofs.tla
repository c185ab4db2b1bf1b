-------------------------- MODULE KubeconfigProofs --------------------------
(***************************************************************************)
(* Proofs about Kubeconfig, for any inits, clusters and hosts, any file    *)
(* the user has, and any number of merges and writes that are cut short.   *)
(***************************************************************************)
EXTENDS Kubeconfig, WellFoundedInduction, TLAPS

-----------------------------------------------------------------------------
(* The first entry of a name, and what Upsert does to a list.              *)

\* A set of positions that is not empty has a first.
LEMMA FirstPosition ==
  ASSUME NEW S \in SUBSET Nat, S # {}
  PROVE  \E j \in S : \A m \in S : j <= m
<1> DEFINE R == {ss \in Nat \X Nat : ss[1] < ss[2]}
<1>1. IsWellFoundedOn(R, Nat)
  BY ONLY NatLessThanWellFounded, Zenon DEF OpToRel
<1>2. PICK j \in S : \A m \in S : <<m, j>> \notin R
  <2> HIDE DEF R
  <2> QED BY <1>1, WFMin
<1>3. ASSUME NEW m \in S PROVE j <= m
  <2>1. ~(m < j)
    <3>1. <<m, j>> \notin R
      BY <1>2
    <3> QED BY <3>1
  <2> QED BY <2>1
<1> QED BY <1>3

\* FirstAt is the position at which the loop of Merge finds a name.
LEMMA FirstAtFacts ==
  ASSUME NEW E, NEW list \in Seq(E), NEW name, Positions(list, name) # {}
  PROVE  /\ FirstAt(list, name) \in Positions(list, name)
         /\ \A m \in Positions(list, name) : FirstAt(list, name) <= m
<1>1. Positions(list, name) \in SUBSET Nat
  BY DEF Positions
<1> QED BY <1>1, FirstPosition, Zenon DEF FirstAt

\* The list F is list with the entry e, first of its name, in a place of its own
\* or in that of the first of its name, and with everything else as before.
HasNow(F, list, e) ==
  /\ Len(F) \in {Len(list), Len(list) + 1}
  /\ \A j \in DOMAIN list :
       /\ j \in DOMAIN F
       /\ list[j].name # e.name => F[j] = list[j]
  /\ \A j \in DOMAIN F : F[j] = e \/ (j \in DOMAIN list /\ F[j] = list[j])
  /\ Named(F) = Named(list) \cup {e.name}
  /\ First(F, e.name) = e
  /\ \A name : name # e.name /\ name \in Named(list) => First(F, name) = First(list, name)

\* That is what Upsert makes of a list.
LEMMA UpsertFacts ==
  ASSUME NEW E, NEW list \in Seq(E), NEW e \in E
  PROVE  Upsert(list, e) \in Seq(E) /\ HasNow(Upsert(list, e), list, e)
<1> DEFINE F == Upsert(list, e)
<1>0. \A name : name \in Named(list) <=> Positions(list, name) # {}
  BY DEF Named, Positions
<1>1. CASE Positions(list, e.name) = {}
  <2>1. F = Append(list, e)
    BY <1>1 DEF Upsert
  <2>2. /\ F \in Seq(E) /\ Len(F) = Len(list) + 1
        /\ DOMAIN list = 1 .. Len(list) /\ DOMAIN F = 1 .. Len(list) + 1
        /\ Len(list) \in Nat
        /\ \A j \in 1 .. Len(list) : F[j] = list[j]
        /\ F[Len(list) + 1] = e
    BY <2>1
  <2> HIDE DEF F
  <2>3. Named(F) = Named(list) \cup {e.name}
    <3>1. Named(F) \subseteq Named(list) \cup {e.name}
      BY <2>2 DEF Named
    <3>2. Named(list) \subseteq Named(F)
      BY <2>2 DEF Named
    <3>3. e.name \in Named(F)
      BY <2>2 DEF Named
    <3> QED BY <3>1, <3>2, <3>3
  <2>4. Positions(F, e.name) = {Len(list) + 1}
    BY <2>2, <1>1 DEF Positions
  <2>5. First(F, e.name) = e
    <3>1. FirstAt(F, e.name) = Len(list) + 1
      BY <2>2, <2>4, FirstAtFacts
    <3> QED BY <3>1, <2>2 DEF First
  <2>6. ASSUME NEW name, name # e.name, name \in Named(list)
        PROVE  First(F, name) = First(list, name)
    <3>1. Positions(F, name) = Positions(list, name)
      BY <2>2, <2>6 DEF Positions
    <3>2. FirstAt(F, name) = FirstAt(list, name)
      BY <3>1 DEF FirstAt
    <3>3. FirstAt(list, name) \in 1 .. Len(list)
      BY <2>2, <2>6, <1>0, FirstAtFacts DEF Positions
    <3> QED BY <3>2, <3>3, <2>2 DEF First
  <2>7. \A j \in DOMAIN list :
          /\ j \in DOMAIN F
          /\ list[j].name # e.name => F[j] = list[j]
    BY <2>2
  <2>8. \A j \in DOMAIN F : F[j] = e \/ (j \in DOMAIN list /\ F[j] = list[j])
    BY <2>2
  <2> QED BY <2>2, <2>3, <2>5, <2>6, <2>7, <2>8 DEF F, HasNow
<1>2. CASE Positions(list, e.name) # {}
  <2> DEFINE k == FirstAt(list, e.name)
  <2>1. F = [list EXCEPT ![k] = e]
    BY <1>2 DEF Upsert
  <2>2. k \in Positions(list, e.name)
    BY <1>2, FirstAtFacts
  <2>3. k \in DOMAIN list /\ list[k].name = e.name
    BY <2>2 DEF Positions
  <2> HIDE DEF k
  <2>4. /\ F \in Seq(E) /\ Len(F) = Len(list)
        /\ DOMAIN F = DOMAIN list
        /\ F[k] = e
        /\ \A j \in DOMAIN list : j # k => F[j] = list[j]
    BY <2>1, <2>3
  <2> HIDE DEF F
  <2>5. Named(F) = Named(list) \cup {e.name}
    <3>1. \A j \in DOMAIN list : F[j].name = list[j].name
      BY <2>3, <2>4
    <3>2. Named(F) = Named(list)
      BY <2>4, <3>1 DEF Named
    <3>3. e.name \in Named(list)
      BY <2>3 DEF Named
    <3> QED BY <3>2, <3>3
  <2>6. \A name : Positions(F, name) = Positions(list, name)
    <3>1. \A j \in DOMAIN list : F[j].name = list[j].name
      BY <2>3, <2>4
    <3> QED BY <2>4, <3>1 DEF Positions
  <2>7. \A name : FirstAt(F, name) = FirstAt(list, name)
    BY <2>6 DEF FirstAt
  <2>8. First(F, e.name) = e
    BY <2>7, <2>4 DEF First, k
  <2>9. ASSUME NEW name, name # e.name, name \in Named(list)
        PROVE  First(F, name) = First(list, name)
    <3>1. /\ FirstAt(list, name) \in DOMAIN list
          /\ list[FirstAt(list, name)].name = name
      BY <2>9, <1>0, FirstAtFacts DEF Positions
    <3>2. FirstAt(list, name) # k
      BY <3>1, <2>3, <2>9
    <3> QED BY <3>1, <3>2, <2>4, <2>7 DEF First
  <2>10. \A j \in DOMAIN list :
          /\ j \in DOMAIN F
          /\ list[j].name # e.name => F[j] = list[j]
    BY <2>3, <2>4
  <2>11. \A j \in DOMAIN F : F[j] = e \/ (j \in DOMAIN list /\ F[j] = list[j])
    BY <2>4
  <2> QED BY <2>4, <2>5, <2>8, <2>9, <2>10, <2>11 DEF F, HasNow
<1> QED BY <1>1, <1>2

\* A loop over one entry upserts it.
LEMMA UpsertedOne ==
  ASSUME NEW list, NEW e
  PROVE  Upserted(list, <<e>>) = Upsert(list, e)
<1> DEFINE Body(g, n) == IF n = 0 THEN list ELSE Upsert(g[n - 1], <<e>>[n])
           f == CHOOSE g : g = [n \in 0 .. Len(<<e>>) |-> Body(g, n)]
           h == [n \in 0 .. 1 |-> IF n = 0 THEN list ELSE Upsert(list, e)]
<1>1. Upserted(list, <<e>>) = f[1]
  BY DEF Upserted
<1>2. h = [n \in 0 .. Len(<<e>>) |-> Body(h, n)]
  <2>1. 0 .. Len(<<e>>) = 0 .. 1
    OBVIOUS
  <2>2. h[0] = list /\ h[1] = Upsert(list, e)
    OBVIOUS
  <2>3. \A n \in 0 .. 1 : n = 0 \/ n = 1
    OBVIOUS
  <2>4. \A n \in 0 .. 1 : h[n] = Body(h, n)
    <3>1. Body(h, 0) = list
      OBVIOUS
    <3>2. Body(h, 1) = Upsert(h[0], e)
      OBVIOUS
    <3> QED BY <2>2, <2>3, <3>1, <3>2
  <2>5. h = [n \in 0 .. 1 |-> h[n]]
    OBVIOUS
  <2> HIDE DEF h, Body
  <2> QED BY <2>1, <2>4, <2>5
<1>3. f = [n \in 0 .. Len(<<e>>) |-> Body(f, n)]
  <2> HIDE DEF h, Body
  <2> QED BY <1>2
<1>4. f[0] = list
  <2>1. f[0] = Body(f, 0)
    <3> HIDE DEF f, Body
    <3> QED BY <1>3
  <2> HIDE DEF f
  <2> QED BY <2>1
<1>5. f[1] = Upsert(f[0], e)
  <2>1. f[1] = Body(f, 1)
    <3> HIDE DEF f, Body
    <3> QED BY <1>3
  <2> HIDE DEF f
  <2> QED BY <2>1
<1> QED BY <1>1, <1>4, <1>5

-----------------------------------------------------------------------------
(* The configurations.                                                     *)

LEMMA RecordConfigs ==
  ASSUME NEW cfg \in Configs
  PROVE  /\ cfg = [clusters |-> cfg.clusters, contexts |-> cfg.contexts,
                   users |-> cfg.users, current |-> cfg.current]
         /\ cfg.clusters \in Seq(Clusters) /\ cfg.contexts \in Seq(Contexts)
         /\ cfg.users \in Seq(Users) /\ cfg.current \in Names \cup {None}
BY DEF Configs

\* The cluster of a promise can be used through the context of its name, all
\* of whose parts have the names that RewriteServer gives them.
Serves(cfg, m) ==
  LET name == NameOf(m[1], "")
      user == NameOf(m[1], "-admin")
  IN /\ name \in Named(cfg.contexts)
     /\ name \in Named(cfg.clusters)
     /\ user \in Named(cfg.users)
     /\ First(cfg.contexts, name).cluster = name
     /\ First(cfg.contexts, name).user = user
     /\ First(cfg.clusters, name).server = m[2]
     /\ First(cfg.users, user).cred = m[3]

\* What Parse does to a list: the entries keep their names.
Known(list) == [j \in DOMAIN list |-> [list[j] EXCEPT !.extra = FALSE]]

LEMMA KnownFields ==
  ASSUME NEW E, E \in {Clusters, Contexts, Users}, NEW list \in Seq(E)
  PROVE  /\ Known(list) \in Seq(E) /\ DOMAIN Known(list) = DOMAIN list
         /\ Len(Known(list)) = Len(list)
         /\ \A j \in DOMAIN list :
              /\ list[j] \in E
              /\ Known(list)[j] = [list[j] EXCEPT !.extra = FALSE]
              /\ Known(list)[j].name = list[j].name
         /\ Named(Known(list)) = Named(list)
         /\ \A name : FirstAt(Known(list), name) = FirstAt(list, name)
         /\ \A name \in Named(list) : FirstAt(list, name) \in DOMAIN list
<1> DEFINE known == Known(list)
<1>1. \A x \in E : [x EXCEPT !.extra = FALSE] \in E
                  /\ [x EXCEPT !.extra = FALSE].name = x.name
  <2>1. CASE E = Clusters
    BY <2>1 DEF Clusters
  <2>2. CASE E = Contexts
    BY <2>2 DEF Contexts
  <2>3. CASE E = Users
    BY <2>3 DEF Users
  <2> QED BY <2>1, <2>2, <2>3
<1>2. /\ DOMAIN list = 1 .. Len(list) /\ Len(list) \in Nat
      /\ \A j \in DOMAIN list : list[j] \in E
  OBVIOUS
<1>3. /\ known \in Seq(E) /\ Len(known) = Len(list) /\ DOMAIN known = DOMAIN list
  BY <1>1, <1>2 DEF Known
<1>4. \A j \in DOMAIN list : known[j] = [list[j] EXCEPT !.extra = FALSE]
  BY DEF Known
<1> HIDE DEF known
<1>5. \A j \in DOMAIN list : known[j].name = list[j].name
  BY <1>1, <1>2, <1>4
<1>6. Named(known) = Named(list)
  BY <1>3, <1>5 DEF Named
<1>7. \A name : Positions(known, name) = Positions(list, name)
  BY <1>3, <1>5 DEF Positions
<1>8. \A name : FirstAt(known, name) = FirstAt(list, name)
  BY <1>7 DEF FirstAt
<1>9. ASSUME NEW name \in Named(list) PROVE FirstAt(list, name) \in DOMAIN list
  <2>1. Positions(list, name) # {}
    BY DEF Named, Positions
  <2> QED BY <2>1, FirstAtFacts DEF Positions
<1> QED BY <1>2, <1>3, <1>4, <1>5, <1>6, <1>8, <1>9 DEF known

\* Reading a file keeps what it serves, and whether it resolves.
LEMMA ParseFacts ==
  ASSUME NEW cfg \in Configs
  PROVE  /\ Parse(cfg) \in Configs
         /\ \A m : Serves(cfg, m) => Serves(Parse(cfg), m)
         /\ Resolves(cfg) => Resolves(Parse(cfg))
<1> DEFINE cl == Known(cfg.clusters)
           co == Known(cfg.contexts)
           us == Known(cfg.users)
<1>1. Parse(cfg) = [clusters |-> cl, contexts |-> co, users |-> us, current |-> cfg.current]
  BY DEF Parse, Known
<1>2. /\ cl \in Seq(Clusters) /\ DOMAIN cl = DOMAIN cfg.clusters
      /\ \A j \in DOMAIN cfg.clusters :
           /\ cfg.clusters[j] \in Clusters
           /\ cl[j] = [cfg.clusters[j] EXCEPT !.extra = FALSE]
      /\ Named(cl) = Named(cfg.clusters)
      /\ \A name : FirstAt(cl, name) = FirstAt(cfg.clusters, name)
      /\ \A name \in Named(cfg.clusters) :
           FirstAt(cfg.clusters, name) \in DOMAIN cfg.clusters
  BY RecordConfigs, KnownFields
<1>3. /\ co \in Seq(Contexts) /\ DOMAIN co = DOMAIN cfg.contexts
      /\ \A j \in DOMAIN cfg.contexts :
           /\ cfg.contexts[j] \in Contexts
           /\ co[j] = [cfg.contexts[j] EXCEPT !.extra = FALSE]
      /\ Named(co) = Named(cfg.contexts)
      /\ \A name : FirstAt(co, name) = FirstAt(cfg.contexts, name)
      /\ \A name \in Named(cfg.contexts) :
           FirstAt(cfg.contexts, name) \in DOMAIN cfg.contexts
  BY RecordConfigs, KnownFields
<1>4. /\ us \in Seq(Users) /\ DOMAIN us = DOMAIN cfg.users
      /\ \A j \in DOMAIN cfg.users :
           /\ cfg.users[j] \in Users
           /\ us[j] = [cfg.users[j] EXCEPT !.extra = FALSE]
      /\ Named(us) = Named(cfg.users)
      /\ \A name : FirstAt(us, name) = FirstAt(cfg.users, name)
      /\ \A name \in Named(cfg.users) :
           FirstAt(cfg.users, name) \in DOMAIN cfg.users
  BY RecordConfigs, KnownFields
<1> HIDE DEF cl, co, us
<1>5. \A j \in DOMAIN cfg.clusters : cl[j].server = cfg.clusters[j].server
  BY <1>2 DEF Clusters
<1>6. \A j \in DOMAIN cfg.contexts :
        /\ co[j].name = cfg.contexts[j].name
        /\ co[j].cluster = cfg.contexts[j].cluster
        /\ co[j].user = cfg.contexts[j].user
  BY <1>3 DEF Contexts
<1>7. \A j \in DOMAIN cfg.users : us[j].cred = cfg.users[j].cred
  BY <1>4 DEF Users
<1>8. Parse(cfg) \in Configs
  BY <1>1, <1>2, <1>3, <1>4, RecordConfigs DEF Configs
<1>9. ASSUME NEW m, Serves(cfg, m) PROVE Serves(Parse(cfg), m)
  <2> DEFINE name == NameOf(m[1], "")
             user == NameOf(m[1], "-admin")
  <2>1. /\ name \in Named(cfg.contexts) /\ name \in Named(cfg.clusters)
        /\ user \in Named(cfg.users)
        /\ First(cfg.contexts, name).cluster = name
        /\ First(cfg.contexts, name).user = user
        /\ First(cfg.clusters, name).server = m[2]
        /\ First(cfg.users, user).cred = m[3]
    BY <1>9 DEF Serves
  <2> HIDE DEF name, user
  <2>2. First(co, name).cluster = name /\ First(co, name).user = user
    BY <2>1, <1>3, <1>6 DEF First
  <2>3. First(cl, name).server = m[2]
    BY <2>1, <1>2, <1>5 DEF First
  <2>4. First(us, user).cred = m[3]
    BY <2>1, <1>4, <1>7 DEF First
  <2>5. name \in Named(co) /\ name \in Named(cl) /\ user \in Named(us)
    BY <2>1, <1>2, <1>3, <1>4
  <2>6. /\ Parse(cfg).contexts = co /\ Parse(cfg).clusters = cl /\ Parse(cfg).users = us
    BY <1>1
  <2> QED BY <2>2, <2>3, <2>4, <2>5, <2>6 DEF Serves, name, user
<1>10. ASSUME Resolves(cfg) PROVE Resolves(Parse(cfg))
  <2>1. \A j \in DOMAIN co : co[j].cluster \in Named(cl) /\ co[j].user \in Named(us)
    BY <1>10, <1>2, <1>3, <1>4, <1>6 DEF Resolves
  <2>2. cfg.current \in Named(co) \cup {None}
    BY <1>10, <1>3 DEF Resolves
  <2> QED BY <2>1, <2>2, <1>1 DEF Resolves
<1> QED BY <1>8, <1>9, <1>10

\* What init merges: one entry of each kind, under the names of its cluster, and
\* the address s at which the cluster is served.
OwnCluster(c, s)  == [name |-> NameOf(c, ""), server |-> s, extra |-> FALSE]
OwnContext(c)     == [name |-> NameOf(c, ""), cluster |-> NameOf(c, ""),
                      user |-> NameOf(c, "-admin"), extra |-> FALSE]
OwnUser(c, cred)  == [name |-> NameOf(c, "-admin"), cred |-> cred, extra |-> FALSE]

Own(c, s, cred) ==
  [clusters |-> <<OwnCluster(c, s)>>, contexts |-> <<OwnContext(c)>>,
   users |-> <<OwnUser(c, cred)>>, current |-> NameOf(c, "")]

\* Lists of one entry.
LEMMA OneEntry ==
  ASSUME NEW e
  PROVE  /\ DOMAIN <<e>> = {1} /\ <<e>>[1] = e
         /\ \A x : [j \in {1} |-> x] = <<x>>
<1>1. DOMAIN <<e>> = {1} /\ <<e>>[1] = e
  OBVIOUS
<1>2. ASSUME NEW x PROVE [j \in {1} |-> x] = <<x>>
  <2>1. <<x>> = [j \in DOMAIN <<x>> |-> <<x>>[j]]
    OBVIOUS
  <2>2. DOMAIN <<x>> = {1} /\ <<x>>[1] = x
    OBVIOUS
  <2>3. [j \in {1} |-> <<x>>[j]] = [j \in {1} |-> x]
    BY <2>2
  <2> QED BY <2>1, <2>2, <2>3
<1> QED BY <1>1, <1>2

\* What a cluster calls its server and its credential is rewritten to that.
LEMMA RewrittenIsOwn ==
  ASSUME NEW c \in ClusterNames, NEW h \in Hosts, NEW cred \in Nat,
         NEW own \in {Local} \cup Addresses
  PROVE  RewriteServer(Parse(RemoteConfig(own, cred)), h, c) =
           Own(c, IF own = Local THEN h ELSE own, cred)
<1> DEFINE cfg == RemoteConfig(own, cred)
           parsed == Parse(cfg)
           s == IF own = Local THEN h ELSE own
<1> DEFINE name == NameOf("default", "")
           rcl == [name |-> name, server |-> own, extra |-> FALSE]
           rco == [name |-> name, cluster |-> name, user |-> name, extra |-> FALSE]
           rus == [name |-> name, cred |-> cred, extra |-> FALSE]
<1>2. cfg.clusters = <<rcl>> /\ cfg.contexts = <<rco>> /\ cfg.users = <<rus>>
  BY DEF RemoteConfig
<1>3. parsed.clusters = <<rcl>> /\ parsed.contexts = <<rco>> /\ parsed.users = <<rus>>
  <2>1. /\ [rcl EXCEPT !.extra = FALSE] = rcl
        /\ [rco EXCEPT !.extra = FALSE] = rco
        /\ [rus EXCEPT !.extra = FALSE] = rus
    <3> DEFINE ycl == [rcl EXCEPT !.extra = FALSE]
               yco == [rco EXCEPT !.extra = FALSE]
               yus == [rus EXCEPT !.extra = FALSE]
    <3>1. ycl \in [name : {name}, server : {own}, extra : BOOLEAN] /\ ycl.extra = FALSE
      OBVIOUS
    <3>2. /\ yco \in [name : {name}, cluster : {name}, user : {name}, extra : BOOLEAN]
          /\ yco.extra = FALSE
      OBVIOUS
    <3>3. yus \in [name : {name}, cred : {cred}, extra : BOOLEAN] /\ yus.extra = FALSE
      OBVIOUS
    <3> HIDE DEF ycl, yco, yus, name
    <3>4. ycl = rcl
      BY <3>1
    <3>5. yco = rco
      BY <3>2
    <3>6. yus = rus
      BY <3>3
    <3> QED BY <3>4, <3>5, <3>6 DEF ycl, yco, yus
  <2>2. /\ parsed.clusters = Known(cfg.clusters)
        /\ parsed.contexts = Known(cfg.contexts)
        /\ parsed.users = Known(cfg.users)
    BY DEF Parse, Known
  <2> HIDE DEF rcl, rco, rus, cfg, parsed
  <2>3. /\ Known(<<rcl>>) = <<rcl>>
        /\ Known(<<rco>>) = <<rco>>
        /\ Known(<<rus>>) = <<rus>>
    <3>1. ASSUME NEW e, [e EXCEPT !.extra = FALSE] = e
          PROVE  Known(<<e>>) = <<e>>
      <4>1. Known(<<e>>) = [j \in {1} |-> [<<e>>[j] EXCEPT !.extra = FALSE]]
        BY OneEntry DEF Known
      <4>2. [j \in {1} |-> [<<e>>[j] EXCEPT !.extra = FALSE]] = [j \in {1} |-> e]
        BY <3>1, OneEntry
      <4> QED BY <4>1, <4>2, OneEntry
    <3> QED BY <2>1, <3>1
  <2> QED BY <1>2, <2>2, <2>3
<1> HIDE DEF cfg, parsed
<1>4. [j \in DOMAIN parsed.clusters |->
        [parsed.clusters[j] EXCEPT !.name = NameOf(c, ""),
                                   !.server = IF @ = Local THEN h ELSE @]]
      = <<OwnCluster(c, s)>>
  <2>1. [rcl EXCEPT !.name = NameOf(c, ""), !.server = IF @ = Local THEN h ELSE @]
          = OwnCluster(c, s)
    <3> DEFINE y == [rcl EXCEPT !.name = NameOf(c, ""), !.server = IF @ = Local THEN h ELSE @]
    <3>1. y \in [name : {NameOf(c, "")}, server : {s}, extra : BOOLEAN] /\ y.extra = FALSE
      OBVIOUS
    <3> HIDE DEF y
    <3>2. y = OwnCluster(c, s)
      BY <3>1 DEF OwnCluster
    <3> QED BY <3>2 DEF y
  <2> HIDE DEF rcl
  <2>2. DOMAIN parsed.clusters = {1} /\ parsed.clusters[1] = rcl
    BY <1>3, OneEntry
  <2>3. \A j \in {1} :
          [parsed.clusters[j] EXCEPT !.name = NameOf(c, ""),
                                     !.server = IF @ = Local THEN h ELSE @]
            = OwnCluster(c, s)
    BY <2>1, <2>2
  <2> QED BY <2>2, <2>3, OneEntry
<1>5. [j \in DOMAIN parsed.contexts |->
        [parsed.contexts[j] EXCEPT !.name = NameOf(c, ""), !.cluster = NameOf(c, ""),
                                   !.user = NameOf(c, "-admin")]]
      = <<OwnContext(c)>>
  <2>1. [rco EXCEPT !.name = NameOf(c, ""), !.cluster = NameOf(c, ""),
                    !.user = NameOf(c, "-admin")]
          = OwnContext(c)
    <3> DEFINE y == [rco EXCEPT !.name = NameOf(c, ""), !.cluster = NameOf(c, ""),
                              !.user = NameOf(c, "-admin")]
    <3>1. y \in [name : {NameOf(c, "")}, cluster : {NameOf(c, "")},
                 user : {NameOf(c, "-admin")}, extra : BOOLEAN] /\ y.extra = FALSE
      OBVIOUS
    <3> HIDE DEF y
    <3>2. y = OwnContext(c)
      BY <3>1 DEF OwnContext
    <3> QED BY <3>2 DEF y
  <2> HIDE DEF rco
  <2>2. DOMAIN parsed.contexts = {1} /\ parsed.contexts[1] = rco
    BY <1>3, OneEntry
  <2>3. \A j \in {1} :
          [parsed.contexts[j] EXCEPT !.name = NameOf(c, ""), !.cluster = NameOf(c, ""),
                                     !.user = NameOf(c, "-admin")]
            = OwnContext(c)
    BY <2>1, <2>2
  <2> QED BY <2>2, <2>3, OneEntry
<1>6. [j \in DOMAIN parsed.users |-> [parsed.users[j] EXCEPT !.name = NameOf(c, "-admin")]]
      = <<OwnUser(c, cred)>>
  <2>1. [rus EXCEPT !.name = NameOf(c, "-admin")] = OwnUser(c, cred)
    <3> DEFINE y == [rus EXCEPT !.name = NameOf(c, "-admin")]
    <3>1. y \in [name : {NameOf(c, "-admin")}, cred : {cred}, extra : BOOLEAN] /\ y.extra = FALSE
      OBVIOUS
    <3> HIDE DEF y
    <3>2. y = OwnUser(c, cred)
      BY <3>1 DEF OwnUser
    <3> QED BY <3>2 DEF y
  <2> HIDE DEF rus
  <2>2. DOMAIN parsed.users = {1} /\ parsed.users[1] = rus
    BY <1>3, OneEntry
  <2>3. \A j \in {1} :
          [parsed.users[j] EXCEPT !.name = NameOf(c, "-admin")] = OwnUser(c, cred)
    BY <2>1, <2>2
  <2> QED BY <2>2, <2>3, OneEntry
<1>7. RewriteServer(parsed, h, c) =
        [clusters |-> <<OwnCluster(c, s)>>, contexts |-> <<OwnContext(c)>>,
         users |-> <<OwnUser(c, cred)>>, current |-> NameOf(c, "")]
  BY <1>4, <1>5, <1>6, Zenon DEF RewriteServer
<1> QED BY <1>7 DEF Own, parsed, cfg

LEMMA OwnIs ==
  ASSUME NEW c \in ClusterNames, NEW s \in Servers, NEW cred \in Nat
  PROVE  /\ Own(c, s, cred) =
              [clusters |-> <<OwnCluster(c, s)>>, contexts |-> <<OwnContext(c)>>,
               users |-> <<OwnUser(c, cred)>>, current |-> NameOf(c, "")]
         /\ Own(c, s, cred).clusters = <<OwnCluster(c, s)>>
         /\ Own(c, s, cred).contexts = <<OwnContext(c)>>
         /\ Own(c, s, cred).users = <<OwnUser(c, cred)>>
         /\ Own(c, s, cred).current = NameOf(c, "")
         /\ OwnCluster(c, s) \in Clusters
         /\ OwnContext(c) \in Contexts
         /\ OwnUser(c, cred) \in Users
<1>1. NameOf(c, "") \in Names /\ NameOf(c, "-admin") \in Names
  BY NamesAssumption DEF Names, NameOf
<1>2. OwnCluster(c, s) \in Clusters /\ OwnContext(c) \in Contexts /\ OwnUser(c, cred) \in Users
  BY <1>1, HostsAssumption
  DEF Servers, OwnCluster, OwnContext, OwnUser, Clusters, Contexts, Users
<1> DEFINE own == Own(c, s, cred)
<1>3. own = [clusters |-> <<OwnCluster(c, s)>>, contexts |-> <<OwnContext(c)>>,
             users |-> <<OwnUser(c, cred)>>, current |-> NameOf(c, "")]
  BY DEF Own
<1> HIDE DEF own
<1>4. /\ own.clusters = <<OwnCluster(c, s)>> /\ own.contexts = <<OwnContext(c)>>
      /\ own.users = <<OwnUser(c, cred)>> /\ own.current = NameOf(c, "")
  BY <1>3
<1> QED BY <1>2, <1>3, <1>4 DEF own

\* What a merge keeps of the entries it has read.
Keeps(new, base, c) ==
  \A f \in {"clusters", "contexts", "users"} :
    /\ Len(new[f]) <= Len(base[f]) + 1
    /\ \A j \in DOMAIN base[f] : base[f][j].name[1] # c => new[f][j] = base[f][j]

\* A merge serves its own cluster and whatever it read of others, resolves if
\* what it read did, and keeps the entries of others.
LEMMA MergeFacts ==
  ASSUME NEW old \in Configs,
         NEW c \in ClusterNames, NEW h \in Servers, NEW cred \in Nat
  PROVE  /\ MergeConfigs(old, Own(c, h, cred)) \in Configs
         /\ Serves(MergeConfigs(old, Own(c, h, cred)), <<c, h, cred>>)
         /\ \A m : m[1] # c /\ Serves(old, m) =>
              Serves(MergeConfigs(old, Own(c, h, cred)), m)
         /\ Resolves(old) => Resolves(MergeConfigs(old, Own(c, h, cred)))
         /\ Keeps(MergeConfigs(old, Own(c, h, cred)), old, c)
<1> DEFINE new == MergeConfigs(old, Own(c, h, cred))
           ecl == OwnCluster(c, h)
           eco == OwnContext(c)
           eus == OwnUser(c, cred)
           cl == Upsert(old.clusters, ecl)
           co == Upsert(old.contexts, eco)
           us == Upsert(old.users, eus)
           name == NameOf(c, "")
           user == NameOf(c, "-admin")
<1>1. /\ ecl \in Clusters /\ eco \in Contexts /\ eus \in Users
      /\ Own(c, h, cred) = [clusters |-> <<ecl>>, contexts |-> <<eco>>,
                            users |-> <<eus>>, current |-> name]
  BY OwnIs
<1>2. /\ ecl.name = name /\ ecl.server = h
      /\ eco.name = name /\ eco.cluster = name /\ eco.user = user
      /\ eus.name = user /\ eus.cred = cred
  BY DEF OwnCluster, OwnContext, OwnUser
<1>3. /\ name \in Names /\ name[1] = c /\ user[1] = c
  BY NamesAssumption DEF Names, NameOf
<1>4. \A n : (NameOf(n, "") = name => n = c) /\ (NameOf(n, "-admin") = user => n = c)
  BY DEF NameOf
<1> HIDE DEF ecl, eco, eus, name, user
<1>5. new = [clusters |-> cl, contexts |-> co, users |-> us, current |-> name]
  <2>1. /\ Upserted(old.clusters, <<ecl>>) = cl
        /\ Upserted(old.contexts, <<eco>>) = co
        /\ Upserted(old.users, <<eus>>) = us
    BY UpsertedOne
  <2> HIDE DEF cl, co, us
  <2> QED BY <2>1, <1>1 DEF MergeConfigs
<1>6. /\ cl \in Seq(Clusters)
      /\ Len(cl) \in {Len(old.clusters), Len(old.clusters) + 1}
      /\ \A j \in DOMAIN old.clusters :
           /\ j \in DOMAIN cl
           /\ old.clusters[j].name # name => cl[j] = old.clusters[j]
      /\ Named(cl) = Named(old.clusters) \cup {name}
      /\ First(cl, name) = ecl
      /\ \A n : n # name /\ n \in Named(old.clusters) => First(cl, n) = First(old.clusters, n)
  <2>1. old.clusters \in Seq(Clusters)
    BY RecordConfigs
  <2>2. ecl.name = name
    BY <1>2
  <2>3. cl \in Seq(Clusters) /\ HasNow(cl, old.clusters, ecl)
    BY <1>1, <2>1, UpsertFacts
  <2> HIDE DEF cl
  <2> QED BY <2>2, <2>3 DEF HasNow
<1>7. /\ co \in Seq(Contexts)
      /\ Len(co) \in {Len(old.contexts), Len(old.contexts) + 1}
      /\ \A j \in DOMAIN old.contexts :
           /\ j \in DOMAIN co
           /\ old.contexts[j].name # name => co[j] = old.contexts[j]
      /\ \A j \in DOMAIN co :
           co[j] = eco \/ (j \in DOMAIN old.contexts /\ co[j] = old.contexts[j])
      /\ Named(co) = Named(old.contexts) \cup {name}
      /\ First(co, name) = eco
      /\ \A n : n # name /\ n \in Named(old.contexts) => First(co, n) = First(old.contexts, n)
  <2>1. old.contexts \in Seq(Contexts)
    BY RecordConfigs
  <2>2. eco.name = name
    BY <1>2
  <2>3. co \in Seq(Contexts) /\ HasNow(co, old.contexts, eco)
    BY <1>1, <2>1, UpsertFacts
  <2> HIDE DEF co
  <2> QED BY <2>2, <2>3 DEF HasNow
<1>8. /\ us \in Seq(Users)
      /\ Len(us) \in {Len(old.users), Len(old.users) + 1}
      /\ \A j \in DOMAIN old.users :
           /\ j \in DOMAIN us
           /\ old.users[j].name # user => us[j] = old.users[j]
      /\ Named(us) = Named(old.users) \cup {user}
      /\ First(us, user) = eus
      /\ \A n : n # user /\ n \in Named(old.users) => First(us, n) = First(old.users, n)
  <2>1. old.users \in Seq(Users)
    BY RecordConfigs
  <2>2. eus.name = user
    BY <1>2
  <2>3. us \in Seq(Users) /\ HasNow(us, old.users, eus)
    BY <1>1, <2>1, UpsertFacts
  <2> HIDE DEF us
  <2> QED BY <2>2, <2>3 DEF HasNow
<1> HIDE DEF cl, co, us
<1>9. new \in Configs
  BY <1>3, <1>5, <1>6, <1>7, <1>8 DEF Configs
<1>10. /\ new.clusters = cl /\ new.contexts = co /\ new.users = us
       /\ new.current = name
  BY <1>5
<1> HIDE DEF new
<1>11. Serves(new, <<c, h, cred>>)
  <2>1. /\ name \in Named(co) /\ name \in Named(cl) /\ user \in Named(us)
        /\ First(co, name).cluster = name /\ First(co, name).user = user
        /\ First(cl, name).server = h /\ First(us, user).cred = cred
    BY <1>2, <1>6, <1>7, <1>8
  <2> QED BY <2>1, <1>10 DEF Serves, name, user
<1>12. ASSUME NEW m, m[1] # c, Serves(old, m) PROVE Serves(new, m)
  <2> DEFINE n == NameOf(m[1], "")
             u == NameOf(m[1], "-admin")
  <2>1. n # name /\ u # user
    BY <1>4, <1>12
  <2>2. /\ n \in Named(old.contexts) /\ n \in Named(old.clusters)
        /\ u \in Named(old.users)
        /\ First(old.contexts, n).cluster = n /\ First(old.contexts, n).user = u
        /\ First(old.clusters, n).server = m[2] /\ First(old.users, u).cred = m[3]
    BY <1>12 DEF Serves
  <2> HIDE DEF n, u
  <2>3. /\ n \in Named(co) /\ n \in Named(cl) /\ u \in Named(us)
        /\ First(co, n).cluster = n /\ First(co, n).user = u
        /\ First(cl, n).server = m[2] /\ First(us, u).cred = m[3]
    BY <2>1, <2>2, <1>6, <1>7, <1>8
  <2> QED BY <2>3, <1>10 DEF Serves, n, u
<1>13. ASSUME Resolves(old) PROVE Resolves(new)
  <2>1. \A j \in DOMAIN old.contexts :
          /\ old.contexts[j].cluster \in Named(cl)
          /\ old.contexts[j].user \in Named(us)
    BY <1>13, <1>6, <1>8 DEF Resolves
  <2>2. eco.cluster \in Named(cl) /\ eco.user \in Named(us)
    BY <1>2, <1>6, <1>8
  <2>3. \A j \in DOMAIN co : co[j].cluster \in Named(cl) /\ co[j].user \in Named(us)
    BY <1>7, <2>1, <2>2
  <2>4. name \in Named(co)
    BY <1>7
  <2> QED BY <2>3, <2>4, <1>10 DEF Resolves
<1>14. Keeps(new, old, c)
  <2>1. \A n : n[1] # c => n # name /\ n # user
    BY <1>3
  <2>2. /\ Len(old.clusters) \in Nat /\ Len(old.contexts) \in Nat /\ Len(old.users) \in Nat
    BY RecordConfigs
  <2>3. /\ Len(new.clusters) <= Len(old.clusters) + 1
        /\ Len(new.contexts) <= Len(old.contexts) + 1
        /\ Len(new.users) <= Len(old.users) + 1
    BY <2>2, <1>6, <1>7, <1>8, <1>10
  <2>4. /\ \A j \in DOMAIN old.clusters :
             old.clusters[j].name[1] # c => new.clusters[j] = old.clusters[j]
        /\ \A j \in DOMAIN old.contexts :
             old.contexts[j].name[1] # c => new.contexts[j] = old.contexts[j]
        /\ \A j \in DOMAIN old.users :
             old.users[j].name[1] # c => new.users[j] = old.users[j]
    BY <2>1, <1>6, <1>7, <1>8, <1>10
  <2> QED BY <2>3, <2>4 DEF Keeps
<1> QED BY <1>9, <1>11, <1>12, <1>13, <1>14 DEF new

\* A file that is not there is written as it is: merged with nothing.
LEMMA OwnIsMerged ==
  ASSUME NEW c \in ClusterNames, NEW h \in Servers, NEW cred \in Nat
  PROVE  /\ EmptyConfig \in Configs
         /\ Resolves(EmptyConfig)
         /\ MergeConfigs(EmptyConfig, Own(c, h, cred)) = Own(c, h, cred)
<1>1. EmptyConfig \in Configs /\ Resolves(EmptyConfig)
  BY DEF EmptyConfig, Configs, Resolves
<1>2. \A e : Upsert(<< >>, e) = <<e>>
  <2>1. \A n : Positions(<< >>, n) = {}
    BY DEF Positions
  <2> QED BY <2>1 DEF Upsert
<1>3. \A e : Upserted(<< >>, <<e>>) = <<e>>
  BY <1>2, UpsertedOne
<1>4. /\ EmptyConfig.clusters = << >> /\ EmptyConfig.contexts = << >>
      /\ EmptyConfig.users = << >>
  BY DEF EmptyConfig
<1>5. MergeConfigs(EmptyConfig, Own(c, h, cred)) = Own(c, h, cred)
  <2> DEFINE ecl == OwnCluster(c, h)
             eco == OwnContext(c)
             eus == OwnUser(c, cred)
  <2>1. Own(c, h, cred) = [clusters |-> <<ecl>>, contexts |-> <<eco>>,
                           users |-> <<eus>>, current |-> NameOf(c, "")]
    BY OwnIs
  <2>3. /\ Own(c, h, cred).clusters = <<ecl>> /\ Own(c, h, cred).contexts = <<eco>>
        /\ Own(c, h, cred).users = <<eus>> /\ Own(c, h, cred).current = NameOf(c, "")
    BY OwnIs
  <2> HIDE DEF ecl, eco, eus
  <2>2. /\ Upserted(EmptyConfig.clusters, <<ecl>>) = <<ecl>>
        /\ Upserted(EmptyConfig.contexts, <<eco>>) = <<eco>>
        /\ Upserted(EmptyConfig.users, <<eus>>) = <<eus>>
    BY <1>3, <1>4
  <2>4. MergeConfigs(EmptyConfig, Own(c, h, cred)) =
          [clusters |-> <<ecl>>, contexts |-> <<eco>>, users |-> <<eus>>,
           current |-> NameOf(c, "")]
    BY <2>2, <2>3, Zenon DEF MergeConfigs
  <2> QED BY <2>1, <2>4
<1> QED BY <1>1, <1>5

-----------------------------------------------------------------------------
(* The invariant.                                                          *)

FileFits ==
  file \notin Null =>
    /\ \A m \in promised : Serves(file, m)
    /\ ~damaged => Resolves(file)

\* What will be promised when the merge of x is written.
Later(x) == {m \in x.promised : m[1] # x.cluster} \cup {<<x.cluster, x.server, x.cred>>}

\* What an init has fetched, and what it is about to write, is in order; hurt is
\* whether the file may have been damaged.
MergeFits(x, hurt) ==
  /\ x.at # "idle" => x.cluster \in ClusterNames /\ x.server \in Servers
  /\ x.at = "read" => x.new = Own(x.cluster, x.server, x.cred)
  /\ x.at \in {"open", "write"} =>
       /\ \A m \in Later(x) : Serves(x.new, m)
       /\ ~hurt => Resolves(x.new)
       /\ Keeps(x.new, x.base, x.cluster)

KubeInv == TypeOK /\ FileFits /\ \A p \in Procs : MergeFits(proc[p], damaged)

Mergers ==
  [at : {"idle", "read", "open", "write"}, cluster : ClusterNames \cup {""},
   server : Servers \cup {Local}, cred : Nat, new : Configs,
   promised : SUBSET Promises, base : Configs]

LEMMA IdleFits == Idle \in Mergers /\ \A hurt : MergeFits(Idle, hurt)
<1>1. EmptyConfig \in Configs
  BY DEF EmptyConfig, Configs
<1>2. Idle \in Mergers
  BY <1>1 DEF Idle, Mergers
<1>3. Idle.at = "idle"
  BY DEF Idle
<1> QED BY <1>2, <1>3 DEF MergeFits

LEMMA InitInvariant == Init => KubeInv
<1> SUFFICES ASSUME Init PROVE KubeInv
  OBVIOUS
<1>1. proc \in [Procs -> Mergers] /\ \A p \in Procs : MergeFits(proc[p], damaged)
  BY IdleFits DEF Init
<1>2. file \in Null \cup Configs
  BY ForeignAssumption DEF Init, Null
<1>3. FileFits
  BY ForeignAssumption DEF Init, FileFits, Null
<1> QED BY <1>1, <1>2, <1>3 DEF Init, KubeInv, TypeOK, Mergers

\* A step of p that sets damaged at most leaves the others as they fit.
LEMMA OthersFit ==
  ASSUME KubeInv, NEW p \in Procs, damaged => damaged', damaged' \in BOOLEAN,
         NEW x \in Mergers, MergeFits(x, damaged'), proc' = [proc EXCEPT ![p] = x]
  PROVE  /\ proc' \in [Procs -> Mergers]
         /\ \A q \in Procs : MergeFits(proc'[q], damaged')
<1>1. proc \in [Procs -> Mergers] /\ \A q \in Procs : MergeFits(proc[q], damaged)
  BY DEF KubeInv, TypeOK, Mergers
<1>2. proc' \in [Procs -> Mergers] /\ proc'[p] = x /\ \A q \in Procs : q # p => proc'[q] = proc[q]
  BY <1>1
<1>3. ASSUME NEW q \in Procs PROVE MergeFits(proc'[q], damaged')
  <2>1. CASE q = p
    BY <2>1, <1>2 DEF MergeFits, Later
  <2>2. CASE q # p
    BY <2>2, <1>1, <1>2 DEF MergeFits
  <2> QED BY <2>1, <2>2
<1> QED BY <1>2, <1>3

LEMMA FetchKeeps ==
  ASSUME KubeInv, NEW p \in Procs, Fetch(p)
  PROVE  KubeInv'
<1>1. proc[p] \in Mergers /\ merges \in Nat /\ TypeOK
  BY DEF KubeInv, TypeOK, Mergers
<1>2. PICK c \in ClusterNames, host \in Hosts, named \in {Local} \cup Addresses :
        proc' = [proc EXCEPT ![p] =
          [@ EXCEPT !.at = "read", !.cluster = c, !.cred = merges + 1,
                    !.server = IF named = Local THEN host ELSE named,
                    !.new = RewriteServer(Parse(RemoteConfig(named, merges + 1)), host, c)]]
  BY DEF Fetch
<1> DEFINE h == IF named = Local THEN host ELSE named
           own == Own(c, h, merges + 1)
           x == [proc[p] EXCEPT !.at = "read", !.cluster = c, !.cred = merges + 1,
                                !.server = h, !.new = own]
<1>0. h \in Servers
  BY DEF Servers
<1>3. own \in Configs
  <2>1. merges + 1 \in Nat
    BY <1>1
  <2>2. MergeConfigs(EmptyConfig, own) \in Configs /\ MergeConfigs(EmptyConfig, own) = own
    BY <1>0, <2>1, OwnIsMerged, MergeFacts
  <2> QED BY <2>2
<1>4. proc' = [proc EXCEPT ![p] = x]
  <2>1. own = RewriteServer(Parse(RemoteConfig(named, merges + 1)), host, c)
    BY <1>1, RewrittenIsOwn
  <2> HIDE DEF own
  <2> QED BY <1>2, <2>1
<1> HIDE DEF own, h
<1>5. x \in Mergers
  <2>1. merges + 1 \in Nat
    BY <1>1
  <2> HIDE DEF TypeOK
  <2> QED BY <2>1, <1>0, <1>1, <1>3 DEF Mergers
<1>6. x.at = "read" /\ x.cluster = c /\ x.server = h /\ x.cred = merges + 1 /\ x.new = own
  BY <1>1 DEF Mergers
<1> HIDE DEF x
<1>7. MergeFits(x, damaged')
  BY <1>0, <1>6 DEF MergeFits, own
<1>8. UNCHANGED <<file, faults, promised, damaged>> /\ merges' \in Nat
  BY <1>1 DEF Fetch
<1>9. proc' \in [Procs -> Mergers] /\ \A q \in Procs : MergeFits(proc'[q], damaged')
  BY <1>1, <1>4, <1>5, <1>7, <1>8, OthersFit DEF TypeOK
<1>10. FileFits'
  BY <1>8 DEF KubeInv, FileFits, Null
<1> QED BY <1>1, <1>8, <1>9, <1>10 DEF KubeInv, TypeOK, Mergers, Null

LEMMA ReadKeeps ==
  ASSUME KubeInv, NEW p \in Procs, Read(p)
  PROVE  KubeInv'
<1>1. proc[p] \in Mergers /\ TypeOK /\ MergeFits(proc[p], damaged)
  BY DEF KubeInv, TypeOK, Mergers
<1>2. /\ UNCHANGED <<file, merges, faults, promised, damaged>>
      /\ proc[p].at = "read"
  BY DEF Read
<1>3. proc' \in [Procs -> Mergers] /\ \A q \in Procs : MergeFits(proc'[q], damaged')
  <2>1. CASE file = Garbage
    <3>1. proc' = [proc EXCEPT ![p] = Idle]
      BY <2>1 DEF Read
    <3> QED BY <3>1, <1>1, <1>2, IdleFits, OthersFit DEF TypeOK
  <2>2. CASE file # Garbage
    <3> DEFINE c == proc[p].cluster
               h == proc[p].server
               cred == proc[p].cred
               own == Own(c, h, cred)
               old == IF file \in Null THEN EmptyConfig ELSE Parse(file)
               seen == IF file \in Null THEN {} ELSE promised
               new == MergeConfigs(old, own)
               x == [proc[p] EXCEPT !.at = "open", !.base = old, !.promised = seen,
                                    !.new = new]
    <3>1. c \in ClusterNames /\ h \in Servers /\ cred \in Nat /\ proc[p].new = own
      BY <1>1, <1>2 DEF Mergers, MergeFits
    <3>2. /\ old \in Configs /\ seen \in SUBSET Promises
          /\ \A m \in seen : Serves(old, m)
          /\ ~damaged => Resolves(old)
      <4>1. CASE file \in Null
        BY <4>1, <3>1, OwnIsMerged
      <4>2. CASE file \notin Null
        BY <4>2, <1>1, ParseFacts DEF KubeInv, TypeOK, FileFits
      <4> QED BY <4>1, <4>2
    <3>3. IF file = Absent THEN own = new ELSE TRUE
      <4>1. file = Absent => old = EmptyConfig
        BY DEF Null
      <4> QED BY <4>1, <3>1, OwnIsMerged
    <3>4. proc' = [proc EXCEPT ![p] = x]
      <4>1. proc' = [proc EXCEPT ![p] =
              [@ EXCEPT !.at = "open", !.base = old, !.promised = seen,
                        !.new = IF file = Absent THEN proc[p].new
                                ELSE MergeConfigs(old, proc[p].new)]]
        BY <2>2 DEF Read
      <4>2. (IF file = Absent THEN proc[p].new ELSE MergeConfigs(old, proc[p].new)) = new
        <5> HIDE DEF old, own
        <5> QED BY <3>1, <3>3
      <4> HIDE DEF old, seen, new
      <4> QED BY <4>1, <4>2
    <3>5. /\ new \in Configs
          /\ Serves(new, <<c, h, cred>>)
          /\ \A m : m[1] # c /\ Serves(old, m) => Serves(new, m)
          /\ Resolves(old) => Resolves(new)
          /\ Keeps(new, old, c)
      <4> HIDE DEF old, c, h, cred
      <4> QED BY <3>1, <3>2, MergeFacts DEF own
    <3> HIDE DEF old, seen, own, new
    <3>6. x \in Mergers
      BY <1>1, <3>2, <3>5 DEF Mergers
    <3>7. /\ x.at = "open" /\ x.cluster = c /\ x.server = h /\ x.cred = cred
          /\ x.base = old /\ x.promised = seen /\ x.new = new
      BY <1>1 DEF Mergers
    <3> HIDE DEF x
    <3>8. \A m \in Later(x) : Serves(x.new, m)
      BY <3>2, <3>5, <3>7 DEF Later
    <3>9. MergeFits(x, damaged')
      BY <1>2, <3>1, <3>2, <3>5, <3>7, <3>8 DEF MergeFits
    <3> QED BY <3>4, <3>6, <3>9, <1>1, <1>2, OthersFit DEF TypeOK
  <2> QED BY <2>1, <2>2
<1>4. FileFits'
  BY <1>2 DEF KubeInv, FileFits, Null
<1> QED BY <1>1, <1>2, <1>3, <1>4 DEF KubeInv, TypeOK, Mergers, Null

LEMMA OpenKeeps ==
  ASSUME KubeInv, NEW p \in Procs, Open(p)
  PROVE  KubeInv'
<1>1. proc[p] \in Mergers /\ TypeOK /\ MergeFits(proc[p], damaged)
  BY DEF KubeInv, TypeOK, Mergers
<1>2. /\ file' = Empty /\ promised' = {} /\ UNCHANGED <<merges, faults>>
      /\ proc[p].at = "open" /\ proc' = [proc EXCEPT ![p].at = "write"]
      /\ damaged' = (damaged \/ \E q \in Procs : proc[q].at = "write")
  BY DEF Open
<1>3. damaged' \in BOOLEAN /\ (damaged => damaged')
  BY <1>1, <1>2 DEF TypeOK
<1> DEFINE x == [proc[p] EXCEPT !.at = "write"]
<1>4. proc' = [proc EXCEPT ![p] = x]
  BY <1>2
<1>5. x \in Mergers
  BY <1>1 DEF Mergers
<1>6. /\ x.at = "write" /\ x.cluster = proc[p].cluster /\ x.server = proc[p].server
      /\ x.cred = proc[p].cred /\ x.base = proc[p].base
      /\ x.promised = proc[p].promised /\ x.new = proc[p].new
  BY <1>1 DEF Mergers
<1> HIDE DEF x
<1>7. Later(x) = Later(proc[p])
  BY <1>6 DEF Later
<1>8. MergeFits(x, damaged')
  BY <1>1, <1>2, <1>3, <1>6, <1>7 DEF MergeFits
<1>9. proc' \in [Procs -> Mergers] /\ \A q \in Procs : MergeFits(proc'[q], damaged')
  BY <1>3, <1>4, <1>5, <1>8, OthersFit
<1>10. FileFits'
  BY <1>2 DEF FileFits, Null
<1> QED BY <1>1, <1>2, <1>3, <1>9, <1>10 DEF KubeInv, TypeOK, Mergers, Null

LEMMA WriteKeeps ==
  ASSUME KubeInv, NEW p \in Procs, Write(p)
  PROVE  KubeInv'
<1>1. proc[p] \in Mergers /\ TypeOK /\ MergeFits(proc[p], damaged)
  BY DEF KubeInv, TypeOK, Mergers
<1>2. /\ proc[p].at = "write" /\ proc' = [proc EXCEPT ![p] = Idle]
      /\ UNCHANGED <<merges, faults>>
      /\ damaged' = (damaged \/ file # Empty)
      /\ file' \in {proc[p].new, Garbage}
      /\ promised' = IF file' = Garbage THEN {} ELSE Later(proc[p])
  BY DEF Write, Later
<1>3. damaged' \in BOOLEAN /\ (damaged => damaged')
  BY <1>1, <1>2 DEF TypeOK
<1>4. MergeFits(Idle, damaged')
  BY IdleFits
<1>5. proc' \in [Procs -> Mergers] /\ \A q \in Procs : MergeFits(proc'[q], damaged')
  BY <1>2, <1>3, <1>4, IdleFits, OthersFit
<1>6. Later(proc[p]) \in SUBSET Promises
  <2>1. /\ proc[p].cluster \in ClusterNames /\ proc[p].server \in Servers
        /\ proc[p].cred \in Nat /\ proc[p].promised \in SUBSET Promises
    BY <1>1, <1>2 DEF MergeFits, Mergers
  <2> QED BY <2>1 DEF Later, Promises
<1>7. file' \in Null \cup Configs /\ promised' \in SUBSET Promises
  BY <1>1, <1>2, <1>6 DEF Mergers, Null
<1>8. FileFits'
  <2>1. CASE file' = Garbage
    BY <2>1 DEF FileFits, Null
  <2>2. CASE file' # Garbage
    BY <2>2, <1>1, <1>2, <1>3 DEF FileFits, MergeFits
  <2> QED BY <2>1, <2>2
<1> QED BY <1>1, <1>2, <1>3, <1>5, <1>7, <1>8 DEF KubeInv, TypeOK, Mergers, Null

LEMMA WriteCutKeeps ==
  ASSUME KubeInv, NEW p \in Procs, WriteCut(p)
  PROVE  KubeInv'
<1>1. proc[p] \in Mergers /\ TypeOK
  BY DEF KubeInv, TypeOK, Mergers
<1>2. /\ proc' = [proc EXCEPT ![p] = Idle] /\ UNCHANGED merges /\ faults' = faults + 1
      /\ promised' = {} /\ damaged' = TRUE
      /\ file' \in Torn(proc[p].new)
  BY DEF WriteCut
<1>3. file' \in Null \cup Configs
  <2>1. proc[p].new \in Configs
    BY <1>1 DEF Mergers
  <2>2. ASSUME NEW cfg \in Configs PROVE [cfg EXCEPT !.users = << >>] \in Configs
    <3>1. << >> \in Seq(Users)
      OBVIOUS
    <3> QED BY <3>1 DEF Configs
  <2> QED BY <1>2, <2>1, <2>2 DEF Torn, Null
<1>4. MergeFits(Idle, damaged')
  BY IdleFits
<1>5. proc' \in [Procs -> Mergers] /\ \A q \in Procs : MergeFits(proc'[q], damaged')
  BY <1>2, <1>4, IdleFits, OthersFit
<1>6. FileFits'
  BY <1>2 DEF FileFits
<1>7. merges' \in Nat /\ faults' \in Nat /\ promised' \in SUBSET Promises
  <2>1. merges \in Nat /\ faults \in Nat
    BY <1>1 DEF TypeOK
  <2>2. merges' = merges /\ faults' = faults + 1 /\ promised' = {}
    BY <1>2
  <2> QED BY <2>1, <2>2
<1>8. damaged' \in BOOLEAN
  BY <1>2
<1> QED BY <1>3, <1>5, <1>6, <1>7, <1>8 DEF KubeInv, TypeOK, Mergers, Null

LEMMA UseContextKeeps ==
  ASSUME KubeInv, UseContext
  PROVE  KubeInv'
<1>1. /\ TypeOK /\ \A q \in Procs : MergeFits(proc[q], damaged)
      /\ file \notin Null /\ file \in Configs
      /\ UNCHANGED <<proc, merges, faults, promised>>
      /\ damaged' = (damaged \/ \E q \in Procs : proc[q].at = "write")
  BY DEF KubeInv, TypeOK, UseContext
<1>2. damaged' \in BOOLEAN /\ (damaged => damaged')
  BY <1>1 DEF TypeOK
<1>3. PICK j \in DOMAIN file.contexts : file' = [file EXCEPT !.current = file.contexts[j].name]
  BY DEF UseContext
<1>4. file.contexts[j].name \in Names /\ file.contexts[j].name \in Named(file.contexts)
  <2>1. file.contexts \in Seq(Contexts)
    BY <1>1, RecordConfigs
  <2>2. file.contexts[j] \in Contexts
    BY <2>1
  <2> QED BY <2>2 DEF Contexts, Named
<1>5. /\ file' \in Configs
      /\ file'.clusters = file.clusters /\ file'.contexts = file.contexts
      /\ file'.users = file.users /\ file'.current = file.contexts[j].name
  BY <1>1, <1>3, <1>4 DEF Configs
<1>6. \A m : Serves(file, m) => Serves(file', m)
  BY <1>5 DEF Serves
<1>7. Resolves(file) => Resolves(file')
  BY <1>4, <1>5 DEF Resolves
<1>8. FileFits'
  BY <1>1, <1>2, <1>6, <1>7 DEF KubeInv, FileFits
<1>9. \A q \in Procs : MergeFits(proc'[q], damaged')
  BY <1>1, <1>2 DEF MergeFits
<1> QED BY <1>1, <1>2, <1>5, <1>8, <1>9 DEF KubeInv, TypeOK

-----------------------------------------------------------------------------
(* The theorems.                                                           *)

\* The invariant holds of every reachable state: what each init holds in memory
\* between its read and its write serves what it has read.
THEOREM KubeconfigInvariant == Spec => []KubeInv
<1>1. KubeInv /\ [Next]_vars => KubeInv'
  <2> SUFFICES ASSUME KubeInv, [Next]_vars PROVE KubeInv'
    OBVIOUS
  <2>1. CASE Next
    BY <2>1, FetchKeeps, ReadKeeps, OpenKeeps, WriteKeeps, WriteCutKeeps, UseContextKeeps
    DEF Next
  <2>2. CASE UNCHANGED vars
    BY <2>2 DEF vars, KubeInv, TypeOK, FileFits, MergeFits, Null
  <2> QED BY <2>1, <2>2
<1> QED BY InitInvariant, <1>1, PTL DEF Spec

THEOREM KubeconfigTyped == Spec => []TypeOK
<1>1. KubeInv => TypeOK
  BY DEF KubeInv
<1> QED BY <1>1, KubeconfigInvariant, PTL

\* ContextsResolve: as long as no write is cut short and no two meet, the
\* contexts of the file have their clusters and users.
THEOREM FileResolves == Spec => []ContextsResolve
<1>1. KubeInv => ContextsResolve
  BY DEF KubeInv, FileFits, ContextsResolve
<1> QED BY <1>1, KubeconfigInvariant, PTL

\* MergedClustersWork: a merged cluster that every later merge saw is usable,
\* with the server and the credential of its last init.
THEOREM MergedStayUsable == Spec => []MergedClustersWork
<1>1. KubeInv => MergedClustersWork
  <2> SUFFICES ASSUME KubeInv, file \notin Null, NEW m \in promised
               PROVE  /\ Positions(file.contexts, NameOf(m[1], "")) # {}
                      /\ LET context == First(file.contexts, NameOf(m[1], "")) IN
                           /\ context.cluster \in Named(file.clusters)
                           /\ context.user \in Named(file.users)
                           /\ First(file.clusters, context.cluster).server = m[2]
                           /\ First(file.users, context.user).cred = m[3]
    BY DEF MergedClustersWork
  <2>1. Serves(file, m)
    BY DEF KubeInv, FileFits
  <2>2. Positions(file.contexts, NameOf(m[1], "")) # {}
    BY <2>1 DEF Serves, Named, Positions
  <2> QED BY <2>1, <2>2 DEF Serves
<1> QED BY <1>1, KubeconfigInvariant, PTL

\* MergeKeepsOthers: a merge that is written whole takes nothing of others away.
THEOREM OthersKept == Spec => MergeKeepsOthers
<1> DEFINE Step ==
      \A p \in Procs :
       proc[p].at = "write" /\ proc'[p].at = "idle" /\ file' = proc[p].new =>
         \A f \in {"clusters", "contexts", "users"} :
           /\ Len(file'[f]) <= Len(proc[p].base[f]) + 1
           /\ \A j \in DOMAIN proc[p].base[f] :
                proc[p].base[f][j].name[1] # proc[p].cluster =>
                  file'[f][j] = proc[p].base[f][j]
<1>1. KubeInv => Step
  <2> SUFFICES ASSUME KubeInv, NEW p \in Procs, proc[p].at = "write", file' = proc[p].new,
                      NEW f \in {"clusters", "contexts", "users"}
               PROVE  /\ Len(file'[f]) <= Len(proc[p].base[f]) + 1
                      /\ \A j \in DOMAIN proc[p].base[f] :
                           proc[p].base[f][j].name[1] # proc[p].cluster =>
                             file'[f][j] = proc[p].base[f][j]
    OBVIOUS
  <2>1. Keeps(proc[p].new, proc[p].base, proc[p].cluster)
    BY DEF KubeInv, MergeFits
  <2> QED BY <2>1 DEF Keeps
<1>2. Spec => [][Step]_vars
  <2> HIDE DEF Step
  <2> QED BY <1>1, KubeconfigInvariant, PTL
<1> QED BY <1>2 DEF MergeKeepsOthers
=============================================================================

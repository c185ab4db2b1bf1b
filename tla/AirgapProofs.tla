----------------------------- MODULE AirgapProofs ------------------------------
(***************************************************************************)
(* What an airgap bundle directory, an archive of it and a machine hold,   *)
(* for any specs, any number of calls and any number of faults.            *)
(*                                                                         *)
(* The inductive invariant says of a call that goes on what it has done:   *)
(* every file that Create's spec lists is written or still to be written,  *)
(* with the manifest last; every file that a load is to install is on the  *)
(* machine as it was extracted or still to be installed.                   *)
(***************************************************************************)
EXTENDS Airgap, TLAPS

-----------------------------------------------------------------------------
(* The invariant.                                                          *)

\* The files of the steps that remain.
Remaining == UNION {Written(call.spec, p) : p \in ToSet(call.todo)}

\* What a load installs.
Installed(s) == ToSet(Binaries(s) \o Images(s))

Steps(s) == Listed(s) \cup {Manifest, AllImages}

Call == [op : {"none", "create", "archive", "extract", "load"}, spec : Specs \cup {NoSpec},
         todo : Seq(UNION {Steps(s) : s \in Specs}),
         returned : {"none", "error", "created", "archived", "extracted", "loaded"}]

CallFits ==
  /\ call \in Call
  /\ call.op # "none" => call.returned = "none"
  /\ call.op \in {"create", "load"} => call.spec \in Specs
  /\ call.op \in {"create", "load"} => call.todo \in Seq(Steps(call.spec))

\* Files lie in the three directories, but for the manifest, which is cut short
\* or that of a spec.
Tree(dir) ==
  /\ \A p \in DOMAIN dir : p = Manifest \/ Rank(p) < 4
  /\ Manifest \in DOMAIN dir /\ dir[Manifest] # Cut => dir[Manifest] \in Specs

\* Some steps of a Create remain, the manifest last; the files of the others
\* are written.
CreateFits ==
  call.op = "create" =>
    /\ \A j \in DOMAIN call.todo : call.todo[j] = Manifest <=> j = Len(call.todo)
    /\ \A p \in Listed(call.spec) :
         p \in Remaining \/ (p \in DOMAIN bundle /\ bundle[p] = call.spec.version)

\* An archive holds some of the files it was packed from, with the manifest only
\* if it holds all.
ArchiveFits ==
  /\ Tree(archive.packed)
  /\ HasItsFiles(archive.packed, archive.mixed)
  /\ DOMAIN archive.files \subseteq DOMAIN archive.packed
  /\ \A p \in DOMAIN archive.files : archive.files[p] = archive.packed[p]
  /\ Manifest \in DOMAIN archive.files => DOMAIN archive.packed = DOMAIN archive.files
  /\ archive.ok /\ archive.ended => DOMAIN archive.packed = DOMAIN archive.files

LoadFits ==
  call.op = "load" =>
    /\ Manifest \in DOMAIN extracted /\ extracted[Manifest] = call.spec
    /\ \A p \in Installed(call.spec) :
         \/ p \in ToSet(call.todo)
         \/ p \in DOMAIN machine /\ p \in DOMAIN extracted /\ machine[p] = extracted[p]

AirgapInv ==
  /\ CallFits
  /\ Tree(bundle) /\ HasItsFiles(bundle, "bundle" \in mixed)
  /\ Tree(extracted) /\ HasItsFiles(extracted, "extracted" \in mixed)
  /\ ArchiveFits
  /\ CreateFits
  /\ LoadFits
  /\ LoadedIsOneBundle

-----------------------------------------------------------------------------
(* Sequences and files.                                                    *)

LEMMA Concatenated ==
  ASSUME NEW S, NEW s \in Seq(S), NEW t \in Seq(S)
  PROVE  s \o t \in Seq(S) /\ ToSet(s \o t) = ToSet(s) \cup ToSet(t)
<1>1. /\ s \o t \in Seq(S) /\ Len(s \o t) = Len(s) + Len(t)
      /\ \A j \in 1 .. Len(s) + Len(t) :
           (s \o t)[j] = IF j <= Len(s) THEN s[j] ELSE t[j - Len(s)]
  OBVIOUS
<1> DEFINE u == s \o t
<1>2. /\ DOMAIN u = 1 .. Len(s) + Len(t) /\ DOMAIN s = 1 .. Len(s) /\ DOMAIN t = 1 .. Len(t)
      /\ Len(s) \in Nat /\ Len(t) \in Nat
  BY <1>1
<1>3. \A j \in DOMAIN u : u[j] = IF j <= Len(s) THEN s[j] ELSE t[j - Len(s)]
  BY <1>1, <1>2
<1> HIDE DEF u
<1>4. ToSet(u) \subseteq ToSet(s) \cup ToSet(t)
  BY <1>2, <1>3 DEF ToSet
<1>5. ASSUME NEW j \in DOMAIN s
      PROVE  s[j] \in ToSet(u)
  <2>1. j \in DOMAIN u /\ u[j] = s[j]
    BY <1>2, <1>3
  <2> QED BY <2>1 DEF ToSet
<1>6. ASSUME NEW j \in DOMAIN t
      PROVE  t[j] \in ToSet(u)
  <2>1. j + Len(s) \in DOMAIN u /\ u[j + Len(s)] = t[j]
    BY <1>2, <1>3
  <2> QED BY <2>1 DEF ToSet
<1>7. ToSet(u) = ToSet(s) \cup ToSet(t)
  BY <1>4, <1>5, <1>6 DEF ToSet
<1> QED BY <1>1, <1>7 DEF u

LEMMA Tailed ==
  ASSUME NEW S, NEW s \in Seq(S), s # << >>
  PROVE  /\ s[1] \in S /\ s[1] \in ToSet(s) /\ Tail(s) \in Seq(S)
         /\ ToSet(s) = {s[1]} \cup ToSet(Tail(s))
         /\ DOMAIN Tail(s) = 1 .. Len(s) - 1 /\ Len(Tail(s)) = Len(s) - 1
         /\ Len(s) \in Nat \ {0} /\ DOMAIN s = 1 .. Len(s)
         /\ \A j \in DOMAIN Tail(s) : Tail(s)[j] = s[j + 1]
<1> DEFINE t == Tail(s)
<1>1. /\ s[1] \in S /\ t \in Seq(S) /\ DOMAIN t = 1 .. Len(s) - 1 /\ Len(t) = Len(s) - 1
      /\ Len(s) \in Nat \ {0} /\ DOMAIN s = 1 .. Len(s)
      /\ \A j \in DOMAIN t : t[j] = s[j + 1]
  OBVIOUS
<1> HIDE DEF t
<1>2. s[1] \in ToSet(s)
  BY <1>1 DEF ToSet
<1>3. ASSUME NEW j \in DOMAIN s
      PROVE  s[j] \in {s[1]} \cup ToSet(t)
  <2>1. CASE j = 1
    BY <2>1
  <2>2. CASE j # 1
    <3>1. j - 1 \in DOMAIN t /\ t[j - 1] = s[j]
      BY <1>1, <2>2
    <3> QED BY <3>1 DEF ToSet
  <2> QED BY <2>1, <2>2
<1>4. ASSUME NEW j \in DOMAIN t
      PROVE  t[j] \in ToSet(s)
  BY <1>1 DEF ToSet
<1>5. ToSet(s) = {s[1]} \cup ToSet(t)
  BY <1>2, <1>3, <1>4 DEF ToSet
<1> QED BY <1>1, <1>2, <1>5 DEF t

LEMMA Paths ==
  /\ Manifest # AllImages /\ Rank(Manifest) = 4
  /\ \A n : /\ Rank(<<"binaries", n>>) = 1 /\ Rank(<<"images", n>>) = 3
            /\ Rank(<<"charts", n>>) = 2
            /\ <<"binaries", n>> # AllImages /\ <<"charts", n>> # AllImages
BY DEF Manifest, AllImages, Rank

LEMMA Widened ==
  ASSUME NEW A, NEW B, A \subseteq B, NEW t \in Seq(A)
  PROVE  t \in Seq(B)
OBVIOUS

LEMMA UnderPaths ==
  ASSUME NEW N, NEW names \in Seq(N), NEW dir, NEW P, \A n \in N : <<dir, n>> \in P
  PROVE  Under(dir, names) \in Seq(P)
<1>1. DOMAIN names = 1 .. Len(names) /\ Len(names) \in Nat
  OBVIOUS
<1>2. \A j \in DOMAIN names : <<dir, names[j]>> \in P
  OBVIOUS
<1>3. Under(dir, names) \in [1 .. Len(names) -> P]
  BY <1>1, <1>2 DEF Under
<1> QED BY <1>1, <1>3

LEMMA SpecFiles ==
  ASSUME NEW s \in Specs
  PROVE  /\ s # Cut /\ s.version # Cut
         /\ Binaries(s) \in Seq(Listed(s)) /\ Images(s) \in Seq(Listed(s))
         /\ Charts(s) \in Seq(Listed(s))
         /\ Listed(s) = ToSet(Binaries(s)) \cup ToSet(Images(s)) \cup ToSet(Charts(s))
         /\ Installed(s) = ToSet(Binaries(s)) \cup ToSet(Images(s))
         /\ \A p \in Listed(s) : Rank(p) < 4 /\ p # Manifest
<1>1. /\ s # Cut /\ s.version # Cut /\ s.binaries \in Seq(STRING) /\ s.images \in Seq(STRING)
      /\ s.charts \in Seq(STRING)
  BY SpecsAssumption
<1> DEFINE P == {p \in {"binaries", "images", "charts"} \X STRING : TRUE}
<1>2. Binaries(s) \in Seq(P) /\ Images(s) \in Seq(P) /\ Charts(s) \in Seq(P)
  <2>1. \A n \in STRING : <<"binaries", n>> \in P /\ <<"images", n>> \in P /\ <<"charts", n>> \in P
    OBVIOUS
  <2> HIDE DEF P
  <2> QED BY <1>1, <2>1, UnderPaths DEF Binaries, Images, Charts
<1>3. \A p \in P : Rank(p) < 4 /\ p # Manifest
  BY Paths
<1> HIDE DEF P
<1> DEFINE b == Binaries(s)
           i == Images(s)
           c == Charts(s)
           bi == b \o i
<1> HIDE DEF b, i, c
<1>4. bi \in Seq(P) /\ ToSet(bi) = ToSet(b) \cup ToSet(i)
  BY <1>2, Concatenated DEF b, i
<1> HIDE DEF bi
<1>11. ToSet(bi \o c) = ToSet(bi) \cup ToSet(c)
  BY <1>2, <1>4, Concatenated DEF c
<1>5. Listed(s) = ToSet(Binaries(s)) \cup ToSet(Images(s)) \cup ToSet(Charts(s))
  BY <1>4, <1>11 DEF Listed, bi, b, i, c
<1>6. Installed(s) = ToSet(Binaries(s)) \cup ToSet(Images(s))
  BY <1>4 DEF Installed, bi, b, i
<1>7. \A t \in Seq(P) : t \in Seq(ToSet(t)) /\ ToSet(t) \subseteq P
  BY DEF ToSet
<1>8. \A t, A, B : t \in Seq(A) /\ A \subseteq B => t \in Seq(B)
  OBVIOUS
<1>9. /\ Binaries(s) \in Seq(Listed(s)) /\ Images(s) \in Seq(Listed(s))
      /\ Charts(s) \in Seq(Listed(s))
  BY <1>2, <1>5, <1>7, <1>8
<1>10. Listed(s) \subseteq P
  BY <1>2, <1>5, <1>7
<1> QED BY <1>1, <1>3, <1>5, <1>6, <1>9, <1>10

LEMMA OnlyImages ==
  ASSUME NEW s \in Specs, NEW p \in ToSet(Binaries(s)) \cup ToSet(Charts(s))
  PROVE  p # AllImages
<1>1. s.binaries \in Seq(STRING) /\ s.charts \in Seq(STRING)
  BY SpecsAssumption
<1>2. \E n : p = <<"binaries", n>> \/ p = <<"charts", n>>
  BY <1>1 DEF ToSet, Binaries, Charts, Under
<1> QED BY <1>2, Paths

\* What the steps of a Create write.
LEMMA WrittenFiles ==
  ASSUME NEW s \in Specs
  PROVE  /\ Written(s, Manifest) = {Manifest}
         /\ \A p \in Steps(s) \ {Manifest} : Written(s, p) \subseteq Listed(s)
         /\ \A p \in Listed(s) \ {AllImages} : Written(s, p) = {p}
<1>1. Listed(s) = ToSet(Binaries(s)) \cup ToSet(Images(s)) \cup ToSet(Charts(s))
  BY SpecFiles
<1>2. Written(s, Manifest) = {Manifest}
  BY Paths DEF Written
<1> QED BY <1>1, <1>2 DEF Written, Steps

LEMMA CreateBegins ==
  ASSUME NEW s \in Specs
  PROVE  LET t == Output(s) \o <<Manifest>> IN
         /\ t \in Seq(Steps(s))
         /\ \A j \in DOMAIN t : t[j] = Manifest <=> j = Len(t)
         /\ \A p \in Listed(s) : \E q \in ToSet(t) : p \in Written(s, q)
<1> DEFINE L == Listed(s) \cup {AllImages}
           i == IF s.images = << >> THEN << >> ELSE <<AllImages>>
           o == (Binaries(s) \o i) \o Charts(s)
           t == o \o <<Manifest>>
<1>1. /\ Binaries(s) \in Seq(Listed(s)) /\ Charts(s) \in Seq(Listed(s))
      /\ Listed(s) = ToSet(Binaries(s)) \cup ToSet(Images(s)) \cup ToSet(Charts(s))
      /\ \A p \in Listed(s) : p # Manifest
  BY SpecFiles
<1>2. i \in Seq(L) /\ Binaries(s) \in Seq(L) /\ Charts(s) \in Seq(L)
  <2>1. << >> \in Seq(L) /\ <<AllImages>> \in Seq(L)
    OBVIOUS
  <2>2. i \in Seq(L)
    BY <2>1
  <2>3. Listed(s) \subseteq L
    OBVIOUS
  <2> HIDE DEF L, i
  <2> QED BY <1>1, <2>2, <2>3, Widened
<1>3. Binaries(s) \o i \in Seq(L) /\ ToSet(Binaries(s) \o i) = ToSet(Binaries(s)) \cup ToSet(i)
  <2> HIDE DEF i, L
  <2> QED BY <1>2, Concatenated
<1>4. o \in Seq(L) /\ ToSet(o) = ToSet(Binaries(s)) \cup ToSet(i) \cup ToSet(Charts(s))
  <2> DEFINE bi == Binaries(s) \o i
  <2>1. bi \in Seq(L) /\ ToSet(bi) = ToSet(Binaries(s)) \cup ToSet(i)
    BY <1>3
  <2>2. o = bi \o Charts(s)
    OBVIOUS
  <2> HIDE DEF i, L, bi, o
  <2>3. bi \o Charts(s) \in Seq(L) /\ ToSet(bi \o Charts(s)) = ToSet(bi) \cup ToSet(Charts(s))
    BY <1>2, <2>1, Concatenated
  <2> QED BY <2>1, <2>2, <2>3
<1>5. \A p \in L : p # Manifest
  BY <1>1, Paths
<1>6. Output(s) = o
  BY DEF Output
<1>7. L \subseteq Steps(s) /\ Manifest \in Steps(s)
  BY DEF Steps
<1>8. s.images # << >> => AllImages \in ToSet(i)
  <2>1. ToSet(<<AllImages>>) = {AllImages}
    BY DEF ToSet
  <2> QED BY <2>1
<1>9. s.images = << >> => ToSet(Images(s)) = {}
  BY DEF Images, Under, ToSet
<1> HIDE DEF i, o, L
<1>10. <<Manifest>> \in Seq(Steps(s)) /\ o \in Seq(Steps(s))
  BY <1>4, <1>7
<1>11. t \in Seq(Steps(s)) /\ ToSet(t) = ToSet(o) \cup ToSet(<<Manifest>>)
  BY <1>10, Concatenated
<1>12. \A j \in DOMAIN t : t[j] = Manifest <=> j = Len(t)
  <2>1. /\ DOMAIN t = 1 .. Len(o) + 1 /\ Len(t) = Len(o) + 1 /\ t[Len(o) + 1] = Manifest
        /\ \A j \in 1 .. Len(o) : t[j] = o[j]
        /\ Len(o) \in Nat
    BY <1>4
  <2>2. \A j \in 1 .. Len(o) : o[j] \in L
    BY <1>4
  <2> HIDE DEF t
  <2> QED BY <1>5, <2>1, <2>2
<1>13. ASSUME NEW p \in Listed(s)
       PROVE  \E q \in ToSet(t) : p \in Written(s, q)
  <2>1. CASE p \in ToSet(Images(s))
    <3>1. AllImages \in ToSet(t)
      BY <1>4, <1>8, <1>9, <1>11, <2>1
    <3> QED BY <2>1, <3>1 DEF Written
  <2>2. CASE p \notin ToSet(Images(s))
    <3>1. p \in ToSet(t)
      BY <1>1, <1>4, <1>11, <2>2
    <3>2. p # AllImages
      BY <1>1, <2>2, OnlyImages
    <3> QED BY <3>1, <3>2 DEF Written
  <2> QED BY <2>1, <2>2
<1> QED BY <1>6, <1>11, <1>12, <1>13

LEMMA Calls ==
  /\ NoSpec \notin Specs /\ Cut \notin Specs
  /\ \A s \in Specs : Seq(Steps(s)) \subseteq Seq(UNION {Steps(x) : x \in Specs})
<1>1. NoSpec \notin Specs /\ Cut \notin Specs
  BY SpecsAssumption
<1>2. ASSUME NEW s \in Specs, NEW t \in Seq(Steps(s))
      PROVE  t \in Seq(UNION {Steps(x) : x \in Specs})
  <2>1. Steps(s) \subseteq UNION {Steps(x) : x \in Specs}
    OBVIOUS
  <2> QED BY <2>1, Widened
<1> QED BY <1>1, <1>2

\* The steps of a call that has none left are the call's last.
LEMMA Returned ==
  ASSUME call \in Call, NEW r \in {"error", "created", "archived", "extracted", "loaded"}, Return(r)
  PROVE  /\ call' \in Call /\ call'.op = "none" /\ call'.returned = r
         /\ call'.spec = call.spec /\ call'.todo = << >>
         /\ CallFits' /\ CreateFits' /\ LoadFits'
<1>1. << >> \in Seq(UNION {Steps(x) : x \in Specs})
  OBVIOUS
<1>2. /\ call'.op = "none" /\ call'.returned = r
      /\ call'.spec = call.spec /\ call'.todo = << >>
  BY DEF Return
<1>3. call' \in Call
  BY <1>1 DEF Return, Call
<1> QED BY <1>2, <1>3 DEF CallFits, CreateFits, LoadFits

LEMMA Begun ==
  ASSUME NEW op \in {"create", "archive", "extract", "load"},
         NEW s \in Specs \cup {NoSpec}, NEW todo \in Seq(UNION {Steps(x) : x \in Specs}),
         Begin(op, s, todo),
         op \in {"create", "load"} => s \in Specs /\ todo \in Seq(Steps(s))
  PROVE  /\ call' \in Call /\ call'.op = op /\ call'.returned = "none"
         /\ call'.spec = s /\ call'.todo = todo
         /\ CallFits' /\ LoadedIsOneBundle'
<1>1. /\ call'.op = op /\ call'.returned = "none" /\ call'.spec = s /\ call'.todo = todo
  BY DEF Begin
<1>2. call' \in Call
  BY DEF Begin, Call
<1>3. CallFits'
  BY <1>1, <1>2 DEF CallFits
<1>4. LoadedIsOneBundle'
  BY <1>1 DEF LoadedIsOneBundle
<1> QED BY <1>1, <1>2, <1>3, <1>4

\* A step of a call that goes on.
LEMMA WentOn ==
  ASSUME CallFits, call.op \in {"create", "load"}, call.todo # << >>, Onward
  PROVE  /\ call'.op = call.op /\ call'.spec = call.spec /\ call'.returned = "none"
         /\ call'.todo = Tail(call.todo) /\ call.todo \in Seq(Steps(call.spec))
         /\ call.spec \in Specs /\ first \in Steps(call.spec)
         /\ CallFits' /\ LoadedIsOneBundle'
<1>1. /\ call \in Call /\ call.returned = "none" /\ call.todo \in Seq(Steps(call.spec))
      /\ call.spec \in Specs
  BY DEF CallFits
<1>2. Tail(call.todo) \in Seq(Steps(call.spec)) /\ first \in Steps(call.spec)
  BY <1>1, Tailed DEF first
<1>3. call' = [call EXCEPT !.todo = Tail(call.todo)]
  BY DEF Onward
<1>4. Tail(call.todo) \in Seq(UNION {Steps(x) : x \in Specs})
  BY <1>1, <1>2, Calls
<1>5. call' \in Call
  BY <1>1, <1>3, <1>4 DEF Call
<1>6. /\ call'.op = call.op /\ call'.spec = call.spec /\ call'.returned = call.returned
      /\ call'.todo = Tail(call.todo)
  BY <1>1, <1>3 DEF Call
<1>7. CallFits'
  BY <1>1, <1>2, <1>5, <1>6 DEF CallFits
<1>8. LoadedIsOneBundle'
  BY <1>1, <1>6 DEF LoadedIsOneBundle
<1> QED BY <1>1, <1>2, <1>6, <1>7, <1>8

LEMMA Puts ==
  ASSUME NEW dir, NEW paths, NEW c
  PROVE  /\ DOMAIN Put(dir, paths, c) = DOMAIN dir \cup paths
         /\ \A p \in paths : Put(dir, paths, c)[p] = c
         /\ \A p \in DOMAIN dir \ paths : Put(dir, paths, c)[p] = dir[p]
BY DEF Put

LEMMA Copies ==
  ASSUME NEW dir, NEW from
  PROVE  /\ DOMAIN Copy(dir, from) = DOMAIN dir \cup DOMAIN from
         /\ \A p \in DOMAIN from : Copy(dir, from)[p] = from[p]
         /\ \A p \in DOMAIN dir \ DOMAIN from : Copy(dir, from)[p] = dir[p]
BY DEF Copy

\* Files are written, none of them the manifest: it lists what it did.
LEMMA PutFiles ==
  ASSUME NEW dir, NEW paths, NEW c, NEW was \in BOOLEAN, NEW is \in BOOLEAN,
         Tree(dir), HasItsFiles(dir, was), \A p \in paths : p # Manifest /\ Rank(p) < 4,
         Manifest \in DOMAIN dir => is = TRUE
  PROVE  Tree(Put(dir, paths, c)) /\ HasItsFiles(Put(dir, paths, c), is)
<1> DEFINE new == Put(dir, paths, c)
<1>1. /\ DOMAIN new = DOMAIN dir \cup paths
      /\ \A p \in DOMAIN dir \ paths : new[p] = dir[p]
      /\ Manifest \notin paths
  BY Puts
<1> HIDE DEF new
<1>2. Tree(new)
  BY <1>1 DEF Tree
<1>3. HasItsFiles(new, is)
  BY <1>1 DEF HasItsFiles
<1> QED BY <1>2, <1>3 DEF new

\* The manifest is cut short, and lists nothing.
LEMMA CutManifest ==
  ASSUME NEW dir, Tree(dir), NEW is \in BOOLEAN
  PROVE  Tree(Put(dir, {Manifest}, Cut)) /\ HasItsFiles(Put(dir, {Manifest}, Cut), is)
<1> DEFINE new == Put(dir, {Manifest}, Cut)
<1>1. DOMAIN new = DOMAIN dir \cup {Manifest} /\ \A p \in {Manifest} : new[p] = Cut
  BY DEF Put
<1>2. new[Manifest] = Cut /\ Manifest \in DOMAIN new
  BY <1>1
<1>3. \A p \in DOMAIN new : p = Manifest \/ Rank(p) < 4
  BY <1>1 DEF Tree
<1> HIDE DEF new
<1>4. Tree(new) /\ HasItsFiles(new, is)
  BY <1>2, <1>3 DEF Tree, HasItsFiles
<1> QED BY <1>4 DEF new

-----------------------------------------------------------------------------
(* Create.                                                                 *)

\* What the parts of the invariant about the bundle directory say does not
\* change when it does.
LEMMA OnlyBundle ==
  ASSUME AirgapInv, archive' = archive, extracted' = extracted,
         "extracted" \in mixed' <=> "extracted" \in mixed,
         CallFits', CreateFits', call'.op # "load", call'.returned # "loaded",
         Tree(bundle'), HasItsFiles(bundle', ("bundle" \in mixed)')
  PROVE  AirgapInv'
<1>1. Tree(extracted)' /\ HasItsFiles(extracted, "extracted" \in mixed)'
  BY DEF AirgapInv, Tree, HasItsFiles
<1>2. ArchiveFits'
  BY DEF AirgapInv, ArchiveFits, Tree, HasItsFiles
<1>3. LoadFits' /\ LoadedIsOneBundle'
  BY DEF LoadFits, LoadedIsOneBundle
<1> QED BY <1>1, <1>2, <1>3 DEF AirgapInv

LEMMA OverBundle ==
  ASSUME Over("bundle", bundle)
  PROVE  /\ "extracted" \in mixed' <=> "extracted" \in mixed
         /\ Manifest \in DOMAIN bundle => ("bundle" \in mixed') = TRUE
BY DEF Over

LEMMA WriteFileFits ==
  ASSUME AirgapInv, WriteFile
  PROVE  AirgapInv'
<1> DEFINE s == call.spec
<1>1. /\ CallFits /\ CreateFits /\ Tree(bundle) /\ HasItsFiles(bundle, "bundle" \in mixed)
      /\ call.op = "create" /\ call.todo # << >> /\ Onward
      /\ archive' = archive /\ extracted' = extracted
      /\ bundle' = Put(bundle, Written(s, first), Content(s, first))
  BY DEF AirgapInv, WriteFile, Doing
<1>2. /\ call'.op = "create" /\ call'.spec = s /\ call'.returned = "none"
      /\ call'.todo = Tail(call.todo) /\ call.todo \in Seq(Steps(s))
      /\ s \in Specs /\ first \in Steps(s)
      /\ CallFits'
  BY <1>1, WentOn
<1>3. /\ first = call.todo[1] /\ first \in ToSet(call.todo)
      /\ ToSet(call.todo) = {first} \cup ToSet(Tail(call.todo))
      /\ DOMAIN Tail(call.todo) = 1 .. Len(call.todo) - 1
      /\ Len(Tail(call.todo)) = Len(call.todo) - 1
      /\ Len(call.todo) \in Nat \ {0} /\ DOMAIN call.todo = 1 .. Len(call.todo)
      /\ \A j \in DOMAIN Tail(call.todo) : Tail(call.todo)[j] = call.todo[j + 1]
  BY <1>1, <1>2, Tailed DEF first
<1> DEFINE t == Tail(call.todo)
           w == Written(s, first)
<1>4. first = Manifest <=> Len(call.todo) = 1
  <2>1. 1 \in DOMAIN call.todo
    BY <1>3
  <2>2. call.todo[1] = Manifest <=> 1 = Len(call.todo)
    BY <1>1, <2>1 DEF CreateFits
  <2> QED BY <1>3, <2>2
<1>5. \A j \in DOMAIN t : t[j] = Manifest <=> j = Len(t)
  <2>1. \A j \in DOMAIN call.todo : call.todo[j] = Manifest <=> j = Len(call.todo)
    BY <1>1 DEF CreateFits
  <2> QED BY <1>3, <2>1
<1>6. Remaining = w \cup UNION {Written(s, p) : p \in ToSet(t)}
  BY <1>3 DEF Remaining
<1>7. Remaining' = UNION {Written(s, p) : p \in ToSet(t)}
  BY <1>2 DEF Remaining
<1>8. /\ DOMAIN bundle' = DOMAIN bundle \cup w /\ \A p \in w : bundle'[p] = Content(s, first)
      /\ \A p \in DOMAIN bundle \ w : bundle'[p] = bundle[p]
  <2> DEFINE c == Content(s, first)
  <2>1. bundle' = Put(bundle, w, c)
    BY <1>1
  <2> HIDE DEF w, c
  <2>2. /\ DOMAIN bundle' = DOMAIN bundle \cup w /\ \A p \in w : bundle'[p] = c
        /\ \A p \in DOMAIN bundle \ w : bundle'[p] = bundle[p]
    BY <2>1 DEF Put
  <2> QED BY <2>2 DEF c
<1>9. /\ \A p \in Listed(s) : Rank(p) < 4 /\ p # Manifest
      /\ first # Manifest => w \subseteq Listed(s)
      /\ Written(s, Manifest) = {Manifest}
  BY <1>2, SpecFiles, WrittenFiles
<1> HIDE DEF t, w, s
<1>10. CASE first = Manifest
  <2>1. t = << >> /\ ToSet(t) = {}
    <3>1. Len(t) = 0 /\ DOMAIN t = {}
      BY <1>3, <1>4, <1>10 DEF t
    <3>2. t \in Seq(Steps(s))
      BY <1>1, <1>2, Tailed DEF t
    <3> QED BY <3>1, <3>2 DEF ToSet
  <2>2. Remaining = {Manifest}
    BY <1>6, <1>9, <1>10, <2>1 DEF w
  <2>3. \A p \in Listed(s) : p \in DOMAIN bundle /\ bundle[p] = s.version
    BY <1>1, <1>9, <2>2 DEF CreateFits, s
  <2>4. DOMAIN bundle' = DOMAIN bundle \cup {Manifest} /\ bundle'[Manifest] = s
    BY <1>8, <1>9, <1>10 DEF w, Content
  <2>5. \A p \in Listed(s) : p \in DOMAIN bundle' /\ bundle'[p] = s.version
    BY <1>8, <1>9, <1>10, <2>3 DEF w
  <2>6. Tree(bundle')
    BY <1>1, <1>2, <1>8, <2>4 DEF Tree, s
  <2>7. HasItsFiles(bundle', ("bundle" \in mixed)')
    BY <2>4, <2>5 DEF HasItsFiles
  <2>8. "extracted" \in mixed' <=> "extracted" \in mixed
    BY <1>10 DEF WriteFile
  <2>9. CreateFits'
    BY <1>2, <1>5, <2>5 DEF CreateFits, t, s
  <2> QED BY <1>1, <1>2, <2>6, <2>7, <2>8, <2>9, OnlyBundle
<1>11. CASE first # Manifest
  <2>1. Over("bundle", bundle)
    BY <1>11 DEF WriteFile
  <2>2. /\ "extracted" \in mixed' <=> "extracted" \in mixed
        /\ Manifest \in DOMAIN bundle => ("bundle" \in mixed') = TRUE
    BY <2>1, OverBundle
  <2>3. \A p \in w : p # Manifest /\ Rank(p) < 4
    BY <1>9, <1>11
  <2>4. Tree(bundle') /\ HasItsFiles(bundle', ("bundle" \in mixed)')
    <3> DEFINE was == "bundle" \in mixed
               is == "bundle" \in mixed'
               c == Content(s, first)
    <3>1. was \in BOOLEAN /\ is \in BOOLEAN
      OBVIOUS
    <3>2. HasItsFiles(bundle, was) /\ Tree(bundle)
      BY <1>1
    <3>3. Manifest \in DOMAIN bundle => is = TRUE
      BY <2>2
    <3>4. bundle' = Put(bundle, w, c)
      BY <1>1 DEF w, s
    <3> HIDE DEF was, is, c
    <3>5. Tree(Put(bundle, w, c)) /\ HasItsFiles(Put(bundle, w, c), is)
      BY <2>3, <3>1, <3>2, <3>3, PutFiles
    <3> QED BY <3>4, <3>5 DEF is
  <2>5. CreateFits'
    <3>1. \A p \in w : bundle'[p] = s.version
      BY <1>8, <1>11 DEF Content
    <3>2. \A p \in Listed(s) :
            p \in Remaining' \/ (p \in DOMAIN bundle' /\ bundle'[p] = s.version)
      <4> TAKE p \in Listed(s)
      <4>1. CASE p \in w
        BY <1>8, <3>1, <4>1
      <4>2. CASE p \notin w
        BY <1>1, <1>6, <1>7, <1>8, <4>2 DEF CreateFits, s
      <4> QED BY <4>1, <4>2
    <3> QED BY <1>2, <1>5, <3>2 DEF CreateFits, t, s
  <2> QED BY <1>1, <1>2, <2>2, <2>4, <2>5, OnlyBundle
<1> QED BY <1>10, <1>11

LEMMA CreateFailsFits ==
  ASSUME AirgapInv, CreateFails
  PROVE  AirgapInv'
<1> DEFINE s == call.spec
<1>1. /\ CallFits /\ CreateFits /\ Tree(bundle) /\ HasItsFiles(bundle, "bundle" \in mixed)
      /\ call \in Call /\ call.op = "create" /\ call.todo # << >> /\ Return("error")
      /\ archive' = archive /\ extracted' = extracted
  BY DEF AirgapInv, CallFits, CreateFails, Doing
<1>2. /\ CallFits' /\ CreateFits' /\ call'.op = "none" /\ call'.returned = "error"
  BY <1>1, Returned
<1>3. s \in Specs /\ call.todo \in Seq(Steps(s))
  BY <1>1 DEF CallFits
<1>4. first \in Steps(s)
  BY <1>1, <1>3, Tailed DEF first
<1> HIDE DEF s
<1>5. CASE UNCHANGED <<bundle, mixed>>
  BY <1>1, <1>2, <1>5, OnlyBundle
<1>6. CASE ~UNCHANGED <<bundle, mixed>>
  <2>1. PICK some \in (SUBSET Written(s, first)) \ {{}} : bundle' = Put(bundle, some, Cut)
    BY <1>6 DEF CreateFails, s
  <2>2. Over("bundle", bundle)
    BY <1>6 DEF CreateFails
  <2>3. /\ "extracted" \in mixed' <=> "extracted" \in mixed
        /\ Manifest \in DOMAIN bundle => ("bundle" \in mixed') = TRUE
    BY <2>2, OverBundle
  <2> DEFINE was == "bundle" \in mixed
             is == "bundle" \in mixed'
  <2>4. was \in BOOLEAN /\ is \in BOOLEAN
    OBVIOUS
  <2>5. HasItsFiles(bundle, was) /\ Tree(bundle)
    BY <1>1
  <2>6. Manifest \in DOMAIN bundle => is = TRUE
    BY <2>3
  <2> HIDE DEF was, is
  <2>7. Tree(bundle') /\ HasItsFiles(bundle', is)
    <3>1. CASE first = Manifest
      <4>1. some = {Manifest}
        BY <1>3, <2>1, <3>1, WrittenFiles
      <4> QED BY <2>1, <2>4, <2>5, <4>1, CutManifest
    <3>2. CASE first # Manifest
      <4>1. \A p \in some : p # Manifest /\ Rank(p) < 4
        BY <1>3, <1>4, <2>1, <3>2, WrittenFiles, SpecFiles
      <4> QED BY <2>1, <2>4, <2>5, <2>6, <4>1, PutFiles
    <3> QED BY <3>1, <3>2
  <2> QED BY <1>1, <1>2, <2>3, <2>7, OnlyBundle DEF is
<1> QED BY <1>5, <1>6

\* A step of the call alone.
LEMMA OnlyCall ==
  ASSUME AirgapInv, bundle' = bundle, archive' = archive, extracted' = extracted, mixed' = mixed,
         CallFits', CreateFits', LoadFits', LoadedIsOneBundle'
  PROVE  AirgapInv'
<1>1. /\ Tree(extracted)' /\ HasItsFiles(extracted, "extracted" \in mixed)'
      /\ Tree(bundle)' /\ HasItsFiles(bundle, "bundle" \in mixed)'
  BY DEF AirgapInv, Tree, HasItsFiles
<1>2. ArchiveFits'
  BY DEF AirgapInv, ArchiveFits, Tree, HasItsFiles
<1> QED BY <1>1, <1>2 DEF AirgapInv

LEMMA CallCreateFits ==
  ASSUME AirgapInv, CallCreate
  PROVE  AirgapInv'
<1>1. PICK s \in Specs : Begin("create", s, Output(s) \o <<Manifest>>)
  BY DEF CallCreate
<1> DEFINE t == Output(s) \o <<Manifest>>
<1>2. /\ t \in Seq(Steps(s)) /\ \A j \in DOMAIN t : t[j] = Manifest <=> j = Len(t)
      /\ \A p \in Listed(s) : \E q \in ToSet(t) : p \in Written(s, q)
  BY CreateBegins
<1>3. Begin("create", s, t)
  BY <1>1
<1> HIDE DEF t
<1>4. t \in Seq(UNION {Steps(x) : x \in Specs})
  BY <1>2, Calls
<1>5. /\ call'.op = "create" /\ call'.spec = s /\ call'.todo = t
      /\ CallFits' /\ LoadedIsOneBundle'
  BY <1>2, <1>3, <1>4, Begun
<1>6. CreateFits'
  <2>1. Remaining' = UNION {Written(s, p) : p \in ToSet(t)}
    BY <1>5 DEF Remaining
  <2>2. \A p \in Listed(s) : p \in Remaining'
    BY <1>2, <2>1
  <2> QED BY <1>2, <1>5, <2>2 DEF CreateFits
<1>7. LoadFits'
  BY <1>5 DEF LoadFits
<1>8. bundle' = bundle /\ archive' = archive /\ extracted' = extracted /\ mixed' = mixed
  BY DEF CallCreate, disk
<1> QED BY <1>5, <1>6, <1>7, <1>8, OnlyCall

LEMMA ReturnsFit ==
  ASSUME AirgapInv, CreateReturns \/ ArchiveReturns
  PROVE  AirgapInv'
<1>1. PICK r \in {"created", "archived", "error"} : Return(r)
  BY DEF CreateReturns, ArchiveReturns
<1>2. call \in Call
  BY DEF AirgapInv, CallFits
<1>3. CallFits' /\ CreateFits' /\ LoadFits' /\ call'.returned = r
  BY <1>1, <1>2, Returned
<1>4. LoadedIsOneBundle'
  BY <1>3 DEF LoadedIsOneBundle
<1>5. bundle' = bundle /\ archive' = archive /\ extracted' = extracted /\ mixed' = mixed
  BY DEF CreateReturns, ArchiveReturns, disk
<1> QED BY <1>3, <1>4, <1>5, OnlyCall

-----------------------------------------------------------------------------
(* CreateArchive and ExtractArchive.                                       *)

\* A walk that has visited the manifest has visited everything.
LEMMA ManifestIsLast ==
  ASSUME NEW files, Tree(files), NEW P \in WalkPrefixes(files)
  PROVE  P \subseteq DOMAIN files /\ (Manifest \in P => P = DOMAIN files)
<1>1. P \subseteq DOMAIN files /\ \A p \in P, q \in DOMAIN files : Rank(q) < Rank(p) => q \in P
  BY DEF WalkPrefixes
<1>2. \A q \in DOMAIN files : q = Manifest \/ Rank(q) < Rank(Manifest)
  BY Paths DEF Tree
<1> QED BY <1>1, <1>2

LEMMA CreateArchiveFits ==
  ASSUME AirgapInv, CreateArchive
  PROVE  AirgapInv'
<1>1. Begin("archive", NoSpec, << >>) /\ bundle' = bundle
      /\ extracted' = extracted /\ mixed' = mixed
  BY DEF CreateArchive
<1>2. << >> \in Seq(UNION {Steps(x) : x \in Specs})
  OBVIOUS
<1>3. call'.op = "archive" /\ CallFits' /\ LoadedIsOneBundle'
  BY <1>1, <1>2, Begun
<1>4. CreateFits' /\ LoadFits'
  BY <1>3 DEF CreateFits, LoadFits
<1>5. Tree(bundle) /\ HasItsFiles(bundle, "bundle" \in mixed)
  BY DEF AirgapInv
<1>6. /\ archive'.packed = bundle /\ archive'.mixed = ("bundle" \in mixed)
      /\ \/ archive'.files = bundle
         \/ /\ \E P \in WalkPrefixes(bundle) : archive'.files = Only(bundle, P)
            /\ archive'.ok => ~archive'.ended
  BY DEF CreateArchive
<1>7. Tree(archive'.packed) /\ HasItsFiles(archive'.packed, archive'.mixed)
  BY <1>5, <1>6
<1>8. /\ DOMAIN archive'.files \subseteq DOMAIN archive'.packed
      /\ \A p \in DOMAIN archive'.files : archive'.files[p] = archive'.packed[p]
      /\ Manifest \in DOMAIN archive'.files => DOMAIN archive'.packed = DOMAIN archive'.files
      /\ archive'.ok /\ archive'.ended => DOMAIN archive'.packed = DOMAIN archive'.files
  <2>1. CASE archive'.files = bundle
    BY <1>6, <2>1
  <2>2. CASE /\ \E P \in WalkPrefixes(bundle) : archive'.files = Only(bundle, P)
             /\ archive'.ok => ~archive'.ended
    <3>1. PICK P \in WalkPrefixes(bundle) : archive'.files = Only(bundle, P)
      BY <2>2
    <3>2. P \subseteq DOMAIN bundle /\ (Manifest \in P => P = DOMAIN bundle)
      BY <1>5, ManifestIsLast
    <3>3. DOMAIN archive'.files = P /\ \A p \in P : archive'.files[p] = bundle[p]
      BY <3>1 DEF Only
    <3> QED BY <1>6, <2>2, <3>2, <3>3
  <2> QED BY <1>6, <2>1, <2>2
<1>9. ArchiveFits'
  BY <1>7, <1>8 DEF ArchiveFits
<1>10. /\ Tree(extracted)' /\ HasItsFiles(extracted, "extracted" \in mixed)'
       /\ Tree(bundle)' /\ HasItsFiles(bundle, "bundle" \in mixed)'
  BY <1>1 DEF AirgapInv, Tree, HasItsFiles
<1> QED BY <1>3, <1>4, <1>9, <1>10 DEF AirgapInv

LEMMA CallExtractFits ==
  ASSUME AirgapInv, CallExtract
  PROVE  AirgapInv'
<1>1. /\ Begin("extract", NoSpec, << >>) /\ bundle' = bundle /\ archive' = archive
      /\ extracted' = extracted /\ mixed' = mixed
  BY DEF CallExtract, disk
<1>2. << >> \in Seq(UNION {Steps(x) : x \in Specs})
  OBVIOUS
<1>3. call'.op = "extract" /\ CallFits' /\ LoadedIsOneBundle'
  BY <1>1, <1>2, Begun
<1>4. CreateFits' /\ LoadFits'
  BY <1>3 DEF CreateFits, LoadFits
<1> QED BY <1>1, <1>3, <1>4, OnlyCall

\* An archive's files are copied over a directory: a manifest of the archive comes
\* with all its files, and an old one stays with files of either.
LEMMA CopyFiles ==
  ASSUME NEW dir, NEW files, NEW was \in BOOLEAN, NEW from \in BOOLEAN, NEW is \in BOOLEAN,
         Tree(dir), HasItsFiles(dir, was), Tree(files), HasItsFiles(files, from),
         Manifest \in DOMAIN files => from = FALSE \/ is = TRUE,
         Manifest \in DOMAIN dir \ DOMAIN files => is = TRUE
  PROVE  Tree(Copy(dir, files)) /\ HasItsFiles(Copy(dir, files), is)
<1> DEFINE new == Copy(dir, files)
<1>1. /\ DOMAIN new = DOMAIN dir \cup DOMAIN files
      /\ \A p \in DOMAIN files : new[p] = files[p]
      /\ \A p \in DOMAIN dir \ DOMAIN files : new[p] = dir[p]
  BY DEF Copy
<1> HIDE DEF new
<1>2. Tree(new)
  BY <1>1 DEF Tree
<1>3. HasItsFiles(new, is)
  <2>1. CASE Manifest \in DOMAIN files
    BY <1>1, <2>1 DEF HasItsFiles
  <2>2. CASE Manifest \notin DOMAIN files
    BY <1>1, <2>2 DEF HasItsFiles
  <2> QED BY <2>1, <2>2
<1> QED BY <1>2, <1>3 DEF new

\* Some files of an archive, with the manifest only if all of them.
LEMMA SomeFiles ==
  ASSUME ArchiveFits, NEW P \in SUBSET DOMAIN archive.files,
         Manifest \in P => DOMAIN archive.packed \subseteq P
  PROVE  /\ Tree(Only(archive.files, P)) /\ HasItsFiles(Only(archive.files, P), archive.mixed)
         /\ DOMAIN Only(archive.files, P) = P
<1> DEFINE o == Only(archive.files, P)
<1>1. DOMAIN o = P /\ \A p \in P : o[p] = archive.packed[p]
  BY DEF Only, ArchiveFits
<1>2. P \subseteq DOMAIN archive.packed
  BY DEF ArchiveFits
<1> HIDE DEF o
<1>3. Tree(o) /\ HasItsFiles(o, archive.mixed)
  BY <1>1, <1>2 DEF ArchiveFits, Tree, HasItsFiles
<1> QED BY <1>1, <1>3 DEF o

\* What the parts of the invariant about the extracted directory say does not
\* change when it does.
LEMMA OnlyExtracted ==
  ASSUME AirgapInv, bundle' = bundle, archive' = archive,
         "bundle" \in mixed' <=> "bundle" \in mixed,
         call \in Call, NEW r \in {"extracted", "error"}, Return(r),
         Tree(extracted'), HasItsFiles(extracted', ("extracted" \in mixed)')
  PROVE  AirgapInv'
<1>1. CallFits' /\ CreateFits' /\ LoadFits' /\ call'.returned = r
  BY Returned
<1>2. LoadedIsOneBundle'
  BY <1>1 DEF LoadedIsOneBundle
<1>3. Tree(bundle)' /\ HasItsFiles(bundle, "bundle" \in mixed)'
  BY DEF AirgapInv, Tree, HasItsFiles
<1>4. ArchiveFits'
  BY DEF AirgapInv, ArchiveFits, Tree, HasItsFiles
<1> QED BY <1>1, <1>2, <1>3, <1>4 DEF AirgapInv

LEMMA Overs ==
  ASSUME OverExtracted
  PROVE  /\ "bundle" \in mixed' <=> "bundle" \in mixed
         /\ archive.mixed => ("extracted" \in mixed') = TRUE
         /\ Manifest \in DOMAIN extracted => ("extracted" \in mixed') = TRUE
<1>1. CASE archive.mixed
  BY <1>1 DEF OverExtracted
<1>2. CASE ~archive.mixed
  BY <1>2 DEF OverExtracted, Over
<1> QED BY <1>1, <1>2

LEMMA ExtractAllFits ==
  ASSUME AirgapInv, ExtractAll
  PROVE  /\ AirgapInv'
         /\ call'.returned = "extracted" /\ archive.ok =>
              \A p \in DOMAIN archive.packed :
                p \in DOMAIN extracted' /\ extracted'[p] = archive.packed[p]
<1> DEFINE files == archive.files
           from == archive.mixed = TRUE
           was == "extracted" \in mixed
           is == "extracted" \in mixed'
<1>1. /\ ArchiveFits /\ Tree(extracted) /\ HasItsFiles(extracted, was) /\ call \in Call
      /\ extracted' = Copy(extracted, files) /\ bundle' = bundle /\ archive' = archive
  BY DEF AirgapInv, CallFits, ExtractAll
<1>2. was \in BOOLEAN /\ is \in BOOLEAN /\ from \in BOOLEAN
  OBVIOUS
<1>3. Tree(files) /\ HasItsFiles(files, from)
  BY <1>1 DEF ArchiveFits, Tree, HasItsFiles
<1>4. \/ /\ archive.ended /\ Return("extracted")
         /\ Manifest \in DOMAIN files /\ ~archive.mixed
         /\ mixed' = mixed \ {"extracted"}
      \/ archive.ended /\ Return("extracted") /\ OverExtracted
      \/ ~archive.ended /\ Return("error") /\ OverExtracted
  BY DEF ExtractAll
<1>5. /\ "bundle" \in mixed' <=> "bundle" \in mixed
      /\ Manifest \in DOMAIN files => from = FALSE \/ is = TRUE
      /\ Manifest \in DOMAIN extracted \ DOMAIN files => is = TRUE
  <2>1. CASE OverExtracted
    BY <2>1, Overs
  <2>2. CASE Manifest \in DOMAIN files /\ ~archive.mixed /\ mixed' = mixed \ {"extracted"}
    BY <2>2
  <2> QED BY <1>4, <2>1, <2>2
<1> HIDE DEF was, is, from
<1>6. Tree(extracted') /\ HasItsFiles(extracted', is)
  BY <1>1, <1>2, <1>3, <1>5, CopyFiles
<1>7. AirgapInv'
  <2>1. PICK r \in {"extracted", "error"} : Return(r)
    BY <1>4
  <2>2. HasItsFiles(extracted', ("extracted" \in mixed)')
    BY <1>6 DEF is
  <2> QED BY <1>1, <1>5, <1>6, <2>1, <2>2, OnlyExtracted
<1>8. ASSUME call'.returned = "extracted", archive.ok
      PROVE  \A p \in DOMAIN archive.packed :
               p \in DOMAIN extracted' /\ extracted'[p] = archive.packed[p]
  <2>1. archive.ended
    BY <1>4, <1>8 DEF Return
  <2>2. DOMAIN archive.packed = DOMAIN files /\ \A p \in DOMAIN files : files[p] = archive.packed[p]
    BY <1>1, <1>8, <2>1 DEF ArchiveFits
  <2>3. DOMAIN files \subseteq DOMAIN extracted' /\ \A p \in DOMAIN files : extracted'[p] = files[p]
    BY <1>1 DEF Copy
  <2> QED BY <2>2, <2>3
<1> QED BY <1>7, <1>8

LEMMA ExtractFailsFits ==
  ASSUME AirgapInv, ExtractFails
  PROVE  AirgapInv' /\ call'.returned = "error"
<1> DEFINE was == "extracted" \in mixed
           is == "extracted" \in mixed'
           from == archive.mixed = TRUE
<1>1. /\ ArchiveFits /\ Tree(extracted) /\ HasItsFiles(extracted, was) /\ call \in Call
      /\ bundle' = bundle /\ archive' = archive /\ OverExtracted /\ Return("error")
  BY DEF AirgapInv, CallFits, ExtractFails
<1>2. was \in BOOLEAN /\ is \in BOOLEAN /\ from \in BOOLEAN
  OBVIOUS
<1>3. PICK P \in WalkPrefixes(archive.packed), Q \in WalkPrefixes(archive.packed) :
        /\ P \subseteq Q \cap DOMAIN archive.files
        /\ extracted' = Put(Copy(extracted, Only(archive.files, P)), Q \ P, Cut)
  BY DEF ExtractFails
<1> DEFINE some == Only(archive.files, P)
           copied == Copy(extracted, some)
<1>4. /\ P \subseteq DOMAIN archive.packed /\ (Manifest \in P => P = DOMAIN archive.packed)
      /\ Q \subseteq DOMAIN archive.packed /\ Tree(archive.packed)
  BY <1>1, ManifestIsLast DEF ArchiveFits
<1>5. Tree(some) /\ HasItsFiles(some, archive.mixed) /\ DOMAIN some = P
  BY <1>1, <1>3, <1>4, SomeFiles
<1>6. HasItsFiles(some, from)
  BY <1>5 DEF HasItsFiles
<1>7. /\ "bundle" \in mixed' <=> "bundle" \in mixed
      /\ from = FALSE \/ is = TRUE
      /\ Manifest \in DOMAIN extracted => is = TRUE
  BY <1>1, Overs
<1> HIDE DEF was, is, from, some
<1>8. Tree(copied) /\ HasItsFiles(copied, is)
  BY <1>1, <1>2, <1>5, <1>6, <1>7, CopyFiles
<1>9. DOMAIN copied = DOMAIN extracted \cup P
  BY <1>5 DEF Copy
<1> HIDE DEF copied
<1>10. Tree(extracted') /\ HasItsFiles(extracted', is)
  <2> DEFINE new == Put(copied, Q \ P, Cut)
  <2>1. extracted' = new
    BY <1>3 DEF copied, some
  <2>2. /\ DOMAIN new = DOMAIN copied \cup (Q \ P)
        /\ \A p \in Q \ P : new[p] = Cut
        /\ \A p \in DOMAIN copied \ (Q \ P) : new[p] = copied[p]
    BY DEF Put
  <2> HIDE DEF new
  <2>3. CASE Manifest \in P
    <3>1. Q \ P = {}
      BY <1>4, <2>3
    <3> QED BY <1>8, <2>1, <2>2, <3>1 DEF Tree, HasItsFiles
  <2>4. CASE Manifest \in Q \ P
    <3>1. new[Manifest] = Cut
      BY <2>2, <2>4
    <3>2. \A p \in DOMAIN new : p = Manifest \/ Rank(p) < 4
      BY <1>4, <1>8, <2>2 DEF Tree
    <3> QED BY <2>1, <3>1, <3>2 DEF Tree, HasItsFiles
  <2>5. CASE Manifest \notin Q
    <3>1. \A p \in Q \ P : p # Manifest /\ Rank(p) < 4
      BY <1>4, <2>5 DEF Tree
    <3>2. Manifest \in DOMAIN copied /\ Manifest \notin P => is = TRUE
      BY <1>7, <1>9
    <3>3. Manifest \in P => Manifest \in Q
      BY <1>3
    <3>4. Manifest \in DOMAIN copied => is = TRUE
      BY <2>5, <3>2, <3>3
    <3> QED BY <1>2, <1>8, <2>1, <3>1, <3>4, PutFiles DEF new
  <2> QED BY <2>3, <2>4, <2>5
<1>11. HasItsFiles(extracted', ("extracted" \in mixed)')
  BY <1>10 DEF is
<1>12. call'.returned = "error"
  BY <1>1 DEF Return
<1> QED BY <1>1, <1>7, <1>10, <1>11, <1>12, OnlyExtracted

-----------------------------------------------------------------------------
(* LoadBundle.                                                             *)

LEMMA CallLoadFits ==
  ASSUME AirgapInv, CallLoad
  PROVE  AirgapInv'
<1> DEFINE s == extracted[Manifest]
           t == Binaries(s) \o Images(s)
<1>1. /\ Manifest \in DOMAIN extracted /\ s # Cut /\ Begin("load", s, t) /\ Tree(extracted)
      /\ bundle' = bundle /\ archive' = archive /\ extracted' = extracted /\ mixed' = mixed
  BY DEF CallLoad, disk, AirgapInv
<1>2. s \in Specs
  BY <1>1 DEF Tree
<1>3. Installed(s) = ToSet(t)
  BY DEF Installed
<1> HIDE DEF s
<1>4. t \in Seq(Steps(s))
  <2>1. Listed(s) \subseteq Steps(s)
    BY DEF Steps
  <2>2. Binaries(s) \in Seq(Listed(s)) /\ Images(s) \in Seq(Listed(s))
    BY <1>2, SpecFiles
  <2>3. t \in Seq(Listed(s))
    BY <2>2, Concatenated
  <2> HIDE DEF t
  <2> QED BY <2>1, <2>3, Widened
<1> HIDE DEF t
<1>5. t \in Seq(UNION {Steps(x) : x \in Specs})
  BY <1>2, <1>4, Calls
<1>6. /\ call'.op = "load" /\ call'.spec = s /\ call'.todo = t /\ CallFits' /\ LoadedIsOneBundle'
  BY <1>1, <1>2, <1>4, <1>5, Begun
<1>7. CreateFits'
  BY <1>6 DEF CreateFits
<1>8. LoadFits'
  BY <1>1, <1>3, <1>6 DEF LoadFits, s
<1> QED BY <1>1, <1>6, <1>7, <1>8, OnlyCall

LEMMA CallLoadFailsFits ==
  ASSUME AirgapInv, CallLoadFails
  PROVE  AirgapInv'
<1>1. /\ call' = [Idle EXCEPT !.returned = "error"]
      /\ bundle' = bundle /\ archive' = archive /\ extracted' = extracted /\ mixed' = mixed
  BY DEF CallLoadFails, disk
<1>2. call' = [op |-> "none", spec |-> NoSpec, todo |-> << >>, returned |-> "error"]
  BY <1>1 DEF Idle
<1>3. << >> \in Seq(UNION {Steps(x) : x \in Specs})
  OBVIOUS
<1>4. CallFits' /\ CreateFits' /\ LoadFits' /\ LoadedIsOneBundle'
  BY <1>2, <1>3 DEF CallFits, Call, CreateFits, LoadFits, LoadedIsOneBundle
<1> QED BY <1>1, <1>4, OnlyCall

LEMMA LoadFileFits ==
  ASSUME AirgapInv, LoadFile
  PROVE  AirgapInv'
<1>1. /\ CallFits /\ LoadFits /\ call.op = "load" /\ call.todo # << >> /\ Onward
      /\ first \in DOMAIN extracted /\ machine' = Put(machine, {first}, extracted[first])
      /\ bundle' = bundle /\ archive' = archive /\ extracted' = extracted /\ mixed' = mixed
  BY DEF AirgapInv, LoadFile, Doing, disk
<1>2. /\ call'.op = "load" /\ call'.spec = call.spec /\ call'.todo = Tail(call.todo)
      /\ call.todo \in Seq(Steps(call.spec)) /\ CallFits' /\ LoadedIsOneBundle'
  BY <1>1, WentOn
<1>3. ToSet(call.todo) = {first} \cup ToSet(Tail(call.todo))
  BY <1>1, <1>2, Tailed DEF first
<1>4. /\ DOMAIN machine' = DOMAIN machine \cup {first}
      /\ \A p \in {first} : machine'[p] = extracted[first]
      /\ \A p \in DOMAIN machine \ {first} : machine'[p] = machine[p]
  BY <1>1 DEF Put
<1>5. \A p \in Installed(call.spec) :
        \/ p \in ToSet(Tail(call.todo))
        \/ p \in DOMAIN machine' /\ p \in DOMAIN extracted /\ machine'[p] = extracted[p]
  <2> TAKE p \in Installed(call.spec)
  <2>1. CASE p = first
    BY <1>1, <1>4, <2>1
  <2>2. CASE p # first
    BY <1>1, <1>3, <1>4, <2>2 DEF LoadFits
  <2> QED BY <2>1, <2>2
<1>6. LoadFits' /\ CreateFits'
  BY <1>1, <1>2, <1>5 DEF LoadFits, CreateFits
<1> QED BY <1>1, <1>2, <1>6, OnlyCall

LEMMA LoadFailsFits ==
  ASSUME AirgapInv, LoadFails
  PROVE  AirgapInv'
<1>1. /\ Return("error") /\ call \in Call
      /\ bundle' = bundle /\ archive' = archive /\ extracted' = extracted /\ mixed' = mixed
  BY DEF AirgapInv, CallFits, LoadFails, disk
<1>2. CallFits' /\ CreateFits' /\ LoadFits' /\ call'.returned = "error"
  BY <1>1, Returned
<1>3. LoadedIsOneBundle'
  BY <1>2 DEF LoadedIsOneBundle
<1> QED BY <1>1, <1>2, <1>3, OnlyCall

LEMMA LoadReturnsFits ==
  ASSUME AirgapInv, LoadReturns
  PROVE  AirgapInv'
<1>1. /\ Return("loaded") /\ call \in Call /\ call.op = "load" /\ call.todo = << >> /\ LoadFits
      /\ call.spec \in Specs /\ HasItsFiles(extracted, "extracted" \in mixed)
      /\ bundle' = bundle /\ archive' = archive /\ extracted' = extracted /\ mixed' = mixed
      /\ machine' = machine
  BY DEF AirgapInv, CallFits, LoadReturns, Done, disk
<1>2. CallFits' /\ CreateFits' /\ LoadFits' /\ call'.spec = call.spec
  BY <1>1, Returned
<1>3. ToSet(call.todo) = {}
  BY <1>1 DEF ToSet
<1>4. Manifest \in DOMAIN extracted /\ extracted[Manifest] = call.spec
  BY <1>1 DEF LoadFits
<1>5. Installed(call.spec) \subseteq Listed(call.spec) /\ call.spec # Cut
  BY <1>1, SpecFiles
<1>6. ASSUME "extracted" \notin mixed, NEW p \in Installed(call.spec)
      PROVE  p \in DOMAIN machine /\ machine[p] = call.spec.version
  <2>1. p \in DOMAIN machine /\ machine[p] = extracted[p]
    BY <1>1, <1>3 DEF LoadFits
  <2>2. extracted[p] = call.spec.version
    BY <1>1, <1>4, <1>5, <1>6 DEF HasItsFiles
  <2> QED BY <2>1, <2>2
<1>7. LoadedIsOneBundle'
  BY <1>1, <1>2, <1>6 DEF LoadedIsOneBundle, Installed
<1> QED BY <1>1, <1>2, <1>7, OnlyCall

-----------------------------------------------------------------------------
(* The theorems.                                                           *)

LEMMA AirgapInit == Init => AirgapInv
<1> SUFFICES ASSUME Init PROVE AirgapInv
  OBVIOUS
<1>1. /\ call = [op |-> "none", spec |-> NoSpec, todo |-> << >>, returned |-> "none"]
      /\ bundle = NoFiles /\ extracted = NoFiles /\ archive = NoArchive
  BY DEF Init, Idle
<1>2. DOMAIN NoFiles = {}
  BY DEF NoFiles
<1>3. /\ archive.files = NoFiles /\ archive.packed = NoFiles
  BY <1>1 DEF NoArchive
<1>4. << >> \in Seq(UNION {Steps(x) : x \in Specs})
  OBVIOUS
<1>5. CallFits /\ CreateFits /\ LoadFits /\ LoadedIsOneBundle
  BY <1>1, <1>4 DEF CallFits, Call, CreateFits, LoadFits, LoadedIsOneBundle
<1>6. ArchiveFits
  BY <1>2, <1>3 DEF ArchiveFits, Tree, HasItsFiles
<1>7. \A isMixed : Tree(NoFiles) /\ HasItsFiles(NoFiles, isMixed)
  BY <1>2 DEF Tree, HasItsFiles
<1> QED BY <1>1, <1>5, <1>6, <1>7 DEF AirgapInv

LEMMA AirgapNext ==
  ASSUME AirgapInv, [Next]_vars
  PROVE  /\ AirgapInv'
         /\ call.op = "extract" /\ call'.returned = "extracted" /\ archive.ok =>
              \A p \in DOMAIN archive.packed :
                p \in DOMAIN extracted' /\ extracted'[p] = archive.packed[p]
<1>1. CASE CallCreate \/ WriteFile \/ CreateFails \/ CreateReturns
  <2>1. call.op # "extract"
    BY <1>1 DEF CallCreate, Begin, WriteFile, CreateFails, CreateReturns, Doing, Done
  <2>2. AirgapInv'
    BY <1>1, CallCreateFits, WriteFileFits, CreateFailsFits, ReturnsFit
  <2> QED BY <2>1, <2>2
<1>2. CASE CreateArchive \/ ArchiveReturns \/ CallExtract
  <2>1. call.op # "extract"
    BY <1>2 DEF CreateArchive, ArchiveReturns, CallExtract, Begin, Done
  <2>2. AirgapInv'
    BY <1>2, CreateArchiveFits, ReturnsFit, CallExtractFits
  <2> QED BY <2>1, <2>2
<1>3. CASE ExtractAll
  BY <1>3, ExtractAllFits
<1>4. CASE ExtractFails
  <2>1. AirgapInv' /\ call'.returned = "error"
    BY <1>4, ExtractFailsFits
  <2> QED BY <2>1
<1>5. CASE CallLoad \/ CallLoadFails \/ LoadFile \/ LoadFails \/ LoadReturns
  <2>1. call.op # "extract"
    BY <1>5 DEF CallLoad, CallLoadFails, Begin, LoadFile, LoadFails, LoadReturns, Doing, Done
  <2>2. AirgapInv'
    BY <1>5, CallLoadFits, CallLoadFailsFits, LoadFileFits, LoadFailsFits, LoadReturnsFits
  <2> QED BY <2>1, <2>2
<1>6. CASE UNCHANGED vars
  <2>1. /\ call' = call /\ bundle' = bundle /\ archive' = archive /\ extracted' = extracted
        /\ machine' = machine /\ mixed' = mixed
    BY <1>6 DEF vars
  <2>2. CallFits' /\ CreateFits' /\ LoadFits' /\ LoadedIsOneBundle'
    BY <2>1 DEF AirgapInv, CallFits, CreateFits, Remaining, LoadFits, LoadedIsOneBundle
  <2>3. AirgapInv'
    BY <2>1, <2>2, OnlyCall
  <2>4. call.op = "extract" => call'.returned = "none"
    BY <2>1 DEF AirgapInv, CallFits
  <2> QED BY <2>3, <2>4
<1> QED BY <1>1, <1>2, <1>3, <1>4, <1>5, <1>6 DEF Next

\* What the call that goes on has done, and what the directories, the archive and
\* the machine hold.
THEOREM AirgapInvariant == Spec => []AirgapInv
<1>1. AirgapInv /\ [Next]_vars => AirgapInv'
  BY AirgapNext
<1> QED BY <1>1, AirgapInit, PTL DEF Spec

\* A directory that has a manifest has the whole bundle, whichever call failed where.
THEOREM ManifestWhole == Spec => []ManifestMeansWhole
<1>1. AirgapInv => ManifestMeansWhole
  BY DEF AirgapInv, ManifestMeansWhole
<1> QED BY <1>1, AirgapInvariant, PTL

\* A load that returns nil has put all of one bundle on the machine.
THEOREM LoadedBundle == Spec => []LoadedIsOneBundle
<1>1. AirgapInv => LoadedIsOneBundle
  BY DEF AirgapInv
<1> QED BY <1>1, AirgapInvariant, PTL

\* If CreateArchive and ExtractArchive return nil, the directory has what was packed,
\* although CreateArchive does not hear of an archive that was not closed.
THEOREM ExtractedIsPacked == Spec => RoundTrip
<1> DEFINE A == call.op = "extract" /\ call'.returned = "extracted" /\ archive.ok =>
                  \A p \in DOMAIN archive.packed :
                    p \in DOMAIN extracted' /\ extracted'[p] = archive.packed[p]
<1>1. AirgapInv /\ [Next]_vars => A
  BY AirgapNext
<1> QED BY <1>1, AirgapInvariant, PTL DEF Spec, RoundTrip
=============================================================================

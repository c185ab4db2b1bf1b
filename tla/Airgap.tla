------------------------------- MODULE Airgap --------------------------------
(***************************************************************************)
(* Airgap bundles (pkg/airgap): Create fills a directory, CreateArchive    *)
(* packs it, ExtractArchive unpacks it where there is no network, and      *)
(* LoadBundle installs it on a machine.  Any of them may fail between two  *)
(* files or inside one, is then tried again or not, and may find what an   *)
(* earlier call left in the same directory.                                *)
(*                                                                         *)
(* A file is a path <<directory, name>>; its content is the version of the *)
(* bundle it comes from, or Cut.  The manifest's content is the spec whose *)
(* files it lists.  No two calls overlap.                                  *)
(***************************************************************************)
EXTENDS Naturals, Sequences, FiniteSets, SequencesExt

CONSTANTS Specs,     \* the bundle specs callers pass
          Slashed,   \* the image names with a slash in them
          NoSpec,    \* no spec
          Cut,       \* the content of a file whose writing was cut short
          MaxFaults, \* bound: failed reads, writes and fetches
          MaxRuns    \* bound: calls

ASSUME SpecsAssumption ==
  /\ {NoSpec, Cut} \cap Specs = {}
  /\ \A s \in Specs :
       /\ {s.binaries, s.images, s.charts} \subseteq Seq(STRING)
       /\ s.binaries # << >> /\ s.version # Cut
ASSUME BoundsAssumption == MaxFaults \in Nat /\ MaxRuns \in Nat

Manifest  == <<"", "manifest.json">>
AllImages == <<"images", "">>

Under(dir, names) == [j \in DOMAIN names |-> <<dir, names[j]>>]
Binaries(s) == Under("binaries", s.binaries)
Images(s)   == Under("images", s.images)
Charts(s)   == Under("charts", s.charts)
Listed(s)   == ToSet(Binaries(s) \o Images(s) \o Charts(s))

Content(s, path) == IF path = Manifest THEN s ELSE s.version

VARIABLES
  call,      \* the call that is going on with what it has to do, or the last
  bundle,    \* the bundle directory: the content of each file
  archive,   \* the archive
  extracted, \* the directory it is extracted to
  machine,   \* the content of each file installed on the machine
  runs, faults,
  mixed      \* observes: the directories where an unfinished call has written
             \* over an older bundle

\* Groups of variables that many steps leave as they are.
disk   == <<bundle, archive, extracted>>
limits == <<runs, faults>>
vars == <<call, bundle, archive, extracted, machine, runs, faults, mixed>>

NoFiles == [p \in {} |-> Cut]
\* Writing files that all have the content c, and a copy of files.
Put(dir, paths, c) == [p \in DOMAIN dir \cup paths |-> IF p \in paths THEN c ELSE dir[p]]
Copy(dir, from) == [p \in DOMAIN dir \cup DOMAIN from |->
                      IF p \in DOMAIN from THEN from[p] ELSE dir[p]]

\* files: its entries; ended: the end of the stream was written; ok: the call
\* that made it returned nil; packed and mixed: the directory it was made from.
NoArchive == [files |-> NoFiles, ended |-> FALSE, ok |-> FALSE, packed |-> NoFiles,
              mixed |-> FALSE]
Idle == [op |-> "none", spec |-> NoSpec, todo |-> << >>, returned |-> "none"]

Init ==
  /\ call = Idle
  /\ bundle = NoFiles /\ extracted = NoFiles /\ machine = NoFiles
  /\ archive = NoArchive
  /\ runs = 0 /\ faults = 0
  /\ mixed = {}

Fault == faults < MaxFaults /\ faults' = faults + 1

Begin(op, s, todo) ==
  /\ call.op = "none"
  /\ runs < MaxRuns
  /\ runs' = runs + 1
  /\ call' = [op |-> op, spec |-> s, todo |-> todo, returned |-> "none"]

Doing(op) == call.op = op /\ call.todo # << >>
Done(op)  == call.op = op /\ call.todo = << >>
first == call.todo[1]
Onward == call' = [call EXCEPT !.todo = Tail(@)]
Return(result) ==
  call' = [op |-> "none", spec |-> call.spec, todo |-> << >>, returned |-> result]

\* A call writes into a directory that may hold a bundle already.
Over(name, dir) == mixed' = IF Manifest \in DOMAIN dir THEN mixed \cup {name} ELSE mixed
\* Extracting what a mixed directory held is no better.
OverExtracted == IF archive.mixed THEN mixed' = mixed \cup {"extracted"}
                 ELSE Over("extracted", extracted)

-----------------------------------------------------------------------------
(* Creator.Create.                                                         *)

\* What Create writes, in order.  The images are written by one call.
Output(s) ==
  Binaries(s) \o (IF s.images = << >> THEN << >> ELSE <<AllImages>>) \o Charts(s)

\* Mutant: the manifest is written first.
CallCreateManifestFirst ==
  /\ \E s \in Specs : Begin("create", s, <<Manifest>> \o Output(s))
  /\ UNCHANGED <<disk, machine, faults, mixed>>

CallCreate ==
  /\ \E s \in Specs : Begin("create", s, Output(s) \o <<Manifest>>)
  /\ UNCHANGED <<disk, machine, faults, mixed>>

\* The files of one step.
Written(s, path) == IF path = AllImages THEN ToSet(Images(s)) ELSE {path}

\* Something is fetched and written, or the manifest.
WriteFile ==
  /\ Doing("create")
  /\ bundle' = Put(bundle, Written(call.spec, first), Content(call.spec, first))
  /\ IF first = Manifest THEN mixed' = mixed \ {"bundle"} ELSE Over("bundle", bundle)
  /\ Onward
  /\ UNCHANGED <<archive, extracted, machine, limits>>

\* It cannot be fetched, or not be written whole.  Nothing is removed.
CreateFails ==
  /\ Doing("create")
  /\ Fault
  /\ \/ UNCHANGED <<bundle, mixed>>
     \/ /\ \E some \in (SUBSET Written(call.spec, first)) \ {{}} :
             bundle' = Put(bundle, some, Cut)
        /\ Over("bundle", bundle)
  /\ Return("error")
  /\ UNCHANGED <<archive, extracted, machine, runs>>

CreateReturns ==
  /\ Done("create")
  /\ Return("created")
  /\ UNCHANGED <<disk, machine, limits, mixed>>

-----------------------------------------------------------------------------
(* CreateArchive and ExtractArchive.                                       *)

\* filepath.Walk visits the directories by name, and then the manifest.
Rank(path) == CASE path[1] = "binaries" -> 1 [] path[1] = "charts" -> 2
                [] path[1] = "images" -> 3 [] OTHER -> 4

\* What a walk of these files has visited when it stops.
WalkPrefixes(files) ==
  {P \in SUBSET DOMAIN files :
     \A p \in P, q \in DOMAIN files : Rank(q) < Rank(p) => q \in P}

Only(files, P) == [p \in P |-> files[p]]

\* The archive is written whole; or the walk fails, and what it has written may
\* be closed properly; or closing it fails, of which CreateArchive says nothing.
CreateArchive ==
  /\ Begin("archive", NoSpec, << >>)
  /\ \/ /\ archive' = [files |-> bundle, ended |-> TRUE, ok |-> TRUE, packed |-> bundle,
                       mixed |-> "bundle" \in mixed]
        /\ UNCHANGED faults
     \/ /\ Fault
        /\ \E P \in WalkPrefixes(bundle), ended, ok \in BOOLEAN :
             /\ ok => ~ended
             /\ archive' = [files |-> Only(bundle, P), ended |-> ended, ok |-> ok,
                            packed |-> bundle, mixed |-> "bundle" \in mixed]
  /\ UNCHANGED <<bundle, extracted, machine, mixed>>

ArchiveReturns ==
  /\ Done("archive")
  /\ Return(IF archive.ok THEN "archived" ELSE "error")
  /\ UNCHANGED <<disk, machine, limits, mixed>>

CallExtract ==
  /\ Begin("extract", NoSpec, << >>)
  /\ UNCHANGED <<disk, machine, faults, mixed>>

\* Mutant: the end of the file is the end of the archive.
ExtractAllToEndOfFile ==
  /\ Done("extract")
  /\ extracted' = Copy(extracted, archive.files)
  /\ mixed' = IF Manifest \in DOMAIN archive.files /\ ~archive.mixed
                THEN mixed \ {"extracted"} ELSE mixed \cup {"extracted"}
  /\ Return("extracted")
  /\ UNCHANGED <<bundle, archive, machine, limits>>

\* An archive without an end is an error, once its entries are there.
ExtractAll ==
  /\ Done("extract")
  /\ extracted' = Copy(extracted, archive.files)
  /\ IF archive.ended
       THEN /\ Return("extracted")
            /\ IF Manifest \in DOMAIN archive.files /\ ~archive.mixed
                 THEN mixed' = mixed \ {"extracted"}
                 ELSE OverExtracted
       ELSE Return("error") /\ OverExtracted
  /\ UNCHANGED <<bundle, archive, machine, limits>>

\* It stops before that, perhaps inside a file.
ExtractFails ==
  /\ Done("extract")
  /\ Fault \/ (~archive.ended /\ UNCHANGED faults)
  /\ \E P, Q \in WalkPrefixes(archive.packed) :
       /\ P \subseteq Q \cap DOMAIN archive.files
       /\ Cardinality(Q \ P) <= 1
       /\ archive.ended => Q \subseteq DOMAIN archive.files
       /\ extracted' = Put(Copy(extracted, Only(archive.files, P)), Q \ P, Cut)
  /\ OverExtracted
  /\ Return("error")
  /\ UNCHANGED <<bundle, archive, machine, runs>>

-----------------------------------------------------------------------------
(* Loader.LoadBundle.                                                      *)

CallLoad ==
  /\ Manifest \in DOMAIN extracted /\ extracted[Manifest] # Cut
  /\ LET s == extracted[Manifest] IN Begin("load", s, Binaries(s) \o Images(s))
  /\ UNCHANGED <<disk, machine, faults, mixed>>

\* There is no manifest, or it does not parse.
CallLoadFails ==
  /\ call.op = "none"
  /\ runs < MaxRuns
  /\ runs' = runs + 1
  /\ Manifest \in DOMAIN extracted => extracted[Manifest] = Cut
  /\ call' = [Idle EXCEPT !.returned = "error"]
  /\ UNCHANGED <<disk, machine, faults, mixed>>

BadName(path) == path[1] = "images" /\ path[2] \in Slashed

\* A binary or an image is put on the machine.
LoadFile ==
  /\ Doing("load")
  /\ ~BadName(first)
  /\ first \in DOMAIN extracted
  /\ machine' = Put(machine, {first}, extracted[first])
  /\ Onward
  /\ UNCHANGED <<disk, limits, mixed>>

\* Mutant: what is not there is left out.
LoadFailsSkips ==
  /\ Doing("load")
  /\ Fault \/ (BadName(first) /\ UNCHANGED faults)
  /\ Onward
  /\ UNCHANGED <<disk, machine, runs, mixed>>

\* The name is refused, the file not there, or the machine does not take it.
LoadFails ==
  /\ Doing("load")
  /\ \/ BadName(first) /\ UNCHANGED <<faults, machine>>
     \/ first \notin DOMAIN extracted /\ UNCHANGED <<faults, machine>>
     \/ Fault /\ machine' \in {machine, Put(machine, {first}, Cut)}
  /\ Return("error")
  /\ UNCHANGED <<disk, runs, mixed>>

LoadReturns ==
  /\ Done("load")
  /\ Return("loaded")
  /\ UNCHANGED <<disk, machine, limits, mixed>>

Next ==
  \/ CallCreate \/ WriteFile \/ CreateFails \/ CreateReturns
  \/ CreateArchive \/ ArchiveReturns
  \/ CallExtract \/ ExtractAll \/ ExtractFails
  \/ CallLoad \/ CallLoadFails \/ LoadFile \/ LoadFails \/ LoadReturns

Spec == Init /\ [][Next]_vars

-----------------------------------------------------------------------------
(* Properties.                                                             *)

\* A directory that has a manifest has all the files it lists; and has them as
\* the manifest's spec had them, but where a newer bundle was being written.
HasItsFiles(dir, isMixed) ==
  Manifest \in DOMAIN dir /\ dir[Manifest] # Cut =>
    /\ Listed(dir[Manifest]) \subseteq DOMAIN dir
    /\ ~isMixed => \A p \in Listed(dir[Manifest]) : dir[p] = dir[Manifest].version

\* The manifest is the last file to be made, packed and unpacked, so wherever
\* there is one the bundle is whole, whichever call failed where.
ManifestMeansWhole ==
  /\ HasItsFiles(bundle, "bundle" \in mixed)
  /\ HasItsFiles(extracted, "extracted" \in mixed)

\* An archive that did not come out whole without CreateArchive saying so is
\* found out: if both calls return nil the directory is what was packed.
RoundTrip ==
  [][call.op = "extract" /\ call'.returned = "extracted" /\ archive.ok =>
       \A p \in DOMAIN archive.packed :
         p \in DOMAIN extracted' /\ extracted'[p] = archive.packed[p]]_vars

\* A load that returns nil has put every binary and image of one bundle on the
\* machine, all of one version, whatever loads failed before it.
LoadedIsOneBundle ==
  call.returned = "loaded" /\ "extracted" \notin mixed =>
    \A p \in ToSet(Binaries(call.spec) \o Images(call.spec)) :
      p \in DOMAIN machine /\ machine[p] = call.spec.version
=============================================================================

------------------------------ MODULE Documents ------------------------------
(***************************************************************************)
(* What becomes of a lock (main.rs): it is read, with the manifest beside   *)
(* it, filtered and written.  A later run reads another lock, and compares  *)
(* it or merges it with what the first one left: the lock itself, for       *)
(* `--scan` and `--against`, or a document read back, for `--from-sbom`.    *)
(*                                                                         *)
(* An input is [format, lock, environment, platform, files, directory]:     *)
(* files are the manifests beside the lock, the lock of format              *)
(* "requirements" is [path, files], and that of "document" is a document    *)
(* that somebody else wrote.                                                *)
(***************************************************************************)
EXTENDS PythonLocks, CondaLocks, Manifests, Composition, Formats

CONSTANTS
  Inputs,    \* the locks the first run may read
  Later,     \* those the second may
  Filters,   \* of the first run
  OutputFormats

\* The formats main.rs:1887 tells apart.
ASSUME InputsAssumption ==
  \A i \in Inputs \cup Later :
    i.format \in {"pixi", "uv", "poetry", "pdm", "pylock", "conda-lock", "explicit", "requirements", "document"}

\* A uv.lock is finite, and None is no extra and no error.
IsUvLock(lock) ==
  /\ Len(lock.packages) \in Nat /\ DOMAIN lock.packages = 1..Len(lock.packages)
  /\ \A p \in Values(lock.packages) :
       /\ IsFiniteSet(DOMAIN p.optional) /\ None \notin DOMAIN p.optional
       /\ \A edges \in {p.needs, p.dev} \cup Values(p.optional) :
            IsFiniteSet(edges) /\ \A e \in edges : IsFiniteSet(e.extras) /\ None \notin e.extras

ASSUME UvAssumption ==
  /\ \A i \in Inputs \cup Later : i.format = "uv" => IsUvLock(i.lock)
  /\ None \notin {"platform", "marker"}

\* A filter says what it says of every criterion there is.
ASSUME FiltersAssumption ==
  \A f \in Filters : f = [x \in DOMAIN NoFilter |-> f[x]] /\ f.keepOrphans \in BOOLEAN

VARIABLES
  run,        \* 1 or 2
  input,      \* the lock being read
  stage,      \* how far the run is with it
  walk,       \* of a uv.lock
  reading,    \* of a requirements file
  sbom,       \* the document, as far as it is
  unfiltered, \* the document before the filter
  filter,     \* the one applied, None if none was
  document,   \* the first run's, as written
  earlier,    \* what the first run left, [name, sbom, entries, pypiOnly]
  merged,     \* the two in one
  changes     \* what the comparison says

vars == <<run, input, stage, walk, reading, sbom, unfiltered, filter, document, earlier,
          merged, changes>>

Manifest(i) == ReadManifest(i.files, i.directory)
Root(i) == [name |-> Manifest(i).name, version |-> Manifest(i).version]

\* model_for: what is made of a lock that was read, with its manifest.  A
\* requirements file states itself what was declared, and a document has none.
WithManifest(i, s) ==
  IF s.error # None \/ i.format \in {"requirements", "document"} THEN s ELSE ApplyManifest(Manifest(i), s)

NoRoot == [name |-> None, version |-> None]

Init ==
  /\ run = 1
  /\ input \in Inputs
  /\ stage = "opened"
  /\ walk = None /\ reading = None /\ sbom = None /\ unfiltered = None /\ filter = None
  /\ document = None /\ earlier = None /\ merged = None /\ changes = None

IsRead(s) ==
  /\ sbom' = WithManifest(input, s)
  /\ stage' = IF s.error # None THEN "failed" ELSE "read"

\* read_input, for the formats that are read at once.
ReadAtOnce ==
  LET i == input
  IN  /\ stage = "opened" /\ i.format \notin {"uv", "requirements"}
      /\ IsRead(CASE i.format = "pixi" ->
                       ReadPixiLock(i.lock, i.environment, i.platform, Root(i),
                                    RequestedExtras(Manifest(i), i.environment))
                  [] i.format = "poetry" -> ReadPoetry(i.lock, i.platform, Root(i))
                  [] i.format = "pdm" -> ReadPdm(i.lock, i.platform, Root(i))
                  [] i.format = "pylock" -> ReadPylock(i.lock, i.platform, Root(i))
                  [] i.format = "conda-lock" -> ReadCondaLock(i.lock, i.platform, Root(i))
                  [] i.format = "explicit" -> ReadExplicit(i.lock, i.platform, Root(i))
                  [] i.format = "document" -> ReadDocument(i.lock, NoRoot, i.platform))
      /\ UNCHANGED <<run, input, walk, reading, unfiltered, filter, document, earlier, merged, changes>>

StartUv ==
  /\ stage = "opened" /\ input.format = "uv"
  /\ walk' = StartWalk(input.lock)
  /\ stage' = "walking"
  /\ UNCHANGED <<run, input, reading, sbom, unfiltered, filter, document, earlier, merged, changes>>

VisitUv ==
  /\ stage = "walking" /\ walk.queue # <<>>
  /\ walk' = Visit(walk, input.lock, input.platform)
  /\ UNCHANGED <<run, input, stage, reading, sbom, unfiltered, filter, document, earlier, merged,
                 changes>>

EndUv ==
  /\ stage = "walking" /\ walk.queue = <<>>
  /\ IsRead(FinishUv(walk, input.lock, input.platform, Root(input)))
  /\ UNCHANGED <<run, input, walk, reading, unfiltered, filter, document, earlier, merged, changes>>

StartRequirements ==
  /\ stage = "opened" /\ input.format = "requirements"
  /\ reading' = StartReading(input.lock.path)
  /\ stage' = "reading"
  /\ UNCHANGED <<run, input, walk, sbom, unfiltered, filter, document, earlier, merged, changes>>

ReadRequirement ==
  /\ stage = "reading" /\ reading.open # <<>>
  /\ reading' = ReadLine(reading, input.lock.files)
  /\ UNCHANGED <<run, input, stage, walk, sbom, unfiltered, filter, document, earlier, merged,
                 changes>>

EndRequirements ==
  /\ stage = "reading" /\ reading.open = <<>>
  /\ IsRead(FinishRequirements(reading, input.platform, Root(input)))
  /\ UNCHANGED <<run, input, walk, reading, unfiltered, filter, document, earlier, merged, changes>>

Filter(f) ==
  /\ run = 1 /\ stage = "read" /\ filter = None
  /\ filter' = f
  /\ unfiltered' = sbom
  /\ sbom' = ApplyFilter(f, sbom)
  /\ UNCHANGED <<run, input, stage, walk, reading, document, earlier, merged, changes>>

WriteDocument(format) ==
  /\ run = 1 /\ stage = "read"
  /\ document' = Write(format, sbom)
  /\ stage' = "written"
  /\ UNCHANGED <<run, input, walk, reading, sbom, unfiltered, filter, earlier, merged, changes>>

\* The second run starts, with the first one's lock or its document.
SecondRun(i, left) ==
  /\ run' = 2 /\ input' = i /\ stage' = "opened"
  /\ earlier' = left
  /\ walk' = None /\ reading' = None /\ sbom' = None
  /\ UNCHANGED <<unfiltered, filter, document, merged, changes>>

\* describes_pypi_only, of a lock: a document read from a file never says so.
PypiOnly == input.format \in {"uv", "pylock", "poetry", "pdm"}

\* previous_from_sbom: a lock is read again.
AgainstLock(i) ==
  /\ run = 1 /\ stage = "read" /\ filter = None /\ input.format # "document"
  /\ SecondRun(i, [name |-> "lock", sbom |-> sbom, entries |-> Entries(sbom),
                       pypiOnly |-> PypiOnly])

AgainstDocument(i) ==
  LET loaded == ReadDocument(document, NoRoot, None)
  IN  /\ run = 1 /\ stage = "written" /\ loaded.error = None
      /\ SecondRun(i, [name |-> "document", sbom |-> loaded, pypiOnly |-> FALSE,
                           entries |-> PreviousEntries(document)])

CompareWithEarlier ==
  /\ run = 2 /\ stage = "read"
  /\ changes' = Compare(sbom, PypiOnly, earlier.entries, earlier.pypiOnly)
  /\ stage' = "done"
  /\ UNCHANGED <<run, input, walk, reading, sbom, unfiltered, filter, document, earlier, merged>>

\* merged_document, of documents; merge_workspaces, of locks.
MergeWithEarlier(earlierFirst) ==
  LET now == [name |-> "now", sbom |-> sbom]
      then == [name |-> earlier.name, sbom |-> earlier.sbom]
  IN  /\ run = 2 /\ stage = "read"
      /\ (earlier.name = "document") = (input.format = "document")
      /\ merged' = Merge(IF earlierFirst THEN <<then, now>> ELSE <<now, then>>,
                         [name |-> "merged", version |-> None])
      /\ stage' = "done"
      /\ UNCHANGED <<run, input, walk, reading, sbom, unfiltered, filter, document, earlier, changes>>

Next ==
  \/ ReadAtOnce \/ StartUv \/ VisitUv \/ EndUv
  \/ StartRequirements \/ ReadRequirement \/ EndRequirements
  \/ \E f \in Filters : Filter(f)
  \/ \E format \in OutputFormats : WriteDocument(format)
  \/ \E i \in Later : AgainstLock(i) \/ AgainstDocument(i)
  \/ CompareWithEarlier
  \/ \E first \in BOOLEAN : MergeWithEarlier(first)

\* The loops of the readers, which nothing interrupts.
ReadingGoesOn == VisitUv \/ ReadRequirement

Spec == Init /\ [][Next]_vars /\ WF_vars(ReadingGoesOn)

-------------------------------------------------------------------------------
(***************************************************************************)
(* Properties.                                                              *)
(***************************************************************************)
(***************************************************************************)
(* What a uv.lock means: a node is a package without extras, or one of its  *)
(* extras, and what is installed is what the members reach with all theirs. *)
(***************************************************************************)
UvNodes(lock, i) == {i} \X ({None} \cup DOMAIN lock.packages[i].optional)

UvLeaving(lock, i, x) ==
  LET p == lock.packages[i]
  IN  IF x # None THEN p.optional[x] ELSE p.needs \cup (IF Member(p, lock) THEN p.dev ELSE {})

UvLeadsOn(e, lock, platform) == e.on # None /\ platform \in e.on /\ Resolve(e, lock) # None
UvTargets(e, lock) == {Resolve(e, lock)} \X ({None} \cup e.extras)

UvNeeds(lock, platform) ==
  LET From(n) == {e \in UvLeaving(lock, n[1], n[2]) : UvLeadsOn(e, lock, platform)}
  IN  UNION {{n} \X UNION {UvTargets(e, lock) : e \in From(n)} :
               n \in UNION {UvNodes(lock, i) : i \in DOMAIN lock.packages}}

\* What the members need with all their extras.
UvReached(lock, platform) ==
  Reached(UNION {UvNodes(lock, i) : i \in UvMembers(lock)}, UvNeeds(lock, platform))

\* The walk over a uv.lock (uv.rs:298) visits a package again for every extra it is
\* asked for later, in whatever order they come and around whatever cycles: in
\* the end it has visited what the members need with all their extras, and
\* nothing else.
UvWalkIsExact ==
  LET reached == UvReached(input.lock, input.platform)
  IN  (input.format = "uv" /\ stage = "read") =>
        /\ walk.done = {n[1] : n \in reached}
        /\ walk.asked = {n \in reached : n[2] # None}

\* And the packages it calls needed without extras are those that a walk on which
\* nobody asks for any would find.
UvIsReadExactly ==
  LET lock == input.lock
      needs == UvNeeds(lock, input.platform)
      plain == Reached(UvMembers(lock) \X {None}, {n \in needs : n[1][2] = None /\ n[2][2] = None})
      PackageOf(i) == ConvertUv(lock.packages[i], Member(lock.packages[i], lock), input.platform, lock.python).id
      project == {i \in DOMAIN lock.packages : TheProject(lock.packages[i])}
  IN  /\ UvWalkIsExact
      /\ (input.format = "uv" /\ stage = "read" /\ filter = None) =>
           {p.id : p \in {q \in sbom.packages : q.via = {}}}
             = {PackageOf(n[1]) : n \in {m \in plain : m[1] \notin project}}

\* The loops of the readers end: a cycle of extras, and files that include one
\* another, are gone through once.
LoopIsOver == \/ stage = "walking" /\ walk.queue = <<>>
              \/ stage = "reading" /\ reading.open = <<>>
ReadingEnds == stage \in {"walking", "reading"} ~> LoopIsOver

\* What a required package needs is required, and what an optional one needs is
\* not for development (scope.rs:47): whatever a manifest's groups and extras
\* share, and whatever is filtered out later.
NeededIsRequired ==
  LET rank == [required |-> 0, optional |-> 1, development |-> 2]
  IN  (stage \in {"read", "written"} /\ input.format # "conda-lock") =>
        \A e \in Edges(sbom.packages) :
          {e[1], e[2]} \subseteq DOMAIN sbom.scopes =>
            rank[sbom.scopes[e[2]]] <= rank[sbom.scopes[e[1]]]

\* A filter (filter.rs:109) leaves out what it names and what only that needed:
\* a package that stays was at the top or is needed by another that stays, what
\* one that stays needs stays, and no edge between them is lost or left over.
FilterIsExact ==
  LET all == unfiltered.packages
      kept == Ids(sbom.packages)
      named == {p.id : p \in {q \in all : Matches(filter, q)}}
      top == Ids(all) \ DependedOn(all)
  IN  (run = 1 /\ filter # None /\ ~ filter.keepOrphans) =>
        /\ kept \cap named = {} /\ top \ named \subseteq kept
        /\ Edges(sbom.packages) = Edges(all) \cap (kept \X kept)
        /\ \A id \in kept : id \in top \/ \E e \in Edges(sbom.packages) : e[2] = id
        /\ \A e \in Edges(all) : e[1] \in kept => e[2] \in kept \cup named
        /\ filter # NoFilter =>
             sbom.excluded = {p.name : p \in {q \in all : q.id \notin kept}}

(***************************************************************************)
(* What a document keeps of what it was written from.                       *)
(***************************************************************************)
LoadedBack == ReadDocument(document, NoRoot, None)

\* Edges a scope turns around in SPDX 2.3.
ScopedEdges(s) == {e \in Edges(s.packages) : Crossing(s.scopes, e[1], e[2]) # None}

TextLicense(p) == p.license # None /\ p.license.form = "text"

\* A document that is read back has the packages, facts and graph it was written
\* with, but for what SPDX 3.0 does not give back, edges into a scope and
\* licenses that are no expression in SPDX 2.3: no two packages of a document
\* have one reference, and every edge leads to one.  Nor does a comparison of
\* the document with what it was written from find anything, but those licenses.
DocumentsSurvive ==
  LET back == LoadedBack
      format == document.format
      refs == {c.ref : c \in document.components}
      AsWritten(p) == [Facts(p) EXCEPT !.license = IF format = "spdx2" THEN DeclaredLicense(@) ELSE @]
      same == Compare(sbom, PypiOnly, PreviousEntries(document), FALSE)
  IN  (run = 1 /\ stage = "written") =>
        /\ \A e \in document.edges : {e.from, e.to} \subseteq refs \cup {None}
        /\ format \in {"spdx2", "cyclonedx"} =>
             /\ Cardinality(refs) = Cardinality(sbom.packages)
             /\ {Facts(p) : p \in back.packages} = {AsWritten(p) : p \in sbom.packages}
             /\ Edges(back.packages) = Edges(sbom.packages)
                                          \ (IF format = "spdx2" THEN ScopedEdges(sbom) ELSE {})
        /\ format = "spdx3" =>
             {<<p.id, p.name, p.version, p.license>> : p \in back.packages}
               = {<<p.id, p.name, p.version, p.license>> : p \in sbom.packages}
        /\ format # "github" =>
             /\ [same EXCEPT !.license = {}, !.unchanged = {}]
                  = [s \in DOMAIN same |-> {}]
             /\ same.license \subseteq {EntryKey(Entry(p)) : p \in {q \in sbom.packages : TextLicense(q)}}

\* A merge (merge.rs:100) keeps what its inputs say: every package and every edge
\* of each, found by purl, with the input among those it is from; each input's
\* root, over what was at its top; nothing of a purl twice; and no edge that
\* none of them has.
MergeKeepsGraphs ==
  LET of == {[name |-> "now", sbom |-> sbom], [name |-> earlier.name, sbom |-> earlier.sbom]}
      Named(id) == [id EXCEPT !.copy = <<>>]
      Purls(edges) == {<<Named(e[1]), Named(e[2])>> : e \in edges}
      RootsOf(i) == {p \in merged.packages :
                       /\ p.inputs = {i.name} /\ p.id \in TopLevel(merged)
                       /\ p.purl = GenericPurl(i.sbom.root.name, i.sbom.root.version, None)
                       /\ {Named(id) : id \in p.deps} = TopLevel(i.sbom)}
      below == merged.packages \ UNION {RootsOf(i) : i \in of}
      named == {p \in below : HasPurl(p)}
  IN  merged # None =>
        /\ Cardinality(Ids(merged.packages)) = Cardinality(merged.packages)
        /\ Cardinality({p.purl : p \in named}) = Cardinality(named)
        /\ Purls(Edges(below)) = UNION {Purls(Edges(i.sbom.packages)) : i \in of}
        /\ \A i \in of :
             /\ \A p \in i.sbom.packages : \E k \in below : k.purl = p.purl /\ i.name \in k.inputs
             /\ Cardinality(RootsOf(i)) = 1

\* merge.rs:8, "so every input's graph survives", and the test that packages whose
\* ids collide stay apart: what only one input knows needs only what that input
\* has.
InputsStayApart ==
  merged # None =>
    \A p, q \in merged.packages :
      (q.id \in p.deps /\ Cardinality(p.inputs) = 1) => p.inputs \subseteq q.inputs

\* A comparison (diff.rs:449) names every package that is there on one side only,
\* or in another version or build, and no other but for its license, where
\* neither side holds several releases of it and both may hold its kind; it names
\* none of them twice, and `--fail-on-diff any` trips over each.
NoChangeIsMissed ==
  LET now == Entries(sbom)
      sides == {now, earlier.entries}
      SameKey(e, f) == EntryKey(e) = EntryKey(f)
      Alone(e) == \A side \in sides : \A f, g \in side : SameKey(e, f) /\ SameKey(e, g) => f = g
      Same(e, f) == /\ SameKey(e, f) /\ e.version = f.version
                    /\ e.build = f.build \/ e.build = None \/ f.build = None
      Differs(e) == \E side \in sides : \A f \in side : ~ Same(e, f)
      Told(e) == {s \in DiffHits(changes, {"any"}) : EntryKey(e) \in changes[s]}
  IN  changes # None =>
        \A e \in now \cup earlier.entries :
          (Alone(e) /\ (e.type # "conda" \/ PypiOnly = earlier.pypiOnly)) =>
            /\ \A s, t \in Told(e) : s = t
            /\ (Told(e) \ {"license"} # {}) = Differs(e)
===============================================================================

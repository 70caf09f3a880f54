----------------------------- MODULE Composition -----------------------------
(***************************************************************************)
(* Documents made from documents: filtered (filter.rs), merged (merge.rs)   *)
(* and compared with an earlier one (diff.rs).                              *)
(***************************************************************************)
EXTENDS Sboms

CONSTANT Keyed   \* how names with capitals or underscores are spelled in a comparison

(***************************************************************************)
(* A filter is [include, exclude, kinds, keepOrphans]: the names its        *)
(* patterns match, the kinds it drops, and whether packages that only the   *)
(* dropped ones needed are kept.                                            *)
(***************************************************************************)
NoFilter == [include |-> {}, exclude |-> {}, kinds |-> {}, keepOrphans |-> FALSE]

Matches(filter, p) ==
  \/ p.kind \in filter.kinds
  \/ p.name \in filter.exclude
  \/ filter.include # {} /\ p.name \notin filter.include

\* Mutant: the roots are judged after the packages are dropped.
KeptAround(filter, packages) ==
  LET left == {p \in packages : ~ Matches(filter, p)}
  IN  Reached(Ids(left) \ DependedOn(left), Edges(left)) \cap Ids(left)

\* What is there without the dropped packages: whatever the graph's roots, judged
\* before anything is dropped, reach around them.
Kept(filter, packages) ==
  LET ids == Ids(packages)
      excluded == {p.id : p \in {q \in packages : Matches(filter, q)}}
      roots == ids \ (excluded \cup DependedOn(packages))
  IN  IF filter.keepOrphans THEN ids \ excluded
      ELSE Reached(roots, {e \in Edges(packages) : e[2] \notin excluded}) \cap ids

\* Filter::apply
ApplyFilter(filter, sbom) ==
  LET kept == Kept(filter, sbom.packages)
      drop == Ids(sbom.packages) \ kept
      packages == {p \in sbom.packages : p.id \in kept}
  IN  IF [filter EXCEPT !.keepOrphans = FALSE] = NoFilter THEN sbom
      ELSE [sbom EXCEPT !.packages = {[p EXCEPT !.deps = @ \ drop] : p \in packages},
                        !.excluded = {p.name : p \in sbom.packages \ packages}]

(***************************************************************************)
(* A merge.  An input is [name, sbom], and its ids are distinct.  The       *)
(* package of a purl is the first input's, completed by the others; a       *)
(* package whose id is taken is given another, and keeps its edges to what  *)
(* its dependencies were called; every input's root is a package over its   *)
(* own top level.                                                           *)
(***************************************************************************)
\* root_package
RootPackage(input, topLevel) ==
  LET root == input.sbom.root
  IN  [Package("external", root.name, root.version, GenericPurl(root.name, root.version, None))
         EXCEPT !.deps = topLevel, !.inputs = {input.name}]

\* conflicts; names_one_file: only a purl with a build names one file.
Conflicts(kept, other) ==
  LET Differ(a, b) == a # None /\ b # None /\ a # b
  IN  (IF Differ(kept.license, other.license) THEN {"license"} ELSE {})
        \cup (IF kept.purl.type = "conda" /\ kept.purl.rest.build # None
                /\ Differ(kept.hash, other.hash) THEN {"hash"} ELSE {})

Complete(kept, other, name) ==
  [kept EXCEPT !.conflict = LET all == @ \cup Conflicts(kept, other)
                           IN  IF all = {} THEN other.conflict ELSE all,
               !.extraPurls = @ \cup other.extraPurls,
               !.license = IF @ = None THEN other.license ELSE @,
               !.hash = IF @ = None THEN other.hash ELSE @,
               !.repository = IF @ = None THEN other.repository ELSE @,
               !.declaredIn = IF @ = {} THEN other.declaredIn ELSE @,
               !.extras = IF @ = {} THEN other.extras ELSE @,
               !.via = IF @ = {} THEN other.via ELSE @,
               !.inputs = @ \cup {name}]

\* Mutant: two packages of one id.
SameId(id, taken, n) == id

\* unique_ref: an id that is taken gets the number of the input.
FreshId(id, taken, n) == IF id \in taken THEN [id EXCEPT !.copy = Append(@, n)] ELSE id

\* is_purl: what a document gives no purl is known by its name and version.
HasPurl(p) == p.purl.type # NoType

\* One input, the n-th: merged is [packages, found], found the ids of the
\* packages that may be found by their purl, which no root may.
Absorb(merged, input, n) ==
  LET taken == Ids(merged.packages)
      Same(p) == {k \in merged.packages : k.id \in merged.found /\ k.purl = p.purl}
      NewId(p) == IF Same(p) # {} THEN (CHOOSE k \in Same(p) : TRUE).id ELSE FreshId(p.id, taken, n)
      mine == input.sbom.packages
      Mapped(id) == IF id \in Ids(mine) THEN NewId(CHOOSE p \in mine : p.id = id) ELSE id
      Edged(k, p) == [k EXCEPT !.deps = @ \cup {Mapped(d) : d \in p.deps}]
      completed == {IF \E p \in mine : NewId(p) = k.id /\ k \in Same(p)
                    THEN LET p == CHOOSE p \in mine : k \in Same(p)
                         IN  Edged(Complete(k, p, input.name), p)
                    ELSE k : k \in merged.packages}
      added == {Edged([p EXCEPT !.id = NewId(p), !.inputs = {input.name}], p) :
                  p \in {q \in mine : Same(q) = {}}}
      root == RootPackage(input, {Mapped(id) : id \in TopLevel(input.sbom)})
      free == FreshId(root.id, taken \cup Ids(added), n)
  IN  [packages |-> completed \cup added \cup {[root EXCEPT !.id = free]},
       found |-> merged.found \cup Ids({p \in added : HasPurl(p)})]

\* merge
Merge(inputs, root) ==
  LET upTo[n \in 0..Len(inputs)] ==
        IF n = 0 THEN [packages |-> {}, found |-> {}] ELSE Absorb(upTo[n - 1], inputs[n], n)
      all == {inputs[n].sbom : n \in DOMAIN inputs}
      Shared(field(_), otherwise) ==
        IF Cardinality({field(s) : s \in all}) = 1 THEN field(inputs[1].sbom) ELSE otherwise
      Scope(id) == LastWith(inputs, LAMBDA i : id \in DOMAIN i.sbom.scopes).sbom.scopes[id]
  IN  [Empty EXCEPT
         !.root = root,
         !.environment = Shared(LAMBDA s : s.environment, "merged"),
         !.platform = Shared(LAMBDA s : s.platform, None),
         !.interpreter = Shared(LAMBDA s : s.interpreter, None),
         !.packages = {[p EXCEPT !.direct = FALSE] : p \in upTo[Len(inputs)].packages},
         !.excluded = UNION {s.excluded : s \in all},
         !.incomplete = UNION {{inputs[n].name} \X inputs[n].sbom.incomplete : n \in DOMAIN inputs},
         !.scopes = [id \in UNION {DOMAIN s.scopes : s \in all} |-> Scope(id)]]

(***************************************************************************)
(* A comparison, of the entries of two documents: a package is known by the *)
(* type of its purl and its name, and where a document holds several        *)
(* releases of one, the last is compared.                                   *)
(***************************************************************************)
\* entry_of; kind_of; build_of: only a conda purl states a build.
Entry(p) ==
  [type |-> p.purl.type, name |-> p.name, version |-> p.version, license |-> p.license,
   build |-> IF p.purl.type = "conda" THEN p.purl.rest.build ELSE None,
   pip |-> p.installer = "pip"]

\* key: every name in lower case, `-` for `_`, and other separators as they are.
EntryKey(e) == <<e.type, IF e.name \in DOMAIN Keyed THEN Keyed[e.name] ELSE e.name>>

\* The entries of a document: what a package carries in its files is not its own.
Entries(sbom) == {Entry(p) : p \in {q \in sbom.packages : ~ q.vendored}}

Latest(entries) ==
  LET OfKey(k) == {e \in entries : EntryKey(e) = k}
      NotBefore(e, f) == f.version = None \/ (e.version # None /\ f.version <= e.version)
  IN  [k \in {EntryKey(e) : e \in entries} |->
         CHOOSE e \in OfKey(k) : \A f \in OfKey(k) \ {e} : NotBefore(e, f)]

\* Mutant: conda packages are compared only where there can be none.
WithoutConda(latest, pypiOnly, previousPypiOnly) ==
  IF pypiOnly /\ previousPypiOnly THEN latest
  ELSE Restrict(latest, {k \in DOMAIN latest : k[1] # "conda"})

\* Of two documents of which one can only hold Python packages, those.
OfBothKinds(latest, pypiOnly, previousPypiOnly) ==
  IF pypiOnly = previousPypiOnly THEN latest
  ELSE Restrict(latest, {k \in DOMAIN latest : k[1] # "conda"})

\* compare: what only one side can know of is left out.
Compare(sbom, pypiOnly, previous, previousPypiOnly) ==
  LET old == OfBothKinds(Latest(previous), pypiOnly, previousPypiOnly)
      new == OfBothKinds(Latest(Entries(sbom)), pypiOnly, previousPypiOnly)
      both == DOMAIN old \cap DOMAIN new
      appeared == DOMAIN new \ DOMAIN old
      version == {k \in both : old[k].version # new[k].version}
      Known(a, b) == a # None /\ b # None /\ a # b
      build == {k \in both \ version : Known(old[k].build, new[k].build)}
      license == {k \in both \ (version \cup build) : Known(old[k].license, new[k].license)}
      pip == {k \in appeared : new[k].pip}
  IN  [added |-> appeared \ pip, pip |-> pip, removed |-> DOMAIN old \ DOMAIN new,
       version |-> version, build |-> build, license |-> license,
       unchanged |-> both \ (version \cup build \cup license)]

\* gate_hits: the sections asked for that are not empty.
DiffHits(diff, sections) ==
  {s \in DOMAIN diff \ {"unchanged"} : diff[s] # {} /\ (s \in sections \/ "any" \in sections)}
=============================================================================

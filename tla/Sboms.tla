-------------------------------- MODULE Sboms --------------------------------
(***************************************************************************)
(* A document as the program holds it in memory (model.rs), the identities  *)
(* of its packages (purl.rs), and what every reader does with its graph:    *)
(* extras (extras.rs), scopes (scope.rs) and the packages at the top        *)
(* (format/mod.rs).                                                         *)
(*                                                                         *)
(* Names are strings, versions numbers.  Packages and their dependencies    *)
(* are sets: the code keeps them sorted, and nothing here reads the order.  *)
(* Packages that share an id, where a lock repeats an entry, have one graph.*)
(***************************************************************************)
EXTENDS Naturals, FiniteSets, Functions, SequencesExt

CONSTANTS
  None,      \* an optional value that is absent
  Spelling   \* how names that are not normalized are spelled when they are

ASSUME SpellingAssumption ==
  \A name \in DOMAIN Spelling : Spelling[name] \notin DOMAIN Spelling

\* normalize_pypi_name: case and separators do not tell two names apart.
Normalized(name) == IF name \in DOMAIN Spelling THEN Spelling[name] ELSE name

Values(s) == {s[i] : i \in DOMAIN s}

\* The first and the last element of a sequence that pass a test: what a search
\* finds, and what is left in a map built from the sequence.
FirstWith(s, Test(_)) ==
  LET hits == {i \in DOMAIN s : Test(s[i])}
  IN  IF hits = {} THEN None ELSE s[CHOOSE i \in hits : \A j \in hits : i <= j]
LastWith(s, Test(_)) ==
  LET hits == {i \in DOMAIN s : Test(s[i])}
  IN  IF hits = {} THEN None ELSE s[CHOOSE i \in hits : \A j \in hits : j <= i]
Found(results) == results \ {None}

(***************************************************************************)
(* Identities.  A purl is its type, name, version and what qualifies it     *)
(* (build and subdirectory, or where a package comes from); an id is a purl *)
(* and, after a merge, the numbers of the inputs it was copied from.        *)
(***************************************************************************)
Purl(type, name, version, rest) ==
  [type |-> type, name |-> name, version |-> version, rest |-> rest, copy |-> <<>>]

PypiPurl(name, version) ==
  Purl("pypi", Normalized(name), IF version = None THEN 0 ELSE version, None)

\* id_of of fromsbom.rs: what stands in for a purl.
NoType == "none"
StandIn(name, version) == Purl(NoType, Normalized(name), version, None)

GenericPurl(name, version, rest) == Purl("generic", name, version, rest)

\* with_version: a purl that states a version keeps it.
WithVersion(purl, version) ==
  IF purl.version = None /\ version # None THEN [purl EXCEPT !.version = version] ELSE purl

\* Where a package of a Python lock comes from: an index, a repository ("github"
\* or another "git") at a commit, if known, a URL, or a path, which uv calls
\* "virtual", "editable" or "directory".
IndexSource == [kind |-> "index", at |-> None]

Package(kind, name, version, purl) ==
  [id |-> purl, purl |-> purl, kind |-> kind, name |-> name, version |-> version,
   license |-> None, hash |-> None, yanked |-> FALSE, repository |-> None,
   extraPurls |-> {}, deps |-> {}, direct |-> FALSE, source |-> IndexSource,
   declaredIn |-> {}, extras |-> {}, via |-> {}, inputs |-> {}, conflict |-> {},
   installer |-> None, vendored |-> FALSE]

\* identify_pypi_source: only a package of an index is named after PyPI.
SourcePurl(p) ==
  IF p.source.kind \notin {"git", "github"}
  THEN GenericPurl(p.name, p.version, IF p.source.kind = "url" THEN p.source ELSE None)
  ELSE IF p.source.kind = "github" /\ p.source.at # None
       THEN Purl("github", p.name, None, [commit |-> p.source.at])
       ELSE Purl("pypi", Normalized(p.name), p.version, p.source)

IdentifySource(p) ==
  IF p.kind # "pypi" \/ p.source.kind = "index" THEN p
  ELSE [p EXCEPT !.id = SourcePurl(p), !.purl = SourcePurl(p)]

FromIndex(p) == p.kind = "pypi" /\ p.source.kind = "index"

(***************************************************************************)
(* What the readers of Python locks share (pylock.rs).  A wheel is          *)
(* [on, abi, hash]: the platforms it fits, and "none", "abi3" or the        *)
(* interpreter it is built for; one that fits all of them is universal if   *)
(* its abi is "none".                                                       *)
(***************************************************************************)
KnownPlatforms ==   \* platform_markers
  {"linux-64", "linux-aarch64", "linux-ppc64le", "osx-64", "osx-arm64", "win-64", "win-arm64"}

ChooseArtifact(wheels, sdist, platform, python) ==
  LET fitting == SelectSeq(wheels, LAMBDA w : platform \in w.on)
  IN  FirstWith(<<FirstWith(wheels, LAMBDA w : w.on = KnownPlatforms /\ w.abi = "none"),
                  FirstWith(fitting, LAMBDA w : w.abi = python),
                  FirstWith(fitting, LAMBDA w : w.abi = "abi3"),
                  FirstWith(fitting, LAMBDA w : TRUE),
                  sdist,
                  FirstWith(wheels, LAMBDA w : TRUE)>>, LAMBDA a : a # None)

\* The hash of what is installed: none for a checkout or a directory.
ArtifactHash(locked, platform, python) ==
  LET chosen == CASE locked.source.kind = "index" ->
                       ChooseArtifact(locked.wheels, locked.sdist, platform, python)
                  [] locked.source.kind \in {"path", "url"} -> locked.sdist
                  [] OTHER -> None
  IN  IF chosen = None THEN None ELSE chosen.hash

(***************************************************************************)
(* Documents.                                                               *)
(***************************************************************************)
Empty ==
  [root |-> [name |-> None, version |-> None], environment |-> "default",
   platform |-> None, packages |-> {}, excluded |-> {}, missing |-> {},
   incomplete |-> {}, declaredRoots |-> FALSE, scopes |-> <<>>,
   interpreter |-> None, unresolved |-> 0, error |-> None]

Failed(error) == [Empty EXCEPT !.error = error]

Ids(packages) == {p.id : p \in packages}
Deps(packages, id) == UNION {p.deps : p \in {q \in packages : q.id = id}}
DependedOn(packages) == UNION {p.deps : p \in packages}
Edges(packages) == UNION {{p.id} \X p.deps : p \in packages}

\* Everything the roots reach over a relation, themselves included: as many steps
\* as there are edges are enough.
Beyond(s, edges) == s \cup {e[2] : e \in {f \in edges : f[1] \in s}}
Reached(roots, edges) ==
  LET grow[n \in 0..Cardinality(edges)] == IF n = 0 THEN roots ELSE Beyond(grow[n - 1], edges)
  IN  grow[Cardinality(edges)]

\* top_level_ids: what the root component depends on.
TopLevel(sbom) ==
  LET direct == {p.id : p \in {q \in sbom.packages : q.direct}}
  IN  IF sbom.declaredRoots THEN direct
      ELSE direct \cup (Ids(sbom.packages) \ DependedOn(sbom.packages))

(***************************************************************************)
(* Extras: those asked of a package, the edges an extra gates with the      *)
(* labels of the extras, the same for the project's own extras, the edges   *)
(* of extras nobody asked for, and the packages held without any extra.     *)
(***************************************************************************)
NoExtras ==
  [requested |-> {}, gated |-> {}, project |-> {}, unrequested |-> {}, roots |-> None]

Label(name, extra) == [name |-> name, extra |-> extra]

Request(extras, id, asked) ==
  [extras EXCEPT !.requested = @ \cup ({id} \X asked)]
Gate(extras, from, to, label) ==
  [extras EXCEPT !.gated = @ \cup {<<from, to, label>>}]

\* Extras::apply, the first half: what is needed with every extra left out.
NeededWithoutExtras(extras, packages) ==
  LET ids == Ids(packages)
      closed == {<<g[1], g[2]>> : g \in extras.gated} \cup extras.unrequested
      roots == IF extras.roots = None
               THEN ids \ (DependedOn(packages) \cup {g[1] : g \in extras.project})
               ELSE extras.roots \cap ids
  IN  Reached(roots, Edges(packages) \ closed)

\* Extras::apply: a label goes to what its gate leads to, and on to whatever
\* that needs, unless it is needed without extras.
ApplyExtras(extras, packages) ==
  LET ids == Ids(packages)
      needed == NeededWithoutExtras(extras, packages)
      open == {e \in Edges(packages) : e[2] \notin needed}
      seeds == {g \in extras.project : g[1] \in ids \ needed}
                 \cup {<<g[2], g[3]>> : g \in {h \in extras.gated :
                                             h[2] \in ids \ needed /\ h[1] \in ids}}
      Via(id) == {s[2] : s \in {t \in seeds : id \in Reached({t[1]}, open)}}
  IN  {[p EXCEPT !.extras = {r[2] : r \in {q \in extras.requested : q[1] = p.id}},
                 !.via = Via(p.id)] : p \in packages}

(***************************************************************************)
(* Scopes (scope.rs).                                                       *)
(***************************************************************************)
\* Scope::from_category
CategoryScope(category) ==
  CASE category = "main" -> "required"
    [] category = "dev" -> "development"
    [] OTHER -> "optional"

\* Mutant: development comes first.
AssignDevelopmentFirst(packages, required, optional, development) ==
  LET In(roots) == Reached(roots \cap Ids(packages), Edges(packages)) \cap Ids(packages)
  IN  [id \in In(required) \cup In(optional) \cup In(development) |->
         CASE id \in In(development) -> "development" [] id \in In(optional) -> "optional"
           [] OTHER -> "required"]

\* assign: what required packages reach is required, and so on down.
AssignScopes(packages, required, optional, development) ==
  LET In(roots) == Reached(roots \cap Ids(packages), Edges(packages)) \cap Ids(packages)
      r == In(required)
      o == In(optional) \ r
      d == In(development) \ (r \cup o)
  IN  [id \in r \cup o \cup d |->
         IF id \in r THEN "required" ELSE IF id \in o THEN "optional" ELSE "development"]

\* crossing: the scope an edge leads into, None where it stays; from None is
\* the root component.
Crossing(scopes, from, to) ==
  IF to \notin DOMAIN scopes \/ (from # None /\ from \notin DOMAIN scopes) THEN None
  ELSE LET source == IF from = None THEN "required" ELSE scopes[from]
       IN  IF scopes[to] \notin {"required", source} THEN scopes[to] ELSE None
=============================================================================

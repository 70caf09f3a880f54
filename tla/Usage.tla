--------------------------------- MODULE Usage ---------------------------------
(***************************************************************************)
(* What the reports say of an environment: the interpreters its packages run*)
(* on (pyversion.rs), what the sources of the project import (imports.rs)   *)
(* and how that compares with what it declares (phantom.rs), the packages   *)
(* asked for, the tree of dependencies, and the files that changed          *)
(* (report.rs).                                                             *)
(***************************************************************************)
EXTENDS Installed

CONSTANTS
  Stdlib,      \* the modules Python comes with
  Skipped,     \* names of directories that are no source of the project
  Importable,  \* how the normalized names with a `-` in them are spelled in an import
  Unspeakable  \* names no import can spell

(***************************************************************************)
(* Requires-Python: a sequence of clauses [op, major, minor, patch], minor   *)
(* and patch None where they are left out or are a star.  An interpreter is  *)
(* known by <<major, minor>>.                                               *)
(***************************************************************************)
Older(v, w) == v[1] < w[1] \/ (v[1] = w[1] /\ v[2] < w[2])
OlderOf(v, w) == IF v = None \/ Older(w, v) THEN w ELSE v
NewerOf(v, w) == IF v = None \/ Older(v, w) THEN w ELSE v

\* PyVersion::parse
Parsed(clause) == <<clause.major, IF clause.minor = None THEN 0 ELSE clause.minor>>

\* Mutant: an upper bound is read as if it were included.
ClauseIncluded(r, clause) ==
  LET v == Parsed(clause)
  IN  CASE clause.op \in {">=", ">", "~="} -> [r EXCEPT !.lowest = NewerOf(@, v)]
        [] clause.op = "==" -> [r EXCEPT !.lowest = NewerOf(@, v), !.highest = v]
        [] clause.op \in {"<=", "<"} -> [r EXCEPT !.highest = OlderOf(@, v)]
        [] clause.op = "!=" -> [r EXCEPT !.excluded = @ \cup {v}]

\* One clause of a specifier; below a first minor there is no ceiling to name.
Clause(r, clause) ==
  LET v == Parsed(clause)
  IN  CASE clause.op \in {">=", ">", "~="} -> [r EXCEPT !.lowest = NewerOf(@, v)]
        [] clause.op = "==" -> [r EXCEPT !.lowest = NewerOf(@, v), !.highest = v]
        [] clause.op = "<=" -> [r EXCEPT !.highest = OlderOf(@, v)]
        [] clause.op = "<" /\ v[2] > 0 -> [r EXCEPT !.highest = OlderOf(@, <<v[1], v[2] - 1>>)]
        [] clause.op = "<" /\ v[2] = 0 -> r
        [] clause.op = "!=" -> [r EXCEPT !.excluded = @ \cup {v}]

PythonRequirement(specifier) ==
  FoldLeft(Clause, [lowest |-> None, highest |-> None, excluded |-> {}], specifier)

Allows(r, v) ==
  /\ r.lowest = None \/ ~ Older(v, r.lowest)
  /\ r.highest = None \/ ~ Older(r.highest, v)
  /\ v \notin r.excluded

\* rows
PythonRows(sbom) ==
  LET python == PythonOf(sbom)
      Row(p) ==
        LET r == PythonRequirement(p.requiresPython)
        IN  [package |-> p.id, name |-> p.name, requires |-> p.requiresPython,
             satisfied |-> p.requiresPython = None \/ python = None \/ Allows(r, python.minor),
             ceiling |-> IF p.requiresPython = None THEN None ELSE r.highest]
  IN  {Row(p) : p \in {q \in sbom.packages : q.kind = "pypi"}}

\* summarize
PythonSummary(sbom) ==
  LET rows == PythonRows(sbom)
      ceiling == FoldSet(LAMBDA row, low : IF row.ceiling = None THEN low ELSE OlderOf(low, row.ceiling),
                         None, rows)
  IN  [interpreter |-> PythonOf(sbom), ceiling |-> ceiling,
       blocking |-> {row.package : row \in {r \in rows : ceiling # None /\ r.ceiling = ceiling}},
       unsatisfied |-> {row.package : row \in {r \in rows : ~ r.satisfied}},
       unconstrained |-> {row.package : row \in {r \in rows : r.requires = None}}]

(***************************************************************************)
(* Imports.  A source file is [dir, stem, readable, lines], dir the names on *)
(* the way to it; a line is [quote, quotes, comment, continued, imports]: the        *)
(* delimiter it leaves open, or None, the delimiters it has, and the modules *)
(* its statement imports.                                                   *)
(***************************************************************************)
\* A line and the one its statement goes on with.
Joined(line, next) ==
  [next EXCEPT !.imports = line.imports \cup @, !.quotes = line.quotes \cup @, !.comment = FALSE]

\* modules_of, at one line: text is [open, pending, found].
ReadSource(text, raw) ==
  LET line == IF text.pending = None THEN raw ELSE Joined(text.pending, raw)
      read == [text EXCEPT !.pending = None]
  IN  CASE text.open # None -> [read EXCEPT !.open = IF @ \in line.quotes THEN None ELSE @]
        [] text.open = None /\ line.comment -> read
        [] text.open = None /\ ~ line.comment /\ line.quote # None -> [read EXCEPT !.open = line.quote]
        [] text.open = None /\ ~ line.comment /\ line.quote = None /\ line.continued ->
             [read EXCEPT !.pending = line]
        [] OTHER -> [read EXCEPT !.found = @ \cup line.imports]

ModulesOf(file) ==
  FoldLeft(ReadSource, [open |-> None, pending |-> None, found |-> {}], file.lines).found \ Unspeakable

\* Directories with an __init__.py.
PackageDirs(files) == {f.dir : f \in {g \in files : g.stem = "__init__"}}

\* scan; walk: what lies at the top, or beside no __init__.py, is the project's own.
Scan(files) ==
  LET reached == {f \in files : Values(f.dir) \cap Skipped = {}}
      inside == PackageDirs(reached) \ {<<>>}
      tops == {Last(d) : d \in {e \in PackageDirs(reached) \ {<<>>} : Front(e) \notin inside}}
      modules == {f.stem : f \in {g \in reached : g.dir \notin inside}}
      read == {f \in reached : f.readable}
  IN  [byModule |-> [m \in UNION {ModulesOf(f) : f \in read} |-> {f \in read : m \in ModulesOf(f)}],
       local |-> (tops \cup modules) \ Unspeakable, files |-> read]

(***************************************************************************)
(* What an environment's packages provide: pairs of a module and the name of *)
(* one that provides it.                                                    *)
(***************************************************************************)
\* top_level_modules; record_module: what is listed, else what was installed.
TopLevelModules(dist) == (IF dist.topLevel # {} THEN dist.topLevel ELSE dist.provides) \ Unspeakable

ProvidedBy(provided, name) == {pair[1] : pair \in {q \in provided : q[2] = Normalized(name)}}

ImportName(name) ==
  LET normal == Normalized(name)
  IN  IF normal \in DOMAIN Importable THEN Importable[normal] ELSE normal

\* modules: a Python package of which nothing is known provides its own name, as an
\* import spells it.
Provided(sbom, dists) ==
  LET read == UNION {TopLevelModules(d) \X {Normalized(d.name)} : d \in Values(dists)}
      silent == {p \in sbom.packages : p.kind = "pypi" /\ ProvidedBy(read, p.name) = {}}
  IN  read \cup {<<ImportName(p.name), Normalized(p.name)>> : p \in silent}

\* Of the packages of a name, but what another's SBOM lists, the last is meant.
Kinds == <<"conda", "conda-source", "pypi", "external">>
MeantBy(sbom, name) ==
  LET named == {p \in sbom.packages : p.kind # "embedded" /\ Normalized(p.name) = Normalized(name)}
      rank(p) == CHOOSE i \in DOMAIN Kinds : Kinds[i] = p.kind
  IN  CHOOSE p \in named : \A q \in named : rank(q) <= rank(p)

Imported(p, imports, provided) ==
  (ProvidedBy(provided, p.name) \cap DOMAIN imports.byModule) \ (Stdlib \cup imports.local)

PhantomsAmong(candidates, imports, provided) ==
  {[kind |-> "phantom", package |-> p.id, modules |-> Imported(p, imports, provided)] :
     p \in {q \in candidates : Imported(q, imports, provided) # {}}}

\* Mutant: only what nothing declared needs is looked for among the imports.
PhantomsUnneeded(sbom, imports, provided) ==
  PhantomsAmong({p \in sbom.packages : /\ p.kind # "embedded" /\ p = MeantBy(sbom, p.name) /\ ~ p.direct
                                        /\ \A q \in sbom.packages : q.direct => p.id \notin q.deps},
                imports, provided)

\* findings, the first part: imported, there, and declared nowhere.
Phantoms(sbom, imports, provided) ==
  PhantomsAmong({p \in sbom.packages : p.kind # "embedded" /\ p = MeantBy(sbom, p.name) /\ ~ p.direct},
                imports, provided)

DeclaresAnything(sbom) == \E p \in sbom.packages : p.direct

\* findings: the packages named in assumed are used whatever the sources say.
UsageFindings(sbom, imports, provided, assumed) ==
  LET phantoms == Phantoms(sbom, imports, provided)
      needed == UNION {p.deps : p \in sbom.packages}
      phantomNames == {p.name : p \in {q \in sbom.packages : \E f \in phantoms : f.package = q.id}}
      undeclared == {p \in sbom.packages : p.kind # "embedded" /\ ~ p.direct /\ p.id \notin needed
                                             /\ p.name \notin assumed \cup phantomNames}
      unused == {p \in sbom.packages : /\ p.direct /\ p.name \notin assumed
                                       /\ ProvidedBy(provided, p.name) # {}
                                       /\ ProvidedBy(provided, p.name) \cap DOMAIN imports.byModule = {}}
      Finding(kind, p) == [kind |-> kind, package |-> p.id, modules |-> ProvidedBy(provided, p.name)]
  IN  IF ~ DeclaresAnything(sbom) THEN {}
      ELSE phantoms \cup {Finding("undeclared", p) : p \in undeclared}
             \cup {Finding("unused", p) : p \in unused}

-------------------------------------------------------------------------------
\* The summary of a packages report; None where nothing is declared.
PackageSummary(sbom) ==
  LET direct == {p \in sbom.packages : p.declaredIn # {}}
  IN  IF direct = {} /\ sbom.missing = {} THEN None
      ELSE [direct |-> Ids(direct), missing |-> sbom.missing]

(***************************************************************************)
(* A tree is a sequence of [package, parent, depth, repeat]: each package is *)
(* expanded where it is met first, down to a depth if one is given.         *)
(***************************************************************************)
TreeRow(p, parent, depth, repeat) ==
  [package |-> p.id, parent |-> parent, depth |-> depth, repeat |-> repeat /\ p.deps # {}]

\* Mutant: a package is not listed again where a second one needs it.
RECURSIVE WalkOnce(_, _, _, _, _, _)
WalkOnce(packages, id, parent, depth, limit, walk) ==
  LET p == CHOOSE q \in packages : q.id = id
      met == [rows |-> Append(walk.rows, TreeRow(p, parent, depth, FALSE)), expanded |-> walk.expanded \cup {id}]
      Below(w, d) == WalkOnce(packages, d, id, depth + 1, limit, w)
  IN  CASE id \in walk.expanded -> walk
        [] id \notin walk.expanded /\ (limit # None /\ depth = limit) -> met
        [] OTHER -> FoldLeft(Below, met, SetToSeq(p.deps \cap Ids(packages)))

\* walk_tree
RECURSIVE WalkTree(_, _, _, _, _, _)
WalkTree(packages, id, parent, depth, limit, walk) ==
  LET p == CHOOSE q \in packages : q.id = id
      repeat == id \in walk.expanded
      met == [rows |-> Append(walk.rows, TreeRow(p, parent, depth, repeat)), expanded |-> walk.expanded \cup {id}]
      Below(w, d) == WalkTree(packages, d, id, depth + 1, limit, w)
  IN  IF repeat \/ (limit # None /\ depth = limit) THEN met
      ELSE FoldLeft(Below, met, SetToSeq(p.deps \cap Ids(packages)))

\* as_tree
Tree(sbom, limit) ==
  FoldLeft(LAMBDA walk, id : WalkTree(sbom.packages, id, None, 0, limit, walk),
           [rows |-> <<>>, expanded |-> {}], SetToSeq(TopLevel(sbom))).rows

(***************************************************************************)
(* Files.                                                                   *)
(***************************************************************************)
\* file_rows
FileRows(packages) ==
  LET verified == {p \in packages : p.verified # None}
      Sum(Of(_)) == FoldSet(LAMBDA p, n : n + Cardinality(Of(p)), 0, verified)
  IN  [rows |-> ChangedFiles(verified), packages |-> Cardinality(verified),
       verified |-> Sum(LAMBDA p : p.verified.checked),
       modified |-> Sum(LAMBDA p : p.verified.modified), missing |-> Sum(LAMBDA p : p.verified.missing),
       bytecode |-> Sum(LAMBDA p : p.verified.bytecode),
       unverified |-> Cardinality(packages \ verified)]
===============================================================================

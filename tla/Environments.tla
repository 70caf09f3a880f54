------------------------------ MODULE Environments ------------------------------
(***************************************************************************)
(* What becomes of an installed environment (main.rs): it is read, filtered, *)
(* completed with what else is installed in it and with what its wheels and  *)
(* binaries say they were built from, and reported on or written.           *)
(*                                                                         *)
(* A job is [env, platform, filter, inferExtras, verify, embedded, wheels,   *)
(* r, sources, assumed, report, depth]; see Installed for env, wheels and r, *)
(* Usage for sources.                                                       *)
(***************************************************************************)
EXTENDS Usage, Composition

CONSTANTS Jobs

VARIABLES
  job,      \* what is asked
  env,      \* the environment, its records as the directory lists them
  stage,    \* how far the run is
  sbom,     \* the document, as far as it is
  read,     \* the document as it was read
  changed,  \* what --verify-files holds against it
  output    \* the report, or the document as written

vars == <<job, env, stage, sbom, read, changed, output>>

\* The orders a directory may list its entries in.
Orders(n) == {f \in [1..n -> 1..n] : IsInjective(f)}

Init ==
  /\ job \in Jobs
  /\ \E order \in Orders(Len(job.env.records)) :
       env = [job.env EXCEPT !.records = [i \in 1..Len(@) |-> @[order[i]]]]
  /\ stage = "asked"
  /\ sbom = None /\ read = None /\ changed = {} /\ output = None

\* model_for, for a prefix.
ReadEnvironment ==
  /\ stage = "asked"
  /\ sbom' = LET built == BuildSbom(env, job.platform)
             IN  IF job.inferExtras /\ built.error = None THEN InferExtras(env, built) ELSE built
  /\ read' = sbom'
  /\ stage' = IF sbom'.error = None THEN "read" ELSE "failed"
  /\ UNCHANGED <<job, env, changed, output>>

FilterPackages ==
  /\ stage = "read"
  /\ sbom' = ApplyFilter(job.filter, sbom)
  /\ stage' = "filtered"
  /\ UNCHANGED <<job, env, read, changed, output>>

\* What changes the packages and nothing else.
Becomes(from, to, packages) ==
  /\ stage = from
  /\ sbom' = [sbom EXCEPT !.packages = packages]
  /\ stage' = to
  /\ UNCHANGED <<job, env, read, changed, output>>

NamePackages ==
  Becomes("filtered", "named", IdentifyCran(job.r, sbom.packages))

AttachPackages ==
  Becomes("named", IF job.verify THEN "verifying" ELSE "attached", AttachNpm(env, sbom.packages))

VerifyFiles ==
  /\ stage = "verifying"
  /\ sbom' = [sbom EXCEPT !.packages = Verify(env, @)]
  /\ changed' = ChangedFiles(sbom'.packages)
  /\ stage' = "attached"
  /\ UNCHANGED <<job, env, read, output>>

\* enrich, of an environment.
EnrichWheels ==
  /\ job.embedded
  /\ Becomes("attached", "wheels read", EnrichEmbedded(job.wheels, sbom.packages))
EnrichBinaries ==
  Becomes("wheels read", "binaries read", EnrichGo(env, EnrichCrates(env, sbom.packages)))
EnrichCopies ==
  Becomes("binaries read", "enriched", AttachVendored(env, sbom.packages))

Enriched == stage = "enriched" \/ (stage = "attached" /\ ~ job.embedded)

\* A report is made of the document as it is, and nothing is written.
Report ==
  /\ Enriched /\ job.report # None
  /\ output' =
       LET imports == Scan(job.sources)
           provided == Provided(sbom, env.dists)
       IN  CASE job.report = "packages" -> [summary |-> PackageSummary(sbom), tree |-> Tree(sbom, job.depth)]
             [] job.report = "files" -> FileRows(sbom.packages)
             [] job.report = "python" -> [rows |-> PythonRows(sbom), summary |-> PythonSummary(sbom)]
             [] job.report = "phantom" -> [imports |-> imports,
                                           findings |-> UsageFindings(sbom, imports, provided, job.assumed)]
  /\ stage' = "reported"
  /\ UNCHANGED <<job, env, sbom, read, changed>>

WriteDocument ==
  /\ Enriched /\ job.report = None
  /\ sbom' = MakePortable(sbom)
  /\ output' = sbom'
  /\ stage' = "written"
  /\ UNCHANGED <<job, env, read, changed>>

Next ==
  \/ ReadEnvironment \/ FilterPackages \/ NamePackages \/ AttachPackages \/ VerifyFiles
  \/ EnrichWheels \/ EnrichBinaries \/ EnrichCopies \/ Report \/ WriteDocument

Spec == Init /\ [][Next]_vars

-------------------------------------------------------------------------------
Ended == stage \in {"reported", "written"}
Reported(kind) == stage = "reported" /\ job.report = kind
Readable == {d \in Values(env.dists) : d.readable}

(***************************************************************************)
(* Every release the environment has is in the document, and once: each     *)
(* conda record is a package, and each dist-info directory is a package's    *)
(* own or, for the first of a record's, a name of that record's package.     *)
(* The extras inferred for a package are ones all of whose needs are there.  *)
(***************************************************************************)
ReleasesAreListed ==
  LET packages == read.packages
      conda == Layout(env) = "conda"
      First(r) == IF r.dists = <<>> THEN None ELSE Head(r.dists)
      claimed == IF conda THEN {First(r) : r \in Values(env.records)} ELSE {}
      Purls(p) == {p.purl} \cup p.extraPurls
      Release(d) == PypiPurl(d.name, d.version)
      Listing(d) == {p \in packages : (Release(d) \in Purls(p) \/ (p.kind = "pypi" /\ p.name = d.name))}
      names == {Normalized(p.name) : p \in packages}
  IN  stage = "read" =>
        /\ \A d \in Readable : (conda /\ d.installer = "conda" => d.at \in claimed) => Listing(d) # {}
        /\ \A d \in Readable : Cardinality({p \in Listing(d) : p.kind = "pypi"}) = IF InstalledByConda(env, d) THEN 0 ELSE 1
        /\ conda => \A r \in Values(env.records) :
             Cardinality({p \in packages : p.kind = "conda" /\ p.name = r.name /\ p.version = r.version}) = 1
        /\ \A p \in {q \in packages : q.inferred} : \A x \in p.extras :
             \E d \in Readable : Normalized(d.name) = Normalized(p.name) /\ d.optional[x] \subseteq names

(***************************************************************************)
(* What is installed beside the packages hangs together as it is loaded: an  *)
(* npm package is linked to the copy of each dependency that Node finds,     *)
(* going up from its own directory; every component found in a binary of a  *)
(* listed package, or kept by one as a copy, is reached from it; and no      *)
(* crate that only a build needed is listed.                                *)
(***************************************************************************)
CratesOf(b, used) ==
  IF b \notin DOMAIN env.binaries \/ env.binaries[b].crates = None THEN {}
  ELSE {CratePurl(c) : c \in {d \in Values(env.binaries[b].crates) : d.runtime \in used}}
GoOf(b) == IF env.binaries[b].go = None THEN {} ELSE {GoPurl(m) : m \in GoModules(env.binaries[b].go)}

ComponentsHangTogether ==
  LET packages == sbom.packages
      Copies(d, n) == {e \in NpmInstalled(env) : Last(e) = n /\ IsPrefix(Front(e), d)}
      Nearest(d, n) == CHOOSE e \in Copies(d, n) : \A f \in Copies(d, n) : Len(f) <= Len(e)
      From(p) == Reached({p.id}, Edges(packages))
      Keeps(p, top) == \/ p.kind = "conda" /\ \E r \in Values(env.records) : r.name = p.name /\ top \in r.tops
                       \/ p.kind = "pypi" /\ \E d \in Readable : d.name = p.name /\ top \in d.tops
      everyCrate == UNION {CratesOf(b, {TRUE}) : b \in DOMAIN env.binaries}
      buildOnly == UNION {CratesOf(b, {FALSE}) : b \in DOMAIN env.binaries} \ everyCrate
  IN  /\ stage \in {"attached", "enriched"} =>
           \A d \in NpmInstalled(env) : \A n \in env.npm[d].needs :
             Copies(d, n) # {} /\ NpmPurl(env.npm[Nearest(d, n)]) # NpmPurl(env.npm[d])
               => NpmPurl(env.npm[Nearest(d, n)]) \in Deps(packages, NpmPurl(env.npm[d]))
      /\ stage = "enriched" =>
           /\ \A p \in packages : \A b \in BinariesOf(env, p) :
                CratesOf(b, {TRUE}) \cup GoOf(b) \subseteq From(p)
           /\ \A top \in DOMAIN env.vendored :
                LET keepers == {p \in packages : Keeps(p, top)}
                IN  keepers # {} =>
                      \E p \in keepers : {VendoredPurl(v) : v \in env.vendored[top]} \subseteq From(p)
           /\ Ids(packages) \cap buildOnly = {}

(***************************************************************************)
(* Of an environment named by an absolute path, the document says nothing    *)
(* of where on the machine it or its cache is, in whatever field: where a    *)
(* package lies, what it was installed from, its purl, where it was unpacked.*)
(* A directory it was installed from is named only within the project.  A    *)
(* checkout of a repository on the machine is an exception: its location and *)
(* its purl keep the repository's URL, see NoPlaceIsNamed.                   *)
(***************************************************************************)
OnTheMachine(url) == url # None /\ url.kind = "file"
FromCheckout(p) == p.location # None /\ p.location.kind = "vcs"
PlacedBy(p) ==
  (IF OnTheMachine(p.location) \/ (FromCheckout(p) /\ OnTheMachine(p.location.url)) THEN {"location"} ELSE {})
    \cup (IF OnTheMachine(p.directUrl) THEN {"direct-url"} ELSE {})
    \cup (IF p.source.kind = "git" /\ p.source \in {p.id.rest, p.purl.rest} /\ OnTheMachine(p.source.at.url)
          THEN {"purl"} ELSE {})
    \cup (IF p.extracted # None /\ p.extracted.cache # None THEN {"extracted"} ELSE {})

DocumentNamesNoPlace ==
  stage = "written" /\ env.given = "absolute" =>
    \A p \in output.packages :
      PlacedBy(p) \subseteq IF FromCheckout(p) /\ OnTheMachine(p.location.url) THEN {"location", "purl"} ELSE {}

\* "Nothing in the document says where on the machine the environment or the package
\* cache is: the same environment at two paths, or on two machines, gives the same
\* document" (docs/output-format.md): the same without the exception.
NoPlaceIsNamed ==
  stage = "written" /\ env.given = "absolute" => \A p \in output.packages : PlacedBy(p) = {}

(***************************************************************************)
(* What the sources use is compared with what is declared: a package that is *)
(* not declared is a phantom exactly if a source imports what it provides    *)
(* and neither Python nor the project does, whoever else needs it; one that  *)
(* nothing needs or imports is said to be undeclared; one that is declared   *)
(* and imported is not mentioned; and no package is mentioned twice.         *)
(***************************************************************************)
UsageIsExact ==
  LET modules == Provided(sbom, env.dists)
      findings == output.findings
      Of(p) == {f.kind : f \in {g \in findings : g.package = p.id}}
      Used(p) == \E pair \in modules :
                   /\ pair[2] = Normalized(p.name)
                   /\ pair[1] \notin Stdlib \cup output.imports.local
                   /\ \E f \in job.sources : pair[1] \in ModulesOf(f) /\ f \in output.imports.files
      own == {p \in sbom.packages : p.kind # "embedded" /\ p = MeantBy(sbom, p.name)}
  IN  Reported("phantom") /\ (\E p \in sbom.packages : p.direct) =>
        /\ \A p \in sbom.packages : Cardinality(Of(p)) <= 1
        /\ \A p \in own : ~ p.direct => ("phantom" \in Of(p) <=> Used(p))
        /\ \A p \in own : p.direct /\ Used(p) => Of(p) = {}
        /\ \A p \in own : ~ p.direct /\ p.name \notin job.assumed /\ p.id \notin DependedOn(sbom.packages)
                             => Of(p) # {}

(***************************************************************************)
(* Which Python the packages allow, release by release: a Python package is  *)
(* unsatisfied exactly if no patch release of the interpreter's minor        *)
(* version fulfils all of its Requires-Python; what blocks permits nothing   *)
(* above the ceiling, and the ceiling itself if it does not exclude it by    *)
(* name; and what does not block permits a later one, or excludes it by      *)
(* name.  This is of specifiers that some Python 3 fulfils and that can be   *)
(* read by the minor version: no clause forbids a patch release alone, a     *)
(* bound on the major version is a floor or the end of Python 3; the rest,   *)
(* and a ceiling that is excluded by name, are in the two properties below.  *)
(***************************************************************************)
Given(clause) == IF clause.minor = None THEN 1 ELSE IF clause.patch = None THEN 2 ELSE 3
Fulfils(release, clause) ==
  LET zero(n) == IF n = None THEN 0 ELSE n
      at == <<clause.major, zero(clause.minor), zero(clause.patch)>>
      Before(v, w) == \E n \in 1..3 : v[n] < w[n] /\ \A m \in 1..n - 1 : v[m] = w[m]
      Within(length) == \A n \in 1..length : release[n] = at[n]
  IN  CASE clause.op = ">=" -> ~ Before(release, at)
        [] clause.op = ">" -> Before(at, release)
        [] clause.op = "<=" -> ~ Before(at, release)
        [] clause.op = "<" -> Before(release, at)
        [] clause.op = "==" -> Within(Given(clause))
        [] clause.op = "!=" -> ~ Within(Given(clause))
        [] clause.op = "~=" -> ~ Before(release, at) /\ Within(Given(clause) - 1)

Minors == 0..15
Patches == 0..9
Permits(p, minor) ==
  \E patch \in Patches : \A clause \in Values(p.requiresPython) : Fulfils(Append(minor, patch), clause)
ExcludedByName(p, minor) ==
  \E clause \in Values(p.requiresPython) :
    clause.op = "!=" /\ \A patch \in Patches : ~ Fulfils(Append(minor, patch), clause)
ByMinor(specifier) ==
  \A clause \in Values(specifier) :
    /\ clause.minor = None => clause.op = ">=" \/ (clause.op = "<" /\ clause.major > 3)
    /\ clause.op \in {"<", "!=", "~="} => clause.patch = None
Constrained == {p \in sbom.packages : p.kind = "pypi" /\ p.requiresPython # None}

PythonIsExact ==
  LET asked == {p \in Constrained : ByMinor(p.requiresPython) /\ \E m \in Minors : Permits(p, <<3, m>>)}
      ceiling == output.summary.ceiling
      Above == IF ceiling = None THEN {15} ELSE {m \in Minors : m > ceiling[2]}
  IN  Reported("python") =>
        \A p \in asked :
          /\ PythonOf(sbom) # None =>
               (p.id \in output.summary.unsatisfied <=> ~ Permits(p, PythonOf(sbom).minor))
          /\ p.id \in output.summary.blocking =>
               /\ Permits(p, ceiling) \/ ExcludedByName(p, ceiling)
               /\ \A m \in Above : ~ Permits(p, <<3, m>>)
          /\ p.id \notin output.summary.blocking =>
               \E m \in Above : Permits(p, <<3, m>>) \/ ExcludedByName(p, <<3, m>>)

\* "the highest Python the environment could move to without dropping a package"
\* (docs/cli.md): every package permits the ceiling.
CeilingIsPermitted ==
  Reported("python") /\ output.summary.ceiling # None =>
    \A p \in Constrained : Permits(p, output.summary.ceiling)

\* "which packages the current interpreter does not satisfy" (docs/cli.md): a package
\* is not among them if the interpreter, to its patch level, fulfils all it asks.
InterpreterIsJudged ==
  LET python == PythonOf(sbom)
  IN  Reported("python") /\ python # None /\ python.patch # None =>
        \A p \in Constrained :
          (\A clause \in Values(p.requiresPython) : Fulfils(Append(python.minor, python.patch), clause))
            => p.id \notin output.summary.unsatisfied

(***************************************************************************)
(* A tree shows all there is below what is asked for: every package that is  *)
(* reached, expanded once, and every edge, each row below its parent's; and  *)
(* --depth leaves nothing deeper.  The files report and the gate name every  *)
(* file of a listed package that is not as its record says, and no other: a  *)
(* file conda rewrote is held against what it was rewritten to.  A path with *)
(* a comma and a space in it is told apart only as pieces, which stay with   *)
(* its package: such a package is named if a file of it changed.             *)
(***************************************************************************)
TreeIsWhole(rows, limit) ==
  LET Parent(i) == LastWith(SubSeq(rows, 1, i - 1), LAMBDA r : r.depth = rows[i].depth - 1)
      below == Reached(TopLevel(sbom), Edges(sbom.packages)) \cap Ids(sbom.packages)
  IN  /\ \A i \in DOMAIN rows : rows[i].depth > 0 => Parent(i).package = rows[i].parent
      /\ limit # None => \A i \in DOMAIN rows : rows[i].depth <= limit
      /\ limit = None =>
           /\ {r.package : r \in Values(rows)} = below
           /\ \A p \in {q \in sbom.packages : q.id \in below} :
                {<<r.parent, r.package>> : r \in {s \in Values(rows) : s.parent = p.id}}
                  = {p.id} \X (p.deps \cap Ids(sbom.packages))

FilesAreJudged(changes) ==
  LET Due(path) == IF path.prefixHash # None THEN path.prefixHash ELSE path.hash
      there == DOMAIN env.files
      Wrong(path) == /\ ~ path.bytecode
                     /\ \/ path.at \notin there /\ (path.type = "file" => Due(path) # None)
                        \/ /\ path.type = "file" /\ path.at \in there
                           /\ Due(path) # None /\ env.files[path.at] # Due(path)
      records == {r \in Values(env.records) :
                    \E p \in sbom.packages : p.kind = "conda" /\ p.name = r.name /\ p.version = r.version}
      wrong == UNION {{<<r.name, path.at>> : path \in {q \in r.paths : Wrong(q)}} : r \in records}
      named == {<<c[1], c[3]>> : c \in changes}
      broken == UNION {Pieces[at] : at \in DOMAIN Pieces}
  IN  /\ {c \in named : c[2] \notin broken} = {w \in wrong : w[2] \notin DOMAIN Pieces}
      /\ {c[1] : c \in named} = {w[1] : w \in wrong}

ListingsAreWhole ==
  /\ Reported("packages") => TreeIsWhole(output.tree, job.depth)
  /\ Ended /\ job.verify => FilesAreJudged(changed)
  /\ Reported("files") => output.rows = changed
===============================================================================

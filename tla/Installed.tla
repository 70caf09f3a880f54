------------------------------ MODULE Installed ------------------------------
(***************************************************************************)
(* An installed environment as a document (prefix.rs), and what is attached *)
(* to it: npm packages, crates, Go modules, R libraries and the SBOMs of    *)
(* wheels (npm.rs, auditable.rs, gobuild.rs, cran.rs, embedded.rs).         *)
(*                                                                         *)
(* An environment is what the program finds in its directory:               *)
(*   condaMeta, venv, site   the directories and files that tell its layout *)
(*   history   the specs asked for and removed, in order: [add, names]      *)
(*   records   the conda records in the order the directory lists them      *)
(*   dists     the dist-info directories, by path                           *)
(*   python    the interpreter: [config, lib, patch], each None or not      *)
(*   objects   the platform of its first compiled file, or None             *)
(*   windows   whether it has a Lib\site-packages                           *)
(*   given     how it was named: an "absolute" path or a "relative" one     *)
(* with what other modules read in it.                                      *)
(***************************************************************************)
EXTENDS Sboms

CONSTANTS
  Cran,     \* data/cran.toml: [renamed, notCran]
  Pieces    \* what is read back of the paths that have a `, ` in them

\* Beside what a reader of locks knows of a package: where it was unpacked, the
\* URL it was installed from, how its PyPI name is known, the files it was found
\* in, and what is said of the files it has.
InstalledPackage(kind, name, version, purl) ==
  [location |-> None, extracted |-> None, directUrl |-> None, identity |-> None,
   from |-> {}, requiresPython |-> None, inferred |-> FALSE, verified |-> None,
   channel |-> None, interpreter |-> FALSE, build |-> None, cranFrom |-> None,
   licenseFrom |-> None]
    @@ Package(kind, name, version, purl)

\* layout; None is no environment.
Layout(env) ==
  CASE env.condaMeta -> "conda"
    [] ~ env.condaMeta /\ env.venv -> "venv"
    [] ~ env.condaMeta /\ ~ env.venv /\ env.site -> "python"
    [] OTHER -> None

\* requested_conda: what was asked for and not removed since.
Requested(history) ==
  FoldLeft(LAMBDA asked, line : IF line.add THEN asked \cup line.names ELSE asked \ line.names,
           {}, history)

\* mark_requested
MarkRequested(p) == [p EXCEPT !.direct = TRUE, !.declaredIn = {"requested"}]

\* interpreter: what pyvenv.cfg says, else the library's, with its patch level if
\* the headers are there and are this version's.
Interpreter(env) ==
  CASE env.python.config # None -> env.python.config
    [] env.python.config = None /\ env.python.patch # None
         /\ env.python.patch.minor = env.python.lib -> env.python.patch
    [] env.python.config = None /\ env.python.lib # None
         /\ (env.python.patch = None \/ env.python.patch.minor # env.python.lib) ->
         [minor |-> env.python.lib, patch |-> None]
    [] OTHER -> None

(***************************************************************************)
(* The platform of an environment nobody names one for.                     *)
(***************************************************************************)
\* tag_platform; a wheel for every macOS says nothing of this one.
TagPlatform(tag) ==
  CASE tag.os = "linux" -> IF tag.arch = "arm" THEN "linux-aarch64" ELSE "linux-64"
    [] tag.os = "macosx" /\ tag.arch # "universal" -> IF tag.arch = "arm" THEN "osx-arm64" ELSE "osx-64"
    [] tag.os = "win" -> IF tag.arch = "arm" THEN "win-arm64" ELSE "win-64"
    [] OTHER -> None

\* Of the platforms counted, the most frequent; the last of several.
PlatformNames == <<"linux-64", "linux-aarch64", "osx-64", "osx-arm64", "win-64", "win-arm64">>
MostFrequent(counted) ==
  LET Count(p) == Cardinality({c \in counted : c[2] = p})
      order == PlatformNames
      Beats(i, j) == Count(order[i]) > Count(order[j]) \/ (Count(order[i]) = Count(order[j]) /\ i > j)
      best == CHOOSE i \in DOMAIN order : \A j \in DOMAIN order \ {i} : Beats(i, j)
  IN  IF counted = {} THEN None ELSE order[best]

\* wheel_platform
WheelPlatform(env) ==
  MostFrequent(UNION {{i} \X Found({TagPlatform(t) : t \in env.dists[i].tags}) : i \in DOMAIN env.dists})

SubdirPlatform(records) ==
  MostFrequent({<<i, records[i].subdir>> : i \in {j \in DOMAIN records : records[j].subdir # "noarch"}})

PlatformOf(env, given) ==
  FirstWith(<<given,
              IF Layout(env) = "conda" THEN SubdirPlatform(env.records) ELSE None,
              env.objects,
              WheelPlatform(env),
              IF env.windows THEN "win-64" ELSE None>>,
            LAMBDA p : p # None)

(***************************************************************************)
(* Packages.  A record is [name, version, build, subdir, channel, license,  *)
(* extracted, needs, dists, tops, modules, binaries, paths, readable]: the  *)
(* dist-info directories, directories of site-packages, npm packages and    *)
(* binaries among its files.  A dist-info is [at, name, version, installer, *)
(* readable, asked, direct, needs, optional, tops, provides, tags,          *)
(* requiresPython, license].                                                *)
(***************************************************************************)
DistAt(env, at) == FirstWith(env.dists, LAMBDA d : d.at = at)

\* installed_pypi_identity: the first of a record's dist-info directories.
DistInfoOf(env, record) ==
  LET d == IF record.dists = <<>> THEN None ELSE DistAt(env, Head(record.dists))
  IN  IF d = None \/ ~ d.readable THEN None ELSE d

\* conda_package, with the name PyPI has for it.
CondaPackage(env, record) ==
  LET purl == Purl("conda", record.name, record.version, [build |-> record.build])
      bare == [InstalledPackage("conda", record.name, record.version, purl) EXCEPT
                 !.license = record.license, !.channel = record.channel, !.build = record.build,
                 !.location = [kind |-> "channel"], !.extracted = record.extracted]
      dist == DistInfoOf(env, record)
      known == IF dist = None THEN bare
               ELSE [bare EXCEPT !.extraPurls = {PypiPurl(dist.name, dist.version)},
                                 !.identity = "dist-info"]
  IN  IF record.name \in Requested(env.history) THEN MarkRequested(known) ELSE known

\* Mutant: conda's own packages are left out of every layout.
SkipInstalledByConda(env, dist) == dist.installer = "conda"

\* conda lists its Python packages in its records.
InstalledByConda(env, dist) == Layout(env) = "conda" /\ dist.installer = "conda"

\* A URL: "github" is one of its repositories there, "file" a place on the machine.
UrlOf(direct) == [kind |-> direct.kind, at |-> direct.at]

\* pypi_package: `git+` and the URL of a checkout, else the dist-info directory; where
\* the environment is given relatively, so is the location.
DistLocation(env, dist) ==
  IF dist.direct # None /\ dist.direct.vcs THEN [kind |-> "vcs", url |-> UrlOf(dist.direct)]
  ELSE [kind |-> "file", at |-> IF env.given = "absolute" THEN "environment" ELSE "nowhere"]

\* What identify_pypi_source finds in direct_url.json.
DistSource(direct) ==
  CASE direct = None -> IndexSource
    [] direct # None /\ direct.vcs /\ direct.kind = "github" /\ direct.commit # None ->
         [kind |-> "github", at |-> direct.commit]
    [] direct # None /\ direct.vcs /\ (direct.kind # "github" \/ direct.commit = None) ->
         [kind |-> "git", at |-> [url |-> UrlOf(direct), commit |-> direct.commit]]
    [] direct # None /\ ~ direct.vcs /\ direct.kind = "file" -> [kind |-> "directory", at |-> direct.at]
    [] OTHER -> [kind |-> "url", at |-> direct.at]
PypiPackage(env, dist) ==
  LET p == [InstalledPackage("pypi", dist.name, dist.version, PypiPurl(dist.name, dist.version)) EXCEPT
              !.location = DistLocation(env, dist), !.installer = dist.installer,
              !.directUrl = dist.direct, !.requiresPython = dist.requiresPython,
              !.license = dist.license, !.source = DistSource(dist.direct)]
  IN  IF dist.asked THEN MarkRequested(IdentifySource(p)) ELSE IdentifySource(p)

\* The interpreter of a plain installation, which no package is.
PythonVersion(python) == <<python.minor, python.patch>>
PythonPackage(python) ==
  [InstalledPackage("external", "python", PythonVersion(python),
                    GenericPurl("python", PythonVersion(python), None)) EXCEPT !.interpreter = TRUE]

\* link_dependencies: entries are [package, conda, needs], in the order they were
\* read; of several packages of a name the last is meant, and what PyPI needs is
\* a Python package before it is another; every Python package needs python.
LinkDependencies(entries) ==
  LET Named(name, pypi) ==
        LastWith(entries, LAMBDA e : (e.package.kind = "pypi") = pypi
                                       /\ Normalized(e.package.name) = Normalized(name))
      Meant(e, name) == IF e.conda \/ Named(name, TRUE) = None THEN Named(name, FALSE)
                        ELSE Named(name, TRUE)
      Needed(e) == Found({Meant(e, name) : name \in e.needs}
                           \cup (IF e.conda THEN {} ELSE {Named("python", FALSE)}))
  IN  {[e.package EXCEPT !.deps = {d.package.id : d \in Needed(e)} \ {e.package.id}] : e \in Values(entries)}

\* build_sbom
BuildSbom(env, given) ==
  LET records == IF Layout(env) = "conda" THEN env.records ELSE <<>>
      listed == SelectSeq(env.dists, LAMBDA d : d.readable /\ ~ InstalledByConda(env, d))
      conda == [i \in DOMAIN records |->
                  [package |-> CondaPackage(env, records[i]), conda |-> TRUE, needs |-> records[i].needs]]
      pypi == [i \in DOMAIN listed |->
                 [package |-> PypiPackage(env, listed[i]), conda |-> FALSE, needs |-> listed[i].needs]]
      own == IF Layout(env) = "python" /\ Interpreter(env) # None
             THEN <<[package |-> PythonPackage(Interpreter(env)), conda |-> FALSE, needs |-> {}]>> ELSE <<>>
      packages == LinkDependencies(conda \o pypi \o own)
  IN  CASE Layout(env) = None -> Failed("not an environment")
        [] Layout(env) = "conda" /\ \E r \in Values(env.records) : ~ r.readable -> Failed("record")
        [] OTHER -> [Empty EXCEPT
                       !.packages = packages, !.platform = PlatformOf(env, given),
                       !.declaredRoots = \E p \in packages : p.direct,
                       !.interpreter = IF Layout(env) = "conda" THEN None ELSE Interpreter(env)]

(***************************************************************************)
(* Extras somebody may have asked for: an extra of a distribution is a      *)
(* function to the names it needs beyond what is needed anyway.             *)
(***************************************************************************)
\* pyversion.rs, interpreter: the document's python, else its environment's.
PythonOf(sbom) ==
  LET python == {p \in sbom.packages : p.name = "python" /\ p.kind # "pypi"}
  IN  IF python = {} THEN sbom.interpreter
      ELSE LET p == CHOOSE p \in python : TRUE
           IN  [minor |-> p.version[1], patch |-> p.version[2]]

ActiveExtras(dist, installed) ==
  {x \in DOMAIN dist.optional : dist.optional[x] # {} /\ dist.optional[x] \subseteq installed}

\* infer_extras: what the last dist-info of a name says.
InferExtras(env, sbom) ==
  LET installed == {Normalized(p.name) : p \in sbom.packages}
      Of(p) == LastWith(env.dists, LAMBDA d : d.readable /\ Normalized(d.name) = Normalized(p.name)
                                                /\ ActiveExtras(d, installed) # {})
  IN  IF PythonOf(sbom) = None THEN sbom
      ELSE [sbom EXCEPT !.packages =
             {IF p.kind = "pypi" /\ Of(p) # None /\ p.extras = {}
              THEN [p EXCEPT !.extras = ActiveExtras(Of(p), installed), !.inferred = TRUE] ELSE p :
                p \in sbom.packages}]

\* Mutant: whatever a package was installed from is written as it is.
MakeProjectPortable(sbom) ==
  [sbom EXCEPT !.packages =
     {[p EXCEPT !.location = IF @ # None /\ @.kind = "file" THEN None ELSE @,
                !.directUrl = IF @ # None /\ @.kind = "file" /\ @.at = "project" THEN [@ EXCEPT !.kind = "relative"] ELSE @,
                !.extracted = IF @ = None THEN None ELSE [@ EXCEPT !.cache = None]] : p \in @}]

\* make_portable: nothing says where the environment is; a directory of the
\* project it was installed from is written as the project's.
MakePortable(sbom) ==
  LET Placeless(p) ==
        [p EXCEPT
           !.location = IF @ # None /\ @.kind = "file" /\ @.at = "environment" THEN None ELSE @,
           !.directUrl = CASE @ # None /\ @.kind = "file" /\ @.at = "project" -> [@ EXCEPT !.kind = "relative"]
                           [] @ # None /\ @.kind = "file" /\ @.at # "project" -> None
                           [] OTHER -> @,
           !.extracted = IF @ = None THEN None ELSE [@ EXCEPT !.cache = None]]
  IN  [sbom EXCEPT !.packages = {Placeless(p) : p \in @}]

(***************************************************************************)
(* What an installed environment holds beside its packages: the npm         *)
(* packages of its node_modules (npm.rs), the crates and Go modules its      *)
(* binaries were built from (auditable.rs, gobuild.rs), the distributions a *)
(* package keeps a copy of (prefix.rs), what the SBOMs in its wheels list   *)
(* (embedded.rs); and what is found out of its files: the CRAN names of R    *)
(* packages (cran.rs) and which files changed (verify.rs).                  *)
(*                                                                         *)
(* A component of another's is a package of kind "embedded"; a release that *)
(* is found in several places is one package, found in all of them.         *)
(***************************************************************************)

Component(name, version, id, place) ==
  [InstalledPackage("embedded", name, version, id) EXCEPT !.from = {place}]

\* record_source
FoundIn(p, places) == [p EXCEPT !.from = @ \cup places]

\* Add components, [id, name, version, license, place], to packages: one whose id
\* is there is found in one more place.
AddComponents(packages, components) ==
  LET places(id) == {c.place : c \in {d \in components : d.id = id}}
      New(id) == LET c == CHOOSE c \in components : c.id = id
                 IN  FoundIn([Component(c.name, c.version, id, c.place) EXCEPT
                                !.license = c.license,
                                !.licenseFrom = IF c.license = None THEN None ELSE c.licenseFrom],
                             places(id))
  IN  {IF p.id \in Ids(components) THEN FoundIn(p, places(p.id)) ELSE p : p \in packages}
        \cup {New(id) : id \in Ids(components) \ Ids(packages)}

\* Add edges, pairs of ids, to packages.
AddEdges(packages, edges) ==
  {[p EXCEPT !.deps = @ \cup {e[2] : e \in {f \in edges : f[1] = p.id}}] : p \in packages}

(***************************************************************************)
(* npm.  A directory is the tree it is in and the names on the way to it,   *)
(* <<tree, "npm", "tar">> for tree/npm/node_modules/tar; env.npm maps those  *)
(* with a package.json to [name, version, private, license, needs].         *)
(***************************************************************************)
NpmPurl(manifest) == Purl("npm", manifest.name, manifest.version, None)

\* owners: of two records with one file, the one read last.
NpmOwner(env, dir) == LastWith(env.records, LAMBDA r : dir \in r.modules)

\* roots
NpmTrees(env) ==
  {"lib"} \cup {d[1] : d \in UNION {r.modules : r \in Values(env.records)}}

\* visit; walk: nothing below a directory without a package.json is read.
NpmInstalled(env) ==
  {d \in DOMAIN env.npm : /\ d[1] \in NpmTrees(env)
                          /\ \A k \in 2..Len(d) : SubSeq(d, 1, k) \in DOMAIN env.npm
                          /\ ~ env.npm[d].private}

\* Mutant: a package's own node_modules is not looked in.
ResolveOutside(env, dir, name) ==
  LET at(k) == Append(SubSeq(dir, 1, k), name)
      hits == {k \in 1..Len(dir) - 1 : at(k) \in NpmInstalled(env)}
  IN  IF hits = {} THEN None ELSE at(CHOOSE k \in hits : \A j \in hits : j <= k)

\* resolve: the copy Node would load.
Resolved(env, dir, name) ==
  LET at(k) == Append(SubSeq(dir, 1, k), name)
      hits == {k \in 1..Len(dir) : at(k) \in NpmInstalled(env)}
  IN  IF hits = {} THEN None ELSE at(CHOOSE k \in hits : \A j \in hits : j <= k)

NpmTargets(env, dir) == Found({Resolved(env, dir, n) : n \in env.npm[dir].needs})

\* attach: what another package needs is not its owner's to need.
AttachNpm(env, packages) ==
  LET dirs == NpmInstalled(env)
      IdOf(d) == NpmPurl(env.npm[d])
      components == {[id |-> IdOf(d), name |-> env.npm[d].name, version |-> env.npm[d].version,
                      license |-> env.npm[d].license, licenseFrom |-> "package.json",
                      place |-> d] : d \in dirs}
      needed == UNION {NpmTargets(env, d) : d \in dirs}
      Owner(d) == {p \in packages : p.kind = "conda" /\ NpmOwner(env, d) # None
                                      /\ p.name = NpmOwner(env, d).name}
      between == UNION {{IdOf(d)} \X ({IdOf(t) : t \in NpmTargets(env, d)} \ {IdOf(d)}) : d \in dirs}
      owned == UNION {Ids(Owner(d)) \X {IdOf(d)} : d \in dirs \ needed}
  IN  AddEdges(AddComponents(packages, components), between \cup owned)

(***************************************************************************)
(* Binaries.  env.binaries maps a binary to [crates, go], each None or what  *)
(* it was built from: a sequence of [name, version, runtime, root, needs],   *)
(* needs the places of others in it; and [main, modules, version], main None *)
(* or [name, version], version None for a source checkout.                  *)
(***************************************************************************)
\* binaries_by_package: what a record of the name, the last of several, lists.
BinariesOf(env, p) ==
  LET record == LastWith(env.records, LAMBDA r : r.name = p.name)
  IN  IF p.kind # "conda" \/ record = None THEN {}
      ELSE {b \in record.binaries : b \in DOMAIN env.binaries}

CratePurl(c) == Purl("cargo", c.name, c.version, None)

\* attach of auditable.rs: a binary's crates, but those only its build needed.
AttachCrates(packages, owner, binary, crates) ==
  LET runtime == {i \in DOMAIN crates : crates[i].runtime}
      IdOf(i) == CratePurl(crates[i])
      components == {[id |-> IdOf(i), name |-> crates[i].name, version |-> crates[i].version,
                      license |-> None, licenseFrom |-> None, place |-> <<binary>>] : i \in runtime}
      between == UNION {{IdOf(i)} \X ({IdOf(j) : j \in crates[i].needs \cap runtime} \ {IdOf(i)}) : i \in runtime}
      owned == {owner} \X {IdOf(i) : i \in {j \in runtime : crates[j].root}}
      added == AddEdges(AddComponents(packages, components), between \cup owned)
  IN  {IF p.id = owner THEN FoundIn(p, {<<binary>>}) ELSE p : p \in added}

GoPurl(module) == Purl("golang", module.name, module.version, None)

\* modules: the main module has a version only if it was fetched as one.
GoModules(go) ==
  Found({IF go.main # None /\ go.main.version # None THEN go.main ELSE None}) \cup go.modules
    \cup (IF go.version = None THEN {} ELSE {[name |-> "stdlib", version |-> go.version]})

\* attach of gobuild.rs: they hang off the main module, if it is listed.
AttachGo(packages, owner, binary, go) ==
  LET modules == GoModules(go)
      main == IF go.main # None /\ go.main.version # None THEN GoPurl(go.main) ELSE None
      ids == {GoPurl(m) : m \in modules}
      components == {[id |-> GoPurl(m), name |-> m.name, version |-> m.version, license |-> None,
                      licenseFrom |-> None, place |-> <<binary>>] : m \in modules}
      edges == IF main = None THEN {owner} \X ids
               ELSE ({main} \X (ids \ {main})) \cup {<<owner, main>>}
      added == AddEdges(AddComponents(packages, components), edges)
  IN  {IF p.id = owner THEN FoundIn(p, {<<binary>>}) ELSE p : p \in added}

\* enrich of auditable.rs, and of gobuild.rs: one binary after another.
EnrichCrates(env, packages) ==
  LET With(p) == {b \in BinariesOf(env, p) : env.binaries[b].crates # None}
  IN  FoldFunction(LAMBDA job, all : AttachCrates(all, job[1], job[2], env.binaries[job[2]].crates),
                   packages, [job \in UNION {{p.id} \X With(p) : p \in packages} |-> job])
EnrichGo(env, packages) ==
  LET With(p) == {b \in BinariesOf(env, p) : env.binaries[b].go # None}
  IN  FoldFunction(LAMBDA job, all : AttachGo(all, job[1], job[2], env.binaries[job[2]].go),
                   packages, [job \in UNION {{p.id} \X With(p) : p \in packages} |-> job])

(***************************************************************************)
(* Copies.  env.vendored maps a directory of site-packages to the releases  *)
(* it keeps copies of: sets of [name, version].                             *)
(***************************************************************************)
VendoredPurl(d) == [PypiPurl(d.name, d.version) EXCEPT !.rest = [vendored |-> TRUE]]

\* vendor_owners: conda's records come first, in the order the directory lists
\* them, then the dist-info directories by path.
VendorOwner(env, packages, top) ==
  LET Of(name, kind) == {p \in packages : p.kind = kind /\ Normalized(p.name) = Normalized(name)}
      record == FirstWith(env.records, LAMBDA r : top \in r.tops /\ Of(r.name, "conda") # {})
      dist == FirstWith(env.dists, LAMBDA d : d.readable /\ top \in d.tops /\ Of(d.name, "pypi") # {})
  IN  CASE record # None -> Ids(Of(record.name, "conda"))
        [] record = None /\ dist # None -> Ids(Of(dist.name, "pypi"))
        [] OTHER -> {}

\* attach_vendored
AttachVendored(env, packages) ==
  LET held == UNION {{top} \X env.vendored[top] : top \in DOMAIN env.vendored}
      components == {[id |-> VendoredPurl(h[2]), name |-> h[2].name, version |-> h[2].version,
                      license |-> None, licenseFrom |-> None, place |-> <<h[1]>>] : h \in held}
      owned == UNION {VendorOwner(env, packages, h[1]) \X {VendoredPurl(h[2])} : h \in held}
      added == AddEdges(AddComponents(packages, components), owned)
  IN  {IF p.id \in Ids(components) THEN [p EXCEPT !.vendored = TRUE, !.purl = [@ EXCEPT !.rest = None]]
       ELSE p : p \in added}

(***************************************************************************)
(* SBOMs in wheels.  One is [components, top], its components sequences of  *)
(* [ref, name, version, purl, license, needs, file], top None or the refs   *)
(* its own subject needs.                                                   *)
(***************************************************************************)
\* parse_cyclonedx: what is a file is no component; what the wheel needs of it.
Fragment(sbom) ==
  LET listed == {c \in sbom.components : ~ c.file}
      refs == {c.ref : c \in listed}
  IN  [components |-> listed,
       top |-> IF sbom.top # None THEN sbom.top \cap refs
               ELSE refs \ UNION {c.needs : c \in listed}]

\* document_id: without a purl, a name of the wheel's own.
EmbeddedId(component, wheel) ==
  IF component.purl # None THEN component.purl
  ELSE Purl("within", component.name, component.version, wheel)

\* enrich of embedded.rs, one file of a wheel: what is known of a package already
\* stays, what is not is taken.
AttachFragment(packages, wheel, sbom) ==
  LET fragment == Fragment(sbom)
      owner == CHOOSE p \in packages : p.id = wheel
      IdOf(c) == EmbeddedId(c, owner.purl)
      Id(ref) == {IdOf(c) : c \in {d \in fragment.components : d.ref = ref}}
      components == {[id |-> IdOf(c), name |-> c.name, version |-> c.version, license |-> c.license,
                      licenseFrom |-> None, place |-> <<owner.name>>] : c \in fragment.components}
      Filled(p) == LET c == CHOOSE c \in components : c.id = p.id
                   IN  [p EXCEPT !.license = IF @ = None THEN c.license ELSE @]
      between == UNION {{IdOf(c)} \X (UNION {Id(r) : r \in c.needs} \ {IdOf(c)}) : c \in fragment.components}
      owned == {wheel} \X UNION {Id(r) : r \in fragment.top}
      added == AddEdges(AddComponents(packages, components), between \cup owned)
  IN  {IF p.id \in Ids(components) THEN Filled(p) ELSE p : p \in added}

\* Only a wheel of an index has a file to read one in.
EnrichEmbedded(wheels, packages) ==
  FoldFunction(LAMBDA job, all : AttachFragment(all, job[1], job[2]), packages,
               [j \in UNION {{p.id} \X wheels[p.id] : p \in {q \in packages : q.kind = "pypi"
                                                              /\ q.id \in DOMAIN wheels}} |-> j])

(***************************************************************************)
(* R packages: [bare, library, extracted] of an environment: what r- names  *)
(* are without it, and the descriptions, [name, version, cran], found in its *)
(* library by bare name and in the package cache by package.                *)
(***************************************************************************)
CranPurl(name, version) == Purl("cran", name, version, None)
Lookup(f, x) == IF x \in DOMAIN f THEN f[x] ELSE None

\* identify: what the package says of itself, then the table, then the rule.
IdentifyCran(r, packages) ==
  LET Description(p) == FirstWith(<<Lookup(r.library, r.bare[p.name]), Lookup(r.extracted, p.name)>>,
                                  LAMBDA d : d # None)
      Named(p, name, version, from) ==
        [p EXCEPT !.extraPurls = @ \cup {CranPurl(name, version)}, !.cranFrom = from]
      Identified(p) ==
        LET d == Description(p)
        IN  CASE d # None /\ d.cran -> Named(p, d.name, d.version, "description")
              [] d = None /\ p.name \notin Cran.notCran /\ p.name \in DOMAIN Cran.renamed ->
                   Named(p, Cran.renamed[p.name], p.version, "table")
              [] d = None /\ p.name \notin Cran.notCran /\ p.name \notin DOMAIN Cran.renamed ->
                   Named(p, r.bare[p.name], p.version, "rule")
              [] OTHER -> p
  IN  {IF p.kind = "conda" /\ p.name \in DOMAIN r.bare THEN Identified(p) ELSE p : p \in packages}

(***************************************************************************)
(* Files: a path of a record is [at, type, hash, prefixHash, bytecode], and  *)
(* env.files maps what is there to its hash.                                *)
(***************************************************************************)
\* check: None is not checked.
FileState(files, path) ==
  LET expected == IF path.prefixHash # None THEN path.prefixHash ELSE path.hash
      Changed(state) == IF path.bytecode THEN "bytecode" ELSE state
  IN  CASE path.type \in {"softlink", "directory"} ->
             IF path.at \in DOMAIN files THEN "same" ELSE Changed("missing")
        [] path.type = "file" /\ expected = None -> None
        [] path.type = "file" /\ expected # None /\ path.at \notin DOMAIN files -> Changed("missing")
        [] OTHER -> IF files[path.at] = expected THEN "same" ELSE Changed("modified")

\* The paths listed in a property, joined with `, ` and split there again.
ReadBack(paths) == UNION {IF at \in DOMAIN Pieces THEN Pieces[at] ELSE {at} : at \in paths}

\* verify; attach: a record's findings go to the package of its release.
Verify(env, packages) ==
  LET Record(p) == LastWith(env.records, LAMBDA r : r.paths # {} /\ r.name = p.name
                                                      /\ r.version = p.version /\ r.build = p.build)
      In(r, state) == {path.at : path \in {q \in r.paths : FileState(env.files, q) = state}}
      Verified(r) == [checked |-> UNION {In(r, s) : s \in {"same", "modified", "missing", "bytecode"}},
                      modified |-> ReadBack(In(r, "modified")), missing |-> ReadBack(In(r, "missing")),
                      bytecode |-> In(r, "bytecode")]
  IN  {IF p.kind = "conda" /\ Record(p) # None
       THEN [p EXCEPT !.verified = Verified(Record(p))] ELSE p : p \in packages}

\* What --verify-files holds against an environment: what became of which file.
ChangedFiles(packages) ==
  UNION {({p.name} \X {"modified"} \X p.verified.modified) \cup ({p.name} \X {"missing"} \X p.verified.missing) :
           p \in {q \in packages : q.verified # None}}
=============================================================================

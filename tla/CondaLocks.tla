------------------------------ MODULE CondaLocks ------------------------------
(***************************************************************************)
(* The locks of conda packages: pixi.lock (lock.rs), conda-lock.yml         *)
(* (condalock.rs) and explicit spec files (explicit.rs).                    *)
(***************************************************************************)
EXTENDS Sboms

(***************************************************************************)
(* Reading pixi.lock (lock.rs).  A lock gives, for an environment and a     *)
(* platform, a sequence of entries:                                         *)
(*   [kind, name, version, build, channel, license, hash, purls, source,    *)
(*    needs]                                                                *)
(* kind is "conda", "conda-source" or "pypi", purls the PyPI purls a conda  *)
(* entry states (None if it states nothing), and needs the requirements,    *)
(* each [name, extras, gates]: the extras it asks for, and the extras of    *)
(* its own package its marker names.  Virtual packages, which no lock       *)
(* holds, are left out of needs.                                            *)
(***************************************************************************)
\* convert_conda: what tells two builds of a release apart is in the purl, and a
\* PyPI purl stated without a version is given the package's own.
ConvertConda(entry) ==
  LET binary == entry.kind = "conda"
      rest == [build |-> entry.build, channel |-> IF binary THEN entry.channel ELSE None]
      p == Package(entry.kind, entry.name, entry.version,
                   Purl("conda", entry.name, entry.version, rest))
  IN  [p EXCEPT !.license = entry.license, !.hash = entry.hash,
                !.extraPurls = IF entry.purls = None THEN {}
                               ELSE {WithVersion(u, entry.version) : u \in entry.purls}]

\* convert_pypi
ConvertPypi(entry) ==
  LET p == Package("pypi", entry.name, entry.version, PypiPurl(entry.name, entry.version))
  IN  IdentifySource([p EXCEPT !.hash = entry.hash, !.source = entry.source])

Convert(entry) == IF entry.kind = "pypi" THEN ConvertPypi(entry) ELSE ConvertConda(entry)

\* link_dependencies: a conda requirement is a conda package, a PyPI one a PyPI
\* package, or else the conda package of that name; and what comes from PyPI
\* needs the interpreter.  The last package of a name is the one.
Link(packages, entries) ==
  LET IdOf(name, pypi) ==
        LET p == LastWith(packages, LAMBDA q : /\ (q.kind = "pypi") = pypi
                                              /\ Normalized(q.name) = Normalized(name))
        IN  IF p = None THEN None ELSE p.id
      PypiOrConda(name) == IF IdOf(name, TRUE) # None THEN IdOf(name, TRUE)
                           ELSE IdOf(name, FALSE)
      Targets(entry) ==
        Found(IF entry.kind = "pypi"
              THEN {PypiOrConda(n.name) : n \in entry.needs} \cup {IdOf("python", FALSE)}
              ELSE {IdOf(n.name, FALSE) : n \in entry.needs})
  IN  [i \in DOMAIN packages |->
         [packages[i] EXCEPT !.deps = Targets(entries[i]) \ {packages[i].id}]]

\* record_extras: asked are the manifest's, by name.  Requirements that became
\* edges ask for extras; an edge an extra of its own package gates counts as
\* gated if that extra was asked for, and as left out otherwise.
RecordExtras(packages, entries, asked) ==
  LET IdOf(name) ==
        LET p == LastWith(packages, LAMBDA q : q.kind = "pypi"
                                             /\ Normalized(q.name) = Normalized(name))
        IN  IF p = None THEN None ELSE p.id
      pypi == {i \in DOMAIN entries : entries[i].kind = "pypi"}
      needs == {n \in UNION {{i} \X entries[i].needs : i \in pypi} :
                  IdOf(n[2].name) \in packages[n[1]].deps}
      requested == {<<IdOf(a[1]), a[2]>> : a \in {b \in asked : IdOf(b[1]) # None}}
                     \cup UNION {{IdOf(n[2].name)} \X n[2].extras : n \in needs}
      gates == UNION {{<<packages[n[1]].id, IdOf(n[2].name), Label(packages[n[1]].name, x)>> :
                         x \in n[2].gates} : n \in needs}
      Asked(g) == <<g[1], g[3].extra>> \in requested
  IN  ApplyExtras([NoExtras EXCEPT
                     !.requested = requested,
                     !.gated = {g \in gates : Asked(g)},
                     !.unrequested = {<<g[1], g[2]>> : g \in {h \in gates : ~ Asked(h)}}],
                  Values(packages))

\* sbom_from_lock_with_extras
ReadPixiLock(lock, environment, platform, root, asked) ==
  IF environment \notin DOMAIN lock THEN Failed("environment")
  ELSE IF platform \notin DOMAIN lock[environment] THEN Failed("platform")
  ELSE LET entries == lock[environment][platform]
           converted == [i \in DOMAIN entries |-> Convert(entries[i])]
       IN  [Empty EXCEPT !.root = root, !.environment = environment, !.platform = platform,
              !.packages = RecordExtras(Link(converted, entries), entries, asked)]

-------------------------------------------------------------------------------
(***************************************************************************)
(* Reading conda-lock.yml and explicit spec files (condalock.rs,            *)
(* explicit.rs).  A conda-lock entry is                                     *)
(*   [manager, platform, category, name, version, build, channel, hash,     *)
(*    needs]                                                                *)
(* with the names it needs, virtual packages left out; a line of an         *)
(* explicit file is [pinned, platform, name, version, build, channel,       *)
(* hash], its platform the subdirectory of its URL.                         *)
(***************************************************************************)
\* conda_package
CondaPackage(e) ==
  [Package("conda", e.name, e.version,
           Purl("conda", e.name, e.version, [build |-> e.build, channel |-> e.channel]))
     EXCEPT !.hash = e.hash]

\* convert, pip
ConvertCondaLock(e) ==
  IF e.manager = "pip"
  THEN [Package("pypi", e.name, e.version, PypiPurl(e.name, e.version)) EXCEPT !.hash = e.hash]
  ELSE CondaPackage(e)

\* build_sbom: an entry that is repeated for another category is another package
\* of the same id, and the last one's category is its scope.  Scopes are stated
\* only where a category other than main is.
ReadCondaLock(lock, platform, root) ==
  LET entries == SelectSeq(lock.packages, LAMBDA e : e.platform = platform)
      IdOf(name, manager) ==
        LET e == LastWith(entries, LAMBDA f : /\ f.manager = manager
                                             /\ IF manager = "pip"
                                                THEN Normalized(f.name) = Normalized(name)
                                                ELSE f.name = name)
        IN  IF e = None THEN None ELSE ConvertCondaLock(e).id
      To(e, name) == IF e.manager = "pip" /\ IdOf(name, "pip") # None THEN IdOf(name, "pip")
                     ELSE IdOf(name, "conda")
      packages == {[ConvertCondaLock(e) EXCEPT
                      !.deps = Found({To(e, n) : n \in e.needs}) \ {ConvertCondaLock(e).id}] :
                     e \in Values(entries)}
      stated == {ConvertCondaLock(e).id : e \in {f \in Values(entries) : f.category # None}}
      Category(id) == LastWith(entries, LAMBDA e : e.category # None
                                                   /\ ConvertCondaLock(e).id = id).category
  IN  IF platform \notin lock.platforms THEN Failed("platform")
      ELSE [Empty EXCEPT
              !.root = root, !.platform = platform, !.packages = packages,
              !.scopes = IF \E e \in Values(entries) : e.category \notin {None, "main"}
                         THEN [id \in stated |-> CategoryScope(Category(id))] ELSE <<>>]

\* parse and build_sbom of explicit.rs: one platform, which the file states or its
\* URLs show, and no edges.
ReadExplicit(file, asked, root) ==
  LET shown == FirstWith(file.lines, LAMBDA l : l.platform # "noarch")
      platform == IF file.platform # None THEN file.platform
                  ELSE IF shown = None THEN "noarch" ELSE shown.platform
  IN  IF \E l \in Values(file.lines) : ~ l.pinned THEN Failed("unpinned")
      ELSE IF asked \notin {None, platform} THEN Failed("platform")
      ELSE [Empty EXCEPT !.root = root, !.platform = platform,
                         !.packages = {CondaPackage(l) : l \in Values(file.lines)}]
===============================================================================

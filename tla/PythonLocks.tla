----------------------------- MODULE PythonLocks -----------------------------
(***************************************************************************)
(* The locks of Python packages: poetry.lock, pdm.lock and pylock.toml      *)
(* (poetry.rs, pdm.rs, pylock.rs), compiled requirements files              *)
(* (requirements.rs), and uv.lock (uv.rs).                                  *)
(***************************************************************************)
EXTENDS Sboms

(***************************************************************************)
(* Reading poetry.lock, pdm.lock and pylock.toml (poetry.rs, pdm.rs,        *)
(* pylock.rs): locks for every platform, of which the entries whose marker  *)
(* holds here are installed.  A lock is [python, extras, groups, packages]  *)
(* and an entry                                                             *)
(*   [name, version, source, wheels, sdist, marker, extras, needs];         *)
(* a marker is [on, anyOf], the platforms it holds for (None if it does not *)
(* parse) and the extras or groups one of which it wants, if it names any;  *)
(* a requirement is [name, version, marker, extras, optional].              *)
(***************************************************************************)
Holds(marker, platform, active) ==
  platform \in marker.on /\ (marker.anyOf = {} \/ marker.anyOf \cap active # {})

\* convert: one for the three formats, which differ in how they spell it.
ConvertLocked(locked, platform, python) ==
  IdentifySource([Package("pypi", locked.name, locked.version,
                          PypiPurl(locked.name, locked.version))
                    EXCEPT !.hash = ArtifactHash(locked, platform, python),
                           !.source = locked.source])

Selected(lock, platform, active) ==
  SelectSeq(lock.packages, LAMBDA e : Holds(e.marker, platform, active))

\* Why a lock cannot be read for a platform, None if it can.
Obstacle(lock, platform) ==
  IF platform \notin KnownPlatforms THEN "platform"
  ELSE IF \E i \in DOMAIN lock.packages : lock.packages[i].marker.on = None THEN "marker"
  ELSE None

Project(root) == IF root.name = None THEN "project" ELSE root.name

Read(lock, platform, root, packages) ==
  IF Obstacle(lock, platform) # None THEN Failed(Obstacle(lock, platform))
  ELSE [Empty EXCEPT !.root = root, !.platform = platform, !.packages = packages]

(***************************************************************************)
(* poetry.lock: every extra is on, the last entry of a name is the one      *)
(* requirements mean, and their own markers are not evaluated.              *)
(***************************************************************************)
ReadPoetry(lock, platform, root) ==
  LET entries == Selected(lock, platform,
                          lock.extras \cup UNION {e.extras : e \in Values(lock.packages)})
      id == [i \in DOMAIN entries |-> ConvertLocked(entries[i], platform, lock.python).id]
      At(name) == LastWith([i \in DOMAIN entries |-> i],
                           LAMBDA i : Normalized(entries[i].name) = Normalized(name))
      IdOf(name) == IF At(name) = None THEN None ELSE id[At(name)]
      needs == {n \in UNION {{i} \X entries[i].needs : i \in DOMAIN entries} :
                  IdOf(n[2].name) # None}
      packages == {[ConvertLocked(entries[i], platform, lock.python) EXCEPT
                      !.deps = {IdOf(n[2].name) : n \in {m \in needs : m[1] = i}} \ {id[i]}] :
                     i \in DOMAIN entries}
      extras ==
        [NoExtras EXCEPT
           !.requested = UNION {{IdOf(n[2].name)} \X n[2].extras : n \in needs},
           !.gated = UNION {{<<id[n[1]], IdOf(n[2].name), Label(entries[n[1]].name, x)>> :
                               x \in IF n[2].optional THEN n[2].marker.anyOf ELSE {}} : n \in needs},
           !.project = UNION {{<<id[i], Label(Project(root), x)>> : x \in entries[i].marker.anyOf} :
                                i \in DOMAIN entries}]
  IN  Read(lock, platform, root, ApplyExtras(extras, packages))

(***************************************************************************)
(* pdm.lock: an entry with extras holds what those extras of its package    *)
(* need; the package itself is an entry without, the one of the greatest    *)
(* version if there are several.                                            *)
(***************************************************************************)
ReadPdm(lock, platform, root) ==
  LET entries == Selected(lock, platform, {})
      Key(e) == <<Normalized(e.name), e.version>>
      keys == {Key(e) : e \in {f \in Values(entries) : f.extras = {}}}
      component == [k \in keys |->
        ConvertLocked(LastWith(entries, LAMBDA e : e.extras = {} /\ Key(e) = k),
                      platform, lock.python)]
      IdOf(name) ==
        LET named == {k \in keys : k[1] = Normalized(name)}
        IN  IF named = {} THEN None
            ELSE component[CHOOSE k \in named :
                             \A l \in named : l[2] = None \/ (k[2] # None /\ l[2] <= k[2])].id
      needs == {n \in UNION {{e} \X e.needs : e \in Values(entries)} :
                  Holds(n[2].marker, platform, {}) /\ IdOf(n[2].name) # None}
      known == {n \in needs : IdOf(n[1].name) # None}
      plain == {<<IdOf(n[1].name), IdOf(n[2].name)>> : n \in {m \in known : m[1].extras = {}}}
      gated == UNION {{<<IdOf(n[1].name), IdOf(n[2].name), Label(n[1].name, x)>> :
                         x \in n[1].extras} : n \in known}
      extras ==
        [NoExtras EXCEPT
           !.requested = UNION {{IdOf(e.name)} \X e.extras :
                                  e \in {f \in Values(entries) : IdOf(f.name) # None}}
                           \cup UNION {{IdOf(n[2].name)} \X n[2].extras : n \in known},
           !.gated = {g \in gated : g[1] # g[2] /\ <<g[1], g[2]>> \notin plain}]
      packages == {[component[k] EXCEPT
                      !.deps = {IdOf(n[2].name) : n \in {m \in needs : Key(m[1]) = k}}] :
                     k \in keys}
  IN  Read(lock, platform, root,
           ApplyExtras(extras, {[p EXCEPT !.deps = @ \ {p.id}] : p \in packages}))

(***************************************************************************)
(* pylock.toml: every extra and group is on; what is not held with the      *)
(* groups alone is there for the extras of the project, which is the entry  *)
(* that gives the root its name.                                            *)
(***************************************************************************)
IsTheProject(entry) == entry.source.kind = "directory" /\ entry.source.at = "."

ReadPylock(lock, platform, root) ==
  LET held == Selected(lock, platform, lock.extras \cup lock.groups)
      own == FirstWith(held, IsTheProject)
      named == IF own = None THEN root
               ELSE [name |-> IF root.name = None THEN own.name ELSE root.name,
                     version |-> IF root.version = None THEN own.version ELSE root.version]
      entries == SelectSeq(held, LAMBDA e : ~ IsTheProject(e))
      id == [i \in DOMAIN entries |-> ConvertLocked(entries[i], platform, lock.python).id]
      To(n) == LET i == FirstWith([j \in DOMAIN entries |-> j],
                                  LAMBDA j : /\ Normalized(entries[j].name) = Normalized(n.name)
                                             /\ n.version \in {None, entries[j].version})
               IN  IF i = None THEN None ELSE id[i]
      packages == {[ConvertLocked(entries[i], platform, lock.python) EXCEPT
                      !.deps = Found({To(n) : n \in entries[i].needs}) \ {id[i]}] :
                     i \in DOMAIN entries}
      wanted(i) == IF Holds(entries[i].marker, platform, lock.groups) THEN {}
                   ELSE entries[i].marker.anyOf \ lock.groups
      extras == [NoExtras EXCEPT
                   !.project = UNION {{<<id[i], Label(Project(named), x)>> : x \in wanted(i)} :
                                        i \in DOMAIN entries}]
  IN  Read(lock, platform, named, ApplyExtras(extras, packages))

-------------------------------------------------------------------------------
(***************************************************************************)
(* Reading a compiled requirements file (requirements.rs), with the files   *)
(* it includes.  A file is a sequence of logical lines                      *)
(*   [kind, name, version, marker, hash]:                                   *)
(*   "pin"      a release, with its marker (as in a lock) or None;          *)
(*   "via"      a comment `# via`, and the name it goes on with;            *)
(*   "comment"  another comment, and the first name in it;                  *)
(*   "include"  `-r` or `-c` and the file;                                  *)
(*   "unpinned" anything that is not one version of one package;            *)
(*   "option"   another option, or an empty line.                           *)
(* The name of a comment is Declared where it says `-r` and a file.         *)
(* The file is read line by line: a comment is about the pin before it.     *)
(***************************************************************************)
Declared == "-r"

\* load: the files being read, the innermost first, each with the next line, its
\* last pin and whether a `# via` comment goes on.
StartReading(path) ==
  [open |-> <<[path |-> path, line |-> 1, last |-> 0, inVia |-> FALSE]>>,
   pins |-> <<>>, seen |-> {path}, error |-> None]

Stop(reading, error) == [reading EXCEPT !.error = error, !.open = <<>>]

\* A comment names who needs the pin, or says that a file declares it.
Note(pin, name) ==
  IF name = Declared THEN [pin EXCEPT !.declared = TRUE]
  ELSE IF name = None THEN pin ELSE [pin EXCEPT !.via = @ \cup {name}]

\* parse_into, one line; include_or_option; pinned_version.
ReadLine(reading, files) ==
  LET here == Head(reading.open)
      line == files[here.path][here.line]
      inVia == here.last # 0 /\ (line.kind = "via" \/ (line.kind = "comment" /\ here.inVia))
      \* a comment before the first pin leaves everything as it is
      after == [here EXCEPT !.line = @ + 1,
                            !.inVia = inVia,
                            !.last = IF line.kind = "pin" THEN Len(reading.pins) + 1 ELSE @]
      next == [reading EXCEPT !.open = <<after>> \o Tail(@)]
  IN  IF here.line > Len(files[here.path]) THEN [reading EXCEPT !.open = Tail(@)]
      ELSE CASE line.kind = "unpinned" -> Stop(reading, "unpinned")
             [] line.kind = "pin" ->
                  [next EXCEPT !.pins = Append(@, [name |-> line.name, version |-> line.version,
                                                   marker |-> line.marker, hash |-> line.hash,
                                                   via |-> {}, declared |-> FALSE])]
             [] line.kind \in {"via", "comment"} ->
                  IF inVia THEN [next EXCEPT !.pins[here.last] = Note(@, line.name)] ELSE next
             [] line.kind = "include" ->
                  IF line.name \in reading.seen THEN next
                  ELSE IF line.name \notin DOMAIN files THEN Stop(reading, "read")
                  ELSE [next EXCEPT
                          !.seen = @ \cup {line.name},
                          !.open = <<[path |-> line.name, line |-> 1, last |-> 0,
                                      inVia |-> FALSE]>> \o @]
             [] OTHER -> next

\* build_sbom: the first pin of a name whose marker holds, or does not parse, is
\* installed; who it is needed by is its edges, backwards; and where the file
\* says what was declared, that is the top.
FinishRequirements(reading, platform, root) ==
  LET Here(pin) == pin.marker = None \/ pin.marker.on = None \/ platform \in pin.marker.on
      Pin(name) == FirstWith(reading.pins, LAMBDA p : Normalized(p.name) = name /\ Here(p))
      names == {Normalized(p.name) : p \in {q \in Values(reading.pins) : Here(q)}}
      Id(name) == PypiPurl(name, Pin(name).version)
      Needs(name) == {n \in names \ {name} : name \in {Normalized(v) : v \in Pin(n).via}}
      packages == {[Package("pypi", Pin(n).name, Pin(n).version, Id(n)) EXCEPT
                      !.hash = Pin(n).hash, !.direct = Pin(n).declared,
                      !.declaredIn = IF Pin(n).declared THEN {"default"} ELSE {},
                      !.deps = {Id(m) : m \in Needs(n)}] : n \in names}
  IN  IF reading.error # None THEN Failed(reading.error)
      ELSE IF platform \notin KnownPlatforms THEN Failed("platform")
      ELSE [Empty EXCEPT !.root = root, !.platform = platform, !.packages = packages,
                         !.declaredRoots = \E p \in packages : p.direct]

(***************************************************************************)
(* Reading uv.lock (uv.rs).  A lock is [python, members, packages]; a       *)
(* package is                                                               *)
(*   [name, version, source, wheels, sdist, needs, dev, optional]           *)
(* with sets of edges in needs and dev and, by extra, in optional, and an   *)
(* edge is [name, version, source, extras, on]: on is the set of platforms  *)
(* its marker holds for, None for a marker that does not parse.             *)
(*                                                                         *)
(* What is installed is walked from the members with all their extras, one  *)
(* package at a time.  A package met again is walked again, but only for    *)
(* the extras it was not asked for before.                                  *)
(***************************************************************************)

Member(package, lock) ==
  \/ package.source.kind = "virtual"
  \/ Normalized(package.name) \in {Normalized(n) : n \in lock.members}
  \/ package.source = [kind |-> "editable", at |-> "."]

TheProject(package) ==
  package.source.kind \in {"virtual", "editable", "directory"} /\ package.source.at = "."

\* resolve: the first package of the name that has the version and the source
\* the edge states, if it states them.
Resolve(edge, lock) ==
  FirstWith([i \in DOMAIN lock.packages |-> i],
            LAMBDA i : LET p == lock.packages[i]
                       IN  /\ Normalized(p.name) = Normalized(edge.name)
                           /\ edge.version \in {None, p.version}
                           /\ edge.source \in {None, p.source})

UvMembers(lock) == {i \in DOMAIN lock.packages : Member(lock.packages[i], lock)}

\* A walk that has found nothing yet.
NothingWalked == [queue |-> <<>>, done |-> {}, asked |-> {}, plain |-> {}, gated |-> {},
                  requested |-> {}, error |-> None]

\* Mutant: the members are not walked with their extras.
StartWithoutExtras(lock) ==
  [NothingWalked EXCEPT !.queue = SetToSeq({[package |-> i, extras |-> {}] : i \in UvMembers(lock)})]

\* The walk before its first step, from the members in any order.
StartWalk(lock) ==
  [NothingWalked EXCEPT
     !.queue = SetToSeq({[package |-> i, extras |-> DOMAIN lock.packages[i].optional] :
                           i \in UvMembers(lock)})]

\* Mutant: an extra is walked again whenever it is asked for.
AskedExtras(walk) == Head(walk.queue).extras

\* The extras the package was not asked for before.
NewExtras(walk) ==
  {x \in Head(walk.queue).extras : <<Head(walk.queue).package, x>> \notin walk.asked}

\* One turn of the loop: the edges that leave the package now, with the extra
\* each one goes through, and what the walk knows after them.
Visit(walk, lock, platform) ==
  LET i == Head(walk.queue).package
      package == lock.packages[i]
      first == i \notin walk.done
      new == NewExtras(walk)
      own == IF first THEN package.needs \cup (IF Member(package, lock) THEN package.dev ELSE {})
             ELSE {}
      leaving == (own \X {None})
                   \cup UNION {package.optional[x] \X {x} : x \in new \cap DOMAIN package.optional}
      out == {e \in leaving : platform \in e[1].on /\ Resolve(e[1], lock) # None}
      To(e) == Resolve(e[1], lock)
      arrivals == {[package |-> To(e), extras |-> e[1].extras] : e \in out}
  IN  IF \E e \in leaving : e[1].on = None
      THEN [walk EXCEPT !.error = "marker", !.queue = <<>>]
      ELSE [walk EXCEPT
              !.queue = Tail(@) \o SetToSeq(arrivals),
              !.done = @ \cup {i},
              !.asked = @ \cup ({i} \X new),
              !.plain = @ \cup {<<i, To(e)>> : e \in {f \in out : f[2] = None}},
              !.gated = @ \cup {<<i, To(e), e[2]>> : e \in {f \in out : f[2] # None}},
              !.requested = @ \cup UNION {{To(e)} \X e[1].extras : e \in out}]

\* convert
ConvertUv(locked, member, platform, python) ==
  LET version == IF locked.version = None THEN 0 ELSE locked.version
      p == IF member
           THEN Package("external", locked.name, locked.version, GenericPurl(locked.name, version, None))
           ELSE Package("pypi", locked.name, locked.version, PypiPurl(locked.name, version))
  IN  IdentifySource([p EXCEPT !.hash = ArtifactHash(locked, platform, python),
                                !.source = locked.source])

\* build_sbom after the walk: the project becomes the root, which needs its own
\* edges directly, and the rest of what was reached the packages.
FinishUv(walk, lock, platform, root) ==
  LET all == [i \in DOMAIN lock.packages |-> i]
      project == FirstWith(all, LAMBDA i : TheProject(lock.packages[i]))
      edges == walk.plain \cup {<<g[1], g[2]>> : g \in walk.gated}
      reached == walk.done \ {project}
      package == [i \in reached |-> ConvertUv(lock.packages[i], Member(lock.packages[i], lock),
                                              platform, lock.python)]
      Id(i) == package[i].id
      packages ==
        {[package[i] EXCEPT
            !.direct = <<project, i>> \in edges,
            !.deps = {Id(e[2]) : e \in {f \in edges : f[1] = i /\ f[2] \in reached}} \ {Id(i)}] :
           i \in reached}
      only == {g \in walk.gated : <<g[1], g[2]>> \notin walk.plain /\ g[2] \in reached}
      LabelOf(g) == Label(lock.packages[g[1]].name, g[3])
      extras ==
        [NoExtras EXCEPT
           !.requested = {<<Id(r[1]), r[2]>> : r \in {q \in walk.requested : q[1] \in reached}},
           !.project = {<<Id(g[2]), LabelOf(g)>> : g \in {h \in only : h[1] = project}},
           !.gated = {<<Id(g[1]), Id(g[2]), LabelOf(g)>> : g \in {h \in only : h[1] \in reached}},
           !.roots = IF project = None THEN None
                     ELSE {Id(e[2]) : e \in {f \in walk.plain : f[1] = project /\ f[2] \in reached}}
                            \cup {Id(i) : i \in {j \in reached : Member(lock.packages[j], lock)}}]
  IN  IF platform \notin KnownPlatforms THEN Failed("platform")
      ELSE IF walk.error # None THEN Failed(walk.error)
      ELSE [Empty EXCEPT
              !.root = IF project = None THEN root
                       ELSE [name |-> IF root.name = None THEN lock.packages[project].name
                                      ELSE root.name,
                             version |-> IF root.version = None THEN lock.packages[project].version
                                         ELSE root.version],
              !.platform = platform,
              !.packages = ApplyExtras(extras, packages)]
===============================================================================

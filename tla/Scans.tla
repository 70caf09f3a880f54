--------------------------------- MODULE Scans ---------------------------------
(***************************************************************************)
(* A run that looks for its locks (module Discovery), reads one or, with     *)
(* `--scan`, two of them (module Documents), looks up what the locks do not *)
(* say (module Enrichment) and explains where everything is from (module    *)
(* Explained).                                                              *)
(***************************************************************************)
EXTENDS Documents, Enrichment, Explained, Discovery

CONSTANTS
  Tree,       \* the directories there are
  Arguments   \* that a run may be given

\* A tree is finite, and has what a directory lies in.  Bound: no name of a platform
\* ends in another's, as none of conda's does.
ASSUME TreeAssumption ==
  /\ IsFiniteSet(DOMAIN Tree)
  /\ \A d \in DOMAIN Tree :
       /\ d \in Seq(STRING) /\ \A n \in 0..Len(d) : SubSeq(d, 1, n) \in DOMAIN Tree
       /\ {"files", "named", "readable"} \subseteq DOMAIN Tree[d] /\ Tree[d].named \in Seq(STRING)
       /\ DOMAIN Tree[d].environments \subseteq Seq(STRING) /\ Tree[d].platforms \subseteq Seq(STRING)
       /\ \A e, f \in DOMAIN Tree[d].environments :
            \A p \in Tree[d].environments[e], q \in Tree[d].environments[f] :
              /\ p \in Seq(STRING)
              /\ \A n \in 1..(Len(q) + 1) : SubSeq(q, n, Len(q)) = p => p = q

ASSUME ArgumentsAssumption ==
  \A a \in Arguments :
    /\ a.allEnvironments \in BOOLEAN /\ a.allPlatforms \in BOOLEAN
    /\ a.cwd \in DOMAIN Tree
    /\ a.scan # None => a.scan \in Seq(STRING)
    /\ a.depth # None => a.depth \in Nat
    /\ a.output # None => a.output \in Seq(STRING)
    /\ (a.lockfile # None /\ ~ a.document) => a.lockfile.dir \in DOMAIN Tree

\* None is no path, no lock and no error.
ASSUME NothingAssumption ==
  /\ None \notin Seq(STRING) \cup {"usage", "not a directory", "none found", "not found", "missing"}
  /\ \A d \in DOMAIN Tree :
       \A kind \in Values(LockfileKinds) \cup {"document"}, name \in {None} \cup Values(Tree[d].named) :
         Lockfile(d, kind, name) # None

VARIABLE search   \* [stage, args, found], the latter as Find gives it

svars == <<vars, evars, search>>

\* What a lock is read as, by its name (main.rs:1887).
FormatOf(lockfile) ==
  CASE lockfile.kind = "pixi.lock" -> "pixi"
    [] lockfile.kind = "uv.lock" -> "uv"
    [] lockfile.kind = "pylock.toml" -> "pylock"
    [] lockfile.kind = "poetry.lock" -> "poetry"
    [] lockfile.kind = "pdm.lock" -> "pdm"
    [] lockfile.kind = "conda-lock.yml" -> "conda-lock"
    [] lockfile.kind = "explicit.txt" -> "explicit"
    [] lockfile.kind = "requirements.txt" -> "requirements"
    [] lockfile.kind = "document" -> "document"

LookForLocks ==
  /\ search.stage = "asked"
  /\ LET found == Find(Tree, search.args)
     IN  search' = [search EXCEPT !.stage = IF found.error = None THEN "found" ELSE "refused",
                                  !.found = found]
  /\ UNCHANGED <<vars, evars>>

\* Where a lock was found no longer matters once it is open.
OpenLock ==
  /\ search.stage = "found"
  /\ \E l \in search.found.locks : FormatOf(l) = input.format
  /\ search' = [stage |-> "over", args |-> None, found |-> None]
  /\ UNCHANGED <<vars, evars>>

Idle == phase = "idle" /\ search.stage = "over"

\* Bound: only packages of which Upstream has something are looked up.
IsKnown(d) ==
  \A p \in d.packages : (p.kind = "conda" \/ FromIndex(p)) => p.id \in DOMAIN Upstream

\* What earlier runs left in the cache, one of them perhaps killed while it wrote.
\* Bound: something is left to ask for.
Caches == {c \in [IndexIds -> {"absent", "whole", "torn"}] : \E id \in IndexIds : c[id] = "absent"}

LookUp ==
  \E option \in Options, left \in Caches :
    LET docs == IF run = 1 THEN <<sbom>> ELSE <<earlier.sbom, sbom>>
    IN  /\ search.stage = "over"
        /\ stage = "read" /\ input.format # "document"
        /\ run = 2 => earlier.name = "lock"
        /\ \A i \in DOMAIN docs : IsKnown(docs[i])
        /\ Begin(docs, option, left)
        /\ UNCHANGED vars

ScanInit ==
  /\ Init /\ EnrichmentInit
  /\ \E args \in Arguments : search = [stage |-> "asked", args |-> args, found |-> None]

ScanNext ==
  \/ LookForLocks \/ OpenLock
  \/ Idle /\ ReadAtOnce /\ UNCHANGED <<evars, search>>
  \/ Idle /\ StartUv /\ UNCHANGED <<evars, search>>
  \/ Idle /\ VisitUv /\ UNCHANGED <<evars, search>>
  \/ Idle /\ EndUv /\ UNCHANGED <<evars, search>>
  \/ Idle /\ StartRequirements /\ UNCHANGED <<evars, search>>
  \/ Idle /\ ReadRequirement /\ UNCHANGED <<evars, search>>
  \/ Idle /\ EndRequirements /\ UNCHANGED <<evars, search>>
  \/ \E f \in Filters : Idle /\ Filter(f) /\ UNCHANGED <<evars, search>>
  \/ \E format \in OutputFormats : Idle /\ WriteDocument(format) /\ UNCHANGED <<evars, search>>
  \/ \E i \in Later : Idle /\ AgainstLock(i) /\ UNCHANGED <<evars, search>>
  \/ \E i \in Later : Idle /\ AgainstDocument(i) /\ UNCHANGED <<evars, search>>
  \/ Idle /\ CompareWithEarlier /\ UNCHANGED <<evars, search>>
  \/ \E first \in BOOLEAN : Idle /\ MergeWithEarlier(first) /\ UNCHANGED <<evars, search>>
  \/ LookUp /\ UNCHANGED search
  \/ EnrichmentNext /\ UNCHANGED <<vars, search>>

ReadingSteps == ReadingGoesOn /\ UNCHANGED <<evars, search>>
ScanSpec == ScanInit /\ [][ScanNext]_svars /\ WF_svars(ReadingSteps)
-------------------------------------------------------------------------------
(***************************************************************************)
(* Properties.                                                              *)
(***************************************************************************)
\* No document of a run lies where another does (docs/cli.md:1665), and standard
\* output gets one only if it is all there is, whatever is combined of `--scan`,
\* `--output` and `--all-...`: there is one for every environment and platform
\* asked for, in the directory of its lock or the one that mirrors it.  A scan
\* reads one lock of each directory it may enter that has one, and a run without
\* the one of the nearest directory; one that finds none says which lock to
\* write, and with that lock it would find it.
DocumentsGoApart ==
  LET args == search.args
      found == search.found
      every == UNION {{w.lockfile} \X w.targets : w \in found.workspaces}
      Enters(d, e) == /\ Len(e) = Len(d) + 1 /\ IsPrefix(d, e) /\ Tree[d].readable /\ ~ Tree[e].link
                      /\ Last(e) \notin Hidden \cup ScanSkippedDirs
      entered == Reached({args.scan}, {d \in (DOMAIN Tree) \X (DOMAIN Tree) : Enters(d[1], d[2])})
      Has(d) == Tree[d].files \cap Values(LockfileKinds) # {} \/ (Tree[d].named # <<>> /\ Tree[d].readable)
      Beside(d) == IF args.output = None THEN d
                   ELSE args.output \o SubSeq(d, Len(args.scan) + 1, Len(d))
      Pairs(l) == UNION {{e} \X Tree[l.dir].environments[e] : e \in DOMAIN Tree[l.dir].environments}
  IN  /\ search.stage = "found" =>
           /\ \A x, y \in every : x[2].output = y[2].output => x = y
           /\ (\E x \in every : x[2].output = FileAt(Stdout)) => Cardinality(every) = 1
           /\ (args.allEnvironments /\ args.allPlatforms /\ ~ args.merge) =>
                \A w \in found.workspaces : w.lockfile.kind = "pixi.lock" =>
                  {<<t.environment, t.platform>> : t \in w.targets} = Pairs(w.lockfile)
           /\ args.scan # None =>
                /\ {l.dir : l \in found.locks}
                     = {d \in entered : Has(d) /\ (args.depth # None => Len(d) - Len(args.scan) <= args.depth)}
                /\ Cardinality({l.dir : l \in found.locks}) = Cardinality(found.locks)
                /\ ~ args.merge => \A x \in every : x[2].output.dir = Beside(x[1].dir)
           /\ (args.scan = None /\ args.lockfile = None /\ ~ args.document) =>
                \A l \in found.locks : \A d \in Ancestors(args.cwd) : Has(d) => Len(d) <= Len(l.dir)
      /\ (search.stage = "refused" /\ found.hint # None) =>
           \A kind \in found.hint.write \cap Values(LockfileKinds) :
             LET with == [Tree EXCEPT ![found.hint.dir].files = @ \cup {kind}]
             IN  FindUpward(with, args.cwd) = Lockfile(found.hint.dir, kind, None)

\* The sources of a license, in the order they are asked, and what each would say.
SourcesOf(p) == IF p.kind = "pypi" THEN <<"wheel", "pypi">> ELSE <<"package-cache", "conda-archive">>
LicenseAt(p, source) ==
  LET s == Source(p)
  IN  CASE source = "wheel" /\ s.wheel # None -> s.wheel.license
        [] source = "package-cache" /\ s.extracted # None -> s.extracted.license
        [] source = "conda-archive" /\ s.extracted = None /\ s.archive # None ->
             IF TooLarge(s.archive) THEN None ELSE s.archive.info.license
        [] source = "pypi" /\ FromIndex(p) /\ s.index # None -> IndexLicense(s.index)
        [] OTHER -> None

StepOf(source) ==
  CASE source = "wheel" -> "wheel-licenses" [] source = "pypi" -> "pypi-releases" [] OTHER -> "conda-archives"
IsNoted(d, source) == \E n \in d.incomplete : n.step = StepOf(source)

\* A release whose file in the cache was torn is taken to say nothing, and nobody
\* notices (pypi.rs:303).
IsTorn(p, source) == source = "pypi" /\ Cached(p.id) /\ cache[p.id] = "torn"
IsExcused(d, p, source) == IsNoted(d, source) \/ IsTorn(p, source)

\* What the lock of document i says of a package; and what the lock says that the
\* lookup went by: the first one to have it, where all were looked up as one.
InLock(i, p) == ById(given[i].packages, p.id)
LookedUpFor(i, p) ==
  LET Before(j) == {k \in 1..(j - 1) : p.id \in Ids(given[k].packages)}
      j == CHOOSE j \in DOMAIN given :
             p.id \in Ids(given[j].packages) /\ (IF current = 0 THEN Before(j) = {} ELSE j = i)
  IN  InLock(j, p)

\* What is looked up for several documents at once (batch.rs:67), whatever their
\* locks say of the package: a license nobody looked up is what the own lock says;
\* nobody looks one up that the first lock states; and one that was is that of the
\* first source that has one, or of a later one if the document says that the first
\* could not be read, and it is put down to that source; and so are files.  Nothing
\* else of a package is touched.
MetadataIsOwn ==
  LET IsFirst(d, p, source) ==
        LET at == CHOOSE n \in DOMAIN SourcesOf(p) : SourcesOf(p)[n] = source
        IN  \A n \in 1..(at - 1) :
              LicenseAt(p, SourcesOf(p)[n]) = None \/ IsExcused(d, p, SourcesOf(p)[n])
      Own(i, p) ==
        LET q == InLock(i, p)
        IN  /\ p.licenseFrom = None => p.license = q.license
            /\ p.licenseFrom # None =>
                 /\ LookedUpFor(i, p).license = None
                 /\ p.licenseFrom \in Values(SourcesOf(p))
                 /\ p.license = LicenseAt(p, p.licenseFrom)
                 /\ IsFirst(documents[i], p, p.licenseFrom)
            /\ (p.files # {}) = (p.filesFrom # None)
            /\ p.yanked => Source(p).index.yanked
            /\ <<p.deps, p.purl, p.hash>> = <<q.deps, q.purl, q.hash>>
  IN  phase = "enriched" =>
        \A i \in DOMAIN documents : \A p \in documents[i].packages : Own(i, p)

\* Whatever could have been learned of a package and was not is said in each
\* document that has it (main.rs:2406, batch.rs:147), whichever worker found the
\* network down and whichever never tried: a license, unless the lock the lookup
\* went by states one, and that a release was yanked.  The file of a release that
\* an earlier run was killed at is not noticed (TornIsNoticed).
EveryLackIsSaid ==
  phase = "enriched" =>
    \A i \in DOMAIN documents : \A p \in documents[i].packages :
      /\ (p.licenseFrom = None /\ LookedUpFor(i, p).license = None) =>
           \A source \in Values(SourcesOf(p)) :
             LicenseAt(p, source) # None => IsExcused(documents[i], p, source)
      /\ (FromIndex(p) /\ Source(p).index # None /\ Source(p).index.yanked /\ ~ p.yanked) =>
           IsExcused(documents[i], p, "pypi")

\* "Applying it to a document cannot overwrite what that document's own environment
\* said" (batch.rs:19): a license that a document's own lock states is its license,
\* whatever was looked up for a document whose lock states none.
OwnWordStands ==
  phase = "enriched" =>
    \A i \in DOMAIN documents : \A p \in documents[i].packages :
      InLock(i, p).license # None => p.license = InLock(i, p).license

\* "Fetch the license of every package, conda and PyPI alike, where the lockfile has
\* none" (docs/cli.md:72), or say what could not be read: also where another lock of
\* the run, which the lookup goes by, states one.
EveryLicenseIsFetched ==
  phase = "enriched" =>
    \A i \in DOMAIN documents : \A p \in documents[i].packages :
      p.license = None =>
        \A source \in Values(SourcesOf(p)) :
          LicenseAt(p, source) # None => IsExcused(documents[i], p, source)

\* "What a run could not finish is recorded in the document as well"
\* (docs/output-format.md:432): also where the file of a release is torn, as an
\* earlier run that was killed left it (pypi.rs:303), and nothing could be read.
TornIsNoticed ==
  phase = "enriched" =>
    \A i \in DOMAIN documents : \A p \in documents[i].packages :
      (p.license = None /\ IsTorn(p, "pypi") /\ LicenseAt(p, "pypi") # None) => IsNoted(documents[i], "pypi")

\* The explanation of a package (explain.rs:240) is true: the source of its license
\* has that license; a source said to have nothing has none, or the document says
\* that it could not be read, unless the lock the lookup went by states a license,
\* so that none was asked; "not yanked" likewise; and whatever a package is said to
\* need, by its name, one of that name is said to be needed by it, and the other way
\* round.
ExplainIsTrue ==
  LET Ctx == [manifest |-> FALSE, fetchLicenses |-> TRUE, embeddedSboms |-> options.embeddedSboms,
              scorecard |-> FALSE, vulnerabilities |-> FALSE, pypiMapping |-> FALSE,
              offline |-> options.offline]
      Packages(d) == {Explainable(p) : p \in d.packages}
      NamesIn(fact) == IF fact.considered = {} THEN fact.value ELSE {}
      Of(d) == Explain(Packages(d), {}, {p.name : p \in Packages(d)}, Ctx)
      LicenseIsTrue(i, p, fact) ==
        IF fact.value # None
        THEN IF fact.source = "input" THEN InLock(i, p).license = fact.value
             ELSE LicenseAt(p, fact.source) = fact.value
        ELSE LookedUpFor(i, p).license = None =>
               \A c \in fact.considered :
                 (c.says \in {"nothing", "nothing cached"}) =>
                   LicenseAt(p, c.source) = None \/ IsExcused(documents[i], p, c.source)
      YankedIsTrue(i, p, fact) ==
        (fact.value # None /\ ~ fact.value.yanked /\ FromIndex(p) /\ Source(p).index # None) =>
          ~ Source(p).index.yanked \/ IsExcused(documents[i], p, "pypi")
      IsReturned(rows, p, said, answer) ==
        \A name \in NamesIn(rows[p][said]) :
          \E q \in DOMAIN rows : q.name = name /\ p.name \in NamesIn(rows[q][answer])
  IN  phase = "enriched" =>
        \A i \in DOMAIN documents :
          LET rows == Of(documents[i]).rows
          IN  \A p \in DOMAIN rows :
                /\ LicenseIsTrue(i, p, rows[p]["license"])
                /\ YankedIsTrue(i, p, rows[p]["yanked"])
                /\ IsReturned(rows, p, "dependsOn", "neededBy")
                /\ IsReturned(rows, p, "neededBy", "dependsOn")
===============================================================================

------------------------------ MODULE Enrichment ------------------------------
(***************************************************************************)
(* `--fetch-licenses` (main.rs:2390): the wheels of the packages are read,  *)
(* the conda packages that are extracted, the archives of those that are    *)
(* not (condaarchive.rs), and PyPI is asked for its releases (pypi.rs) by   *)
(* workers that share one word on whether the network is down.  Several     *)
(* documents are looked up at once (batch.rs), but for those whose wheels   *)
(* may bring components along.                                              *)
(*                                                                         *)
(* Upstream gives for an id what may be had: [wheel, extracted, archive,    *)
(* index], the first None where the package is no wheel, the second where   *)
(* it is not extracted here, archive [legacy, size, info], and index its    *)
(* JSON.  How wheels and archives are cached is module ArchiveCache's.      *)
(***************************************************************************)
EXTENDS Metadata

CONSTANTS
  Upstream,
  Options     \* [offline, embeddedSboms, mayRead, mayWrite], of a run

\* No source is the absence of one.
ASSUME SourcesAssumption == None \notin {"wheel", "package-cache", "conda-archive", "pypi"}

VARIABLES
  given,      \* the documents of the run as they were read
  documents,  \* as they are
  options,
  phase,
  current,    \* the document being looked up, 0 for the union of all
  subject,    \* that document
  missing,    \* the ids of conda packages that are not extracted
  jobs,       \* what became of each release PyPI is asked for
  down,       \* no request is worth a try
  cache       \* its file of each release: "absent", "whole", or "torn" by a run that was killed

evars == <<given, documents, options, phase, current, subject, missing, jobs, down, cache>>

Nothing == [wheel |-> None, extracted |-> None, archive |-> None, index |-> None]
Source(p) == IF p.id \in DOMAIN Upstream THEN Upstream[p.id] ELSE Nothing
IndexIds == {id \in DOMAIN Upstream : Upstream[id].index # None}

EnrichmentInit ==
  /\ given = <<>> /\ documents = <<>> /\ options = None /\ phase = "idle" /\ current = 0
  /\ subject = None /\ missing = {} /\ jobs = <<>> /\ down = FALSE /\ cache = <<>>

\* shared_enrichment, the first half: two documents or more are looked up as one.
Begin(docs, option, left) ==
  LET bare == [i \in DOMAIN docs |-> [docs[i] EXCEPT !.packages = {Bare(p) : p \in @}]]
      together == Len(docs) >= 2 /\ ~ option.embeddedSboms /\ Union(bare).packages # {}
  IN  /\ phase = "idle"
      /\ given' = bare /\ documents' = bare
      /\ options' = option /\ cache' = left
      /\ current' = IF together THEN 0 ELSE 1
      /\ subject' = IF together THEN Union(bare) ELSE bare[1]
      /\ phase' = "wheels"
      /\ UNCHANGED <<missing, jobs, down>>

NoteFailures(step, failed, total) ==
  IF failed = 0 THEN {} ELSE {[step |-> step, failed |-> failed, of |-> total, shared |-> FALSE]}

\* Learned of those that could be read, and noted of those that could not.
ReadEach(step, wanted, failing, Applied(_)) ==
  subject' = [subject EXCEPT
                !.packages = {IF p \in wanted \ failing THEN Applied(p) ELSE p : p \in @},
                !.incomplete = @ \cup NoteFailures(step, Cardinality(failing), Cardinality(wanted))]

\* enrich of wheel.rs
ReadWheels(failing) ==
  LET wheels == {p \in subject.packages : p.kind = "pypi" /\ Source(p).wheel # None}
  IN  /\ phase = "wheels" /\ failing \subseteq wheels
      /\ ReadEach("wheel-licenses", wheels, failing, LAMBDA p : ApplyWheel(p, Source(p).wheel))
      /\ phase' = "package cache"
      /\ UNCHANGED <<given, documents, options, current, missing, jobs, down, cache>>

\* enrich of pkgcache.rs
ReadPackageCache ==
  LET conda == {p \in subject.packages : p.kind = "conda"}
      there == {p \in conda : Source(p).extracted # None}
  IN  /\ phase = "package cache"
      /\ ReadEach("package cache", there, {}, LAMBDA p : ApplyConda(p, Source(p).extracted, "package-cache"))
      /\ missing' = Ids(conda \ there)
      /\ phase' = IF missing' = {} THEN "releases" ELSE "archives"
      /\ UNCHANGED <<given, documents, options, current, jobs, down, cache>>

\* A legacy archive can only be read whole: not if it is large, or may be.
TooLarge(archive) == archive.legacy /\ archive.size # "small"

\* enrich of condaarchive.rs
ReadArchives(failing) ==
  LET wanted == {p \in subject.packages :
                   p.id \in missing /\ Source(p).archive # None /\ ~ TooLarge(Source(p).archive)}
  IN  /\ phase = "archives" /\ failing \subseteq wanted
      /\ ReadEach("conda-archives", wanted, failing,
              LAMBDA p : ApplyConda(p, Source(p).archive.info, "conda-archive"))
      /\ phase' = "releases"
      /\ UNCHANGED <<given, documents, options, current, missing, jobs, down, cache>>

\* run_with of pypi.rs
AskReleases ==
  LET asked == {p \in subject.packages : FromIndex(p) /\ p.version # None}
  IN  /\ phase = "releases"
      /\ jobs' = [id \in Ids(asked) |-> "waiting"]
      /\ down' = FALSE
      /\ phase' = "asking"
      /\ UNCHANGED <<given, documents, options, current, subject, missing, cache>>

Cached(id) == options.mayRead /\ id \in DOMAIN cache /\ cache[id] # "absent"

\* metadata: a worker looks into the cache, and whether a request makes sense.
Look(id) ==
  /\ phase = "asking" /\ jobs[id] = "waiting"
  /\ jobs' = [jobs EXCEPT ![id] = IF Cached(id) THEN cache[id] ELSE IF down THEN "failed" ELSE "sent"]
  /\ UNCHANGED <<given, documents, options, phase, current, subject, missing, down, cache>>

Answered(id) ==
  /\ phase = "asking" /\ jobs[id] = "sent" /\ ~ options.offline /\ id \in IndexIds
  /\ jobs' = [jobs EXCEPT ![id] = "whole"]
  /\ cache' = [cache EXCEPT ![id] = IF options.mayWrite THEN "whole" ELSE @]
  /\ UNCHANGED <<given, documents, options, phase, current, subject, missing, down>>

Refused(id) ==
  /\ phase = "asking" /\ jobs[id] = "sent" /\ ~ options.offline
  /\ jobs' = [jobs EXCEPT ![id] = "failed"]
  /\ UNCHANGED <<given, documents, options, phase, current, subject, missing, down, cache>>

\* No connection, or none allowed: those after this one need not try.
Unreachable(id) ==
  /\ phase = "asking" /\ jobs[id] = "sent"
  /\ jobs' = [jobs EXCEPT ![id] = "failed"]
  /\ down' = TRUE
  /\ UNCHANGED <<given, documents, options, phase, current, subject, missing, cache>>

\* The answers are applied; only those that may bring a license count as asked.
ReadReleases ==
  LET Became(id, what) == id \in DOMAIN jobs /\ jobs[id] = what
      answered == {p \in subject.packages : Became(p.id, "whole") \/ Became(p.id, "torn")}
      failed == {id \in DOMAIN jobs : jobs[id] = "failed"}
      total == Cardinality({p \in answered : p.license = None}) + Cardinality(failed)
  IN  /\ phase = "asking" /\ \A id \in DOMAIN jobs : jobs[id] \notin {"waiting", "sent"}
      /\ subject' = [subject EXCEPT
                       !.packages = {IF Became(p.id, "whole") THEN ApplyIndex(p, Source(p).index) ELSE p : p \in @},
                       !.incomplete = @ \cup NoteFailures("pypi-releases", Cardinality(failed), total)]
      /\ phase' = "learned"
      /\ UNCHANGED <<given, documents, options, current, missing, jobs, down, cache>>

ShareOut ==
  LET shared == SharedBetween(Union(documents), subject)
  IN  /\ phase = "learned" /\ current = 0
      /\ documents' = [i \in DOMAIN documents |-> ApplyShared(shared, documents[i])]
      /\ phase' = "enriched"
      /\ UNCHANGED <<given, options, current, subject, missing, jobs, down, cache>>

NextDocument ==
  LET last == current = Len(documents)
  IN  /\ phase = "learned" /\ current # 0
      /\ documents' = [documents EXCEPT ![current] = subject]
      /\ current' = IF last THEN current ELSE current + 1
      /\ subject' = IF last THEN subject ELSE documents[current + 1]
      /\ phase' = IF last THEN "enriched" ELSE "wheels"
      /\ UNCHANGED <<given, options, missing, jobs, down, cache>>

EnrichmentNext ==
  \/ \E failing \in SUBSET IF subject = None THEN {} ELSE subject.packages :
       ReadWheels(failing) \/ ReadArchives(failing)
  \/ ReadPackageCache \/ AskReleases \/ ReadReleases \/ ShareOut \/ NextDocument
  \/ \E id \in DOMAIN jobs : Look(id) \/ Answered(id) \/ Refused(id) \/ Unreachable(id)
===============================================================================

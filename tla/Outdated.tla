-------------------------------- MODULE Outdated --------------------------------
(***************************************************************************)
(* --report outdated (outdated.rs, run_counted): for every package of a      *)
(* document the releases its index has, from a cache of one file per package *)
(* and channel that lives for a day, or from the index.  prefix.dev is asked *)
(* about several packages at once, then for the pages and the day that an    *)
(* answer leaves open; a channel the index does not know is taken for a      *)
(* mirror of a candidate, of which a package's hash has to vouch.            *)
(*                                                                         *)
(* A package of a document is [name, kind, version, build, sha, channel,     *)
(* host, index]; names and channels are sequences of the words between their *)
(* dashes.  A run is [documents, kind, policy, offline, candidate, pinned,   *)
(* least].  Jobs run concurrently, each a request at a time.                 *)
(***************************************************************************)
EXTENDS Integers, Sequences, FiniteSets, SequencesExt, FiniteSetsExt

CONSTANTS
  None,
  Torn,      \* the text of a file whose writer was killed
  PageSize,  \* versions of one answer of prefix.dev
  MorePages, \* PREFIX_MORE_PAGES: how many pages more are asked for
  Runs,      \* what the program may be asked
  Editions,  \* the indexes, as they are in turn: [conda, pypi], functions to projects
  Batch,     \* PREFIX_BATCH
  MaxAge,    \* CACHE_MAX_AGE, in days
  MaxTime,   \* bound on the clock
  MaxRuns    \* bound on the runs

VARIABLES
  clock,    \* the day
  edition,  \* what the indexes have
  files,    \* the cache: [text, at, since] by name; since is the edition it was asked of
  runs,     \* the runs so far
  run,      \* the one there is
  doc,      \* its document
  stage,
  targets,  \* which channel is asked about for which
  chunks,   \* the batches that were not asked for yet, sets of jobs
  jobs,     \* by the position of their package
  output    \* the report of the document

world == <<clock, edition, files>>
asked == <<runs, run, doc>>
vars == <<world, asked, stage, targets, chunks, jobs, output>>

Packages == run.documents[doc]

(***************************************************************************)
(* The releases of a package, as the indexes list them, and how far behind   *)
(* them an installed version is.  A version is <<major, minor, patch,        *)
(* final>>, final 0 for a prerelease.  What an index has of a package is a   *)
(* project:                                                                 *)
(*   versions   its versions, the newest first                              *)
(*   published  the day of each                                             *)
(*   yanked     those all of whose files were withdrawn                     *)
(*   builds     of a version and a build, the hash of its file              *)
(* A release is [version, published, yanked], published None if unknown.     *)
(***************************************************************************)
Projects ==
  UNION {Range(Editions[e].conda) \cup Range(Editions[e].pypi) : e \in DOMAIN Editions}
Versions == UNION {Range(project.versions) : project \in Projects}
Days == UNION {Range(project.published) : project \in Projects}
Hashes == UNION {UNION {Range(project.builds[v]) : v \in DOMAIN project.builds} : project \in Projects}

\* The packages of the documents there may be.
Listed == UNION {UNION {Range(document) : document \in Range(r.documents)} : r \in Runs}

\* is_prerelease
IsPrerelease(v) == v[4] = 0

\* compare, of versions that parse.
IsNewer(v, w) == \E n \in 1..4 : v[n] > w[n] /\ \A m \in 1..n - 1 : v[m] = w[m]

\* step
Step(current, latest) ==
  CASE latest = None -> "-"
    [] latest # None /\ latest[1] # current[1] -> "major"
    [] latest # None /\ latest[1] = current[1] /\ latest[2] # current[2] -> "minor"
    [] OTHER -> "patch"

IsUsable(release) == ~ release.yanked /\ ~ IsPrerelease(release.version)

\* status, of a sequence of releases.
Status(releases, current) ==
  LET usable == SelectSeq(releases, IsUsable)
      versions == {r.version : r \in Range(usable)}
      latest == IF versions = {} THEN None
                ELSE CHOOSE v \in versions : \A w \in versions : ~ IsNewer(w, v)
      PublishedOf(v, among) ==
        LET at == SelectInSeq(among, LAMBDA r : r.version = v)
        IN  IF at = 0 THEN None ELSE among[at].published
  IN  [published |-> PublishedOf(current, releases),
       latest |-> latest,
       latestPublished |-> IF latest = None THEN None ELSE PublishedOf(latest, usable),
       behind |-> Cardinality({n \in DOMAIN releases :
                                  IsUsable(releases[n]) /\ IsNewer(releases[n].version, current)}),
       step |-> Step(current, latest)]

(***************************************************************************)
(* prefix.dev answers in pages.  What is kept of its answers is [versions,   *)
(* dates, hashes]: the versions of the pages that came, the day of the       *)
(* installed one and of the newest, and the hashes of the installed build.   *)
(***************************************************************************)
PageTexts ==
  [versions : Seq(Versions), dates : SUBSET (Versions \X Days), hashes : SUBSET Hashes]

\* A version has four numbers.  A project has a day and builds for each of its
\* versions, the newest first; an edition has at least one of the indexes'
\* states; no text is one of the values that say that there is none or that it
\* is torn.
ASSUME OutdatedAssumption ==
  /\ PageSize \in Nat \ {0} /\ MorePages \in Nat
  /\ Versions \cup ({p.version : p \in Listed} \ {None}) \subseteq [1..4 -> Nat]
  /\ Editions \in Seq(Range(Editions)) /\ Editions # <<>>
  /\ \A project \in Projects :
       /\ project.versions \in Seq(Versions)
       /\ \A m, n \in DOMAIN project.versions : m < n => IsNewer(project.versions[m], project.versions[n])
       /\ DOMAIN project.published = Range(project.versions)
       /\ DOMAIN project.builds = Range(project.versions)
  /\ \A r \in Runs :
       /\ r.documents \in Seq(Seq(Listed))
       /\ r.kind \in {"prefix", "anaconda"}
       /\ r.policy \in {"default", "refresh", "noCache"} /\ r.offline \in BOOLEAN
  /\ \A text \in {None, Torn} : text \notin PageTexts /\ text \notin Projects
  /\ None # Torn

NumberOfPages(project) ==
  LET n == Len(project.versions) IN (n \div PageSize) + (IF n % PageSize = 0 THEN 0 ELSE 1)

\* Page k of a project, from 0.
VersionPage(project, k) ==
  LET first == k * PageSize + 1
      last == Min({first + PageSize - 1, Len(project.versions)})
  IN  SubSeq(project.versions, first, last)

Known(project, version) == version \in Range(project.versions)

\* prefix_page; one query asks for the first page, the day of the installed
\* version and the hashes of the installed build.
PrefixPage(project, installed, build) ==
  IF project = None THEN [versions |-> <<>>, dates |-> {}, hashes |-> {}]
  ELSE [versions |-> VersionPage(project, 0),
        dates |-> IF Known(project, installed) THEN {<<installed, project.published[installed]>>} ELSE {},
        hashes |-> IF Known(project, installed) /\ build \in DOMAIN project.builds[installed]
                   THEN {project.builds[installed][build]} ELSE {}]

\* reaches
Reaches(versions, installed) == \E v \in Range(versions) : ~ IsNewer(v, installed)

\* page_down_to: the last page that is asked for, from 0, if there are that many.
LastPage(pages) == Min({pages, 1 + MorePages}) - 1

\* undated_newest
UndatedNewest(document) ==
  LET finals == {v \in Range(document.versions) : ~ IsPrerelease(v)}
      newest == CHOOSE v \in finals : \A w \in finals : ~ IsNewer(w, v)
  IN  IF finals = {} \/ newest \in {d[1] : d \in document.dates} THEN None ELSE newest

DayOf(dates, v) ==
  LET days == {d[2] : d \in {e \in dates : e[1] = v}} IN IF days = {} THEN None ELSE CHOOSE d \in days : TRUE

\* prefix_releases
PrefixReleases(document) ==
  [n \in DOMAIN document.versions |->
     [version |-> document.versions[n], published |-> DayOf(document.dates, document.versions[n]), yanked |-> FALSE]]

\* pypi_releases, anaconda_releases: the whole project in one answer; anaconda.org
\* yanks nothing.
ProjectReleases(project, kind) ==
  [n \in DOMAIN project.versions |->
     [version |-> project.versions[n], published |-> project.published[project.versions[n]],
      yanked |-> kind = "pypi" /\ project.versions[n] \in project.yanked]]

\* anaconda_hashes
ProjectHashes(project, version) ==
  IF Known(project, version) THEN Range(project.builds[version]) ELSE {}

(***************************************************************************)
(* Jobs.                                                                    *)
(***************************************************************************)
\* index_is_configured, anaconda_channel: None where nothing would answer.
ChannelToAsk(p) ==
  IF p.host # None /\ (run.kind = "prefix" \/ run.candidate # None \/ run.pinned \/ p.host = "anaconda.org")
  THEN p.channel ELSE None

\* The parts of a cache file's name are joined by dashes, too.
FileName(job) ==
  CASE job.index = "pypi" -> <<"pypi">> \o job.package.name
    [] job.index = "prefix" -> <<"prefix">> \o job.channel \o job.package.name
    [] job.index = "anaconda" -> <<"conda">> \o job.channel \o job.package.name

\* cached is what stands in for a failed request; lost, whether one of the job's own
\* requests failed; refused, whether it failed because the index has no such package.
NewJob(p, index, channel) ==
  [package |-> p, index |-> index, channel |-> channel, at |-> "waiting", cached |-> None, text |-> None,
   page |-> 0, pages |-> 0, since |-> 0, lost |-> FALSE, refused |-> FALSE,
   unreachable |-> FALSE]

\* conda_job
CondaJob(p, channel) == NewJob(p, run.kind, channel)

\* None where there is nothing to ask.
JobOf(p, to) ==
  CASE p.version = None -> None
    [] p.version # None /\ p.kind = "pypi" /\ p.index -> NewJob(p, "pypi", None)
    [] p.version # None /\ p.kind = "conda" /\ ChannelToAsk(p) # None ->
         CondaJob(p, IF ChannelToAsk(p) \in DOMAIN to THEN to[ChannelToAsk(p)] ELSE ChannelToAsk(p))
    [] OTHER -> None

ProjectOf(job) ==
  LET index == Editions[edition]
      place == <<job.channel, job.package.name>>
  IN  IF job.index = "pypi"
      THEN IF job.package.name \in DOMAIN index.pypi THEN index.pypi[job.package.name] ELSE None
      ELSE IF place \in DOMAIN index.conda THEN index.conda[place] ELSE None

Entry(job) == IF FileName(job) \in DOMAIN files THEN files[FileName(job)] ELSE None

\* cache_is_usable
IsUsableEntry(entry) ==
  /\ entry # None
  /\ clock - entry.at <= MaxAge \/ run.offline
  /\ run.policy = "default"

Put(file, entry) == [f \in DOMAIN files \cup {file} |-> IF f = file THEN entry ELSE files[f]]

\* What the cache holds after a job stored what it was answered.
Store(job) ==
  IF run.policy = "noCache" THEN files
  ELSE Put(FileName(job), [text |-> job.text, at |-> clock, since |-> job.since])

\* An index of whole projects answers 404 for what it does not have.
NotFound(job) == job.index # "prefix" /\ ProjectOf(job) = None

\* A file is truncated, then written: when the last answer for it has come.
MayResolve == stage \in {"probing", "resolving", "asking"}
Writing(job) ==
  /\ run.policy # "noCache" /\ MayResolve
  /\ \/ job.at = "dating"
     \/ job.at = "asking" /\ job.index # "prefix" /\ ~ run.offline /\ ~ NotFound(job)

\* Another job of the run may have truncated the file of this one.
BeingWritten(j) ==
  \E k \in DOMAIN jobs \ {j} : Writing(jobs[k]) /\ FileName(jobs[k]) = FileName(jobs[j])

\* document, up to the request; the text is read, then the age.
Look(j) ==
  /\ stage \in {"probing", "asking"} /\ jobs[j].at = "waiting"
  /\ LET entry == Entry(jobs[j])
     IN  \E text \in {IF entry = None THEN None ELSE entry.text} \cup (IF BeingWritten(j) THEN {Torn} ELSE {}) :
           jobs' = [jobs EXCEPT ![j] =
                      IF text # None /\ IsUsableEntry(entry)
                      THEN [@ EXCEPT !.at = "answered", !.text = text, !.since = entry.since]
                      ELSE [@ EXCEPT !.at = "asking", !.cached = [text |-> text,
                                                                  since |-> IF entry = None THEN 0 ELSE entry.since]]]
  /\ UNCHANGED <<world, asked, stage, targets, chunks, output>>

\* A job that has an answer in pages asks for the next, or for the day.
NeedsPage(job) ==
  job.page <= LastPage(job.pages) /\ ~ Reaches(job.text.versions, job.package.version)
Onward(job) == [job EXCEPT !.at = IF NeedsPage(job) THEN "paging" ELSE "dating"]

\* resolve, of the first page.
Resolving(job) ==
  LET project == ProjectOf(job)
  IN  Onward([job EXCEPT !.text = PrefixPage(project, job.package.version, job.package.build), !.page = 1,
                         !.pages = IF project = None THEN 0 ELSE NumberOfPages(project),
                         !.since = edition])

\* An index of whole projects answers for those it has.
Fetch(j) ==
  /\ jobs[j].at = "asking" /\ ~ run.offline
  /\ \/ /\ jobs[j].index = "prefix"
        /\ jobs' = [jobs EXCEPT ![j] = Resolving(@)]
        /\ UNCHANGED files
     \/ /\ jobs[j].index # "prefix" /\ ~ NotFound(jobs[j])
        /\ jobs' = [jobs EXCEPT ![j] = [@ EXCEPT !.at = "answered", !.text = ProjectOf(jobs[j]),
                                                 !.since = edition]]
        /\ files' = Store(jobs'[j])
  /\ UNCHANGED <<clock, edition, asked, stage, targets, chunks, output>>

\* What is cached, however old, stands in; and an answer 404 fails a request like
\* any other error.
FetchFails(j) ==
  /\ jobs[j].at = "asking"
  /\ LET entry == jobs[j].cached
     IN  \E refused \in {FALSE, ~ run.offline /\ NotFound(jobs[j])} :
           jobs' = [jobs EXCEPT ![j] =
                      [@ EXCEPT !.at = "answered", !.text = entry.text, !.since = entry.since, !.lost = TRUE,
                                !.refused = refused, !.unreachable = entry.text = None /\ ~ run.offline]]
  /\ UNCHANGED <<world, asked, stage, targets, chunks, output>>

\* Mutant: pages are counted from one.
TurnPageFromOne(j) ==
  /\ MayResolve /\ jobs[j].at = "paging"
  /\ LET job == jobs[j]
         project == ProjectOf(job)
         page == IF project = None THEN <<>> ELSE VersionPage(project, job.page - 1)
     IN  jobs' = [jobs EXCEPT ![j] = Onward([job EXCEPT !.text.versions = @ \o page, !.page = @ + 1])]
  /\ UNCHANGED <<world, asked, stage, targets, chunks, output>>

\* page_down_to, a page at a time.
TurnPage(j) ==
  /\ MayResolve /\ jobs[j].at = "paging"
  /\ LET job == jobs[j]
         project == ProjectOf(job)
         page == IF project = None THEN <<>> ELSE VersionPage(project, job.page)
     IN  jobs' = [jobs EXCEPT ![j] = Onward([job EXCEPT !.text.versions = @ \o page, !.page = @ + 1])]
  /\ UNCHANGED <<world, asked, stage, targets, chunks, output>>

\* What was read so far is kept.
PageFails(j) ==
  /\ MayResolve /\ jobs[j].at = "paging"
  /\ jobs' = [jobs EXCEPT ![j] = [@ EXCEPT !.at = "dating", !.lost = TRUE]]
  /\ UNCHANGED <<world, asked, stage, targets, chunks, output>>

\* date_the_newest, if its day is not there; then the answer is stored.
Date(j) ==
  /\ MayResolve /\ jobs[j].at = "dating"
  /\ LET job == jobs[j]
         newest == UndatedNewest(job.text)
         project == ProjectOf(job)
         days == IF newest = None \/ project = None THEN {}
                 ELSE IF Known(project, newest) THEN {<<newest, project.published[newest]>>} ELSE {}
     IN  \E dated \in {{}, days} :
           jobs' = [jobs EXCEPT ![j] = [job EXCEPT !.at = "answered", !.text.dates = @ \cup dated]]
  /\ files' = Store(jobs'[j])
  /\ UNCHANGED <<clock, edition, asked, stage, targets, chunks, output>>

JobStep(j) == Look(j) \/ Fetch(j) \/ FetchFails(j) \/ TurnPage(j) \/ PageFails(j) \/ Date(j)

AllAnswered == \A j \in DOMAIN jobs : jobs[j].at = "answered"

(***************************************************************************)
(* A document.                                                              *)
(***************************************************************************)
NoJobs == [j \in {} |-> None]

Init ==
  /\ clock = 0 /\ edition = 1 /\ files = [f \in {} |-> None]
  /\ runs = 0 /\ run = None /\ doc = 0
  /\ stage = "idle" /\ targets = [c \in {} |-> None] /\ chunks = {} /\ jobs = NoJobs /\ output = None

Begin(r) ==
  /\ stage = "idle" /\ runs < MaxRuns
  /\ runs' = runs + 1 /\ run' = r /\ doc' = 0
  /\ stage' = "next" /\ output' = None
  /\ UNCHANGED <<world, targets, chunks, jobs>>

\* The first package of each channel stands for it.
Representatives(packages) ==
  {i \in DOMAIN packages : /\ packages[i].kind = "conda" /\ packages[i].channel # None
                           /\ \A k \in 1..i - 1 : packages[k].kind = "conda" => packages[k].channel # packages[i].channel}

\* channel_targets, its probes.
StartDocument ==
  /\ stage = "next" /\ doc < Len(run.documents)
  /\ doc' = doc + 1
  /\ LET packages == run.documents[doc + 1]
         probes == {i \in Representatives(packages) : run.candidate # None /\ packages[i].channel # run.candidate}
     IN  jobs' = [i \in probes |-> CondaJob(packages[i], packages[i].channel)]
  /\ stage' = "probing" /\ output' = None
  /\ UNCHANGED <<world, runs, run, targets, chunks>>

ReleasesOf(job) ==
  CASE job.text \in {None, Torn} -> <<>>
    [] job.text \notin {None, Torn} /\ job.index = "prefix" -> PrefixReleases(job.text)
    [] OTHER -> ProjectReleases(job.text, job.index)

\* channel_targets, what they say.
Targets ==
  LET channelOf(i) == Packages[i].channel
      unknown == {channelOf(i) : i \in {k \in DOMAIN jobs : ReleasesOf(jobs[k]) = <<>>}}
  IN  [c \in {channelOf(i) : i \in Representatives(Packages)} |-> IF c \in unknown THEN run.candidate ELSE c]

\* warm_in_batches: what the cache cannot answer, if that is two jobs or more.
Chunks(all) ==
  LET wanted == {j \in DOMAIN all : all[j].index = "prefix" /\ ~ IsUsableEntry(Entry(all[j]))}
      ChunkOf(j) == Cardinality({k \in wanted : k < j}) \div Batch
  IN  IF run.offline \/ Cardinality(wanted) < 2 THEN {}
      ELSE {{k \in wanted : ChunkOf(k) = ChunkOf(j)} : j \in wanted}

StartBatches ==
  /\ stage = "probing" /\ AllAnswered
  /\ targets' = Targets
  /\ jobs' = LET of == [i \in DOMAIN Packages |-> JobOf(Packages[i], targets')]
             IN  [i \in {k \in DOMAIN of : of[k] # None} |-> of[i]]
  /\ chunks' = Chunks(jobs')
  /\ stage' = "batching"
  /\ UNCHANGED <<world, asked, output>>

\* A package the index does not know is asked for on its own.
AskBatch(c) ==
  /\ stage = "batching" /\ c \in chunks
  /\ jobs' = [j \in DOMAIN jobs |-> IF j \in c /\ ProjectOf(jobs[j]) # None THEN Resolving(jobs[j]) ELSE jobs[j]]
  /\ chunks' = chunks \ {c}
  /\ UNCHANGED <<world, asked, stage, targets, output>>

\* So is what a failed batch asked for.
BatchFails(c) ==
  /\ stage = "batching" /\ c \in chunks
  /\ chunks' = chunks \ {c}
  /\ UNCHANGED <<world, asked, stage, targets, jobs, output>>

ResolveBatches ==
  /\ stage = "batching" /\ chunks = {}
  /\ stage' = "resolving"
  /\ UNCHANGED <<world, asked, targets, chunks, jobs, output>>

AskRest ==
  /\ stage = "resolving" /\ \A j \in DOMAIN jobs : jobs[j].at \in {"waiting", "answered"}
  /\ stage' = "asking"
  /\ UNCHANGED <<world, asked, targets, chunks, jobs, output>>

(***************************************************************************)
(* The report.                                                              *)
(***************************************************************************)
\* Mutant: a package without a hash is taken on trust.
HashIfRecorded(job) ==
  job.package.sha # None =>
    job.package.sha \in IF job.index = "prefix" THEN job.text.hashes
                        ELSE ProjectHashes(job.text, job.package.version)

\* hash_vouches_for
HashVouches(job) ==
  /\ job.package.sha # None
  /\ job.package.sha \in IF job.index = "prefix" THEN job.text.hashes
                         ELSE ProjectHashes(job.text, job.package.version)

IsSubstituted(job) ==
  /\ job.package.kind = "conda"
  /\ job.package.channel \in DOMAIN targets /\ targets[job.package.channel] # job.package.channel

\* run_counted: whether there are releases to compare a package with.
IsCompared(i) ==
  /\ i \in DOMAIN jobs /\ ~ jobs[i].unreachable
  /\ ReleasesOf(jobs[i]) # <<>>
  /\ IsSubstituted(jobs[i]) => HashVouches(jobs[i])

IsUnreachable(i) == i \in DOMAIN jobs /\ jobs[i].unreachable

\* The steps from the least that is worth a row.
StepsFrom(least) ==
  CASE least = "patch" -> {"patch", "minor", "major", "-"}
    [] least = "minor" -> {"minor", "major"}
    [] least = "major" -> {"major"}

\* Report::outdated, keep_outdated.
Report ==
  LET compared == {i \in DOMAIN Packages : IsCompared(i)}
      rows == {[package |-> i, status |-> Status(ReleasesOf(jobs[i]), jobs[i].package.version)] : i \in compared}
      rest == DOMAIN Packages \ compared
      unavailable == {i \in rest : IsUnreachable(i)}
      unknown == {i \in rest \ unavailable : Packages[i].index \/ Packages[i].kind = "conda"}
      behind == {row \in rows : row.status.behind > 0}
  IN  [checked |-> rows,
       rows |-> IF run.least = None THEN rows ELSE {row \in behind : row.status.step \in StepsFrom(run.least)},
       steps |-> {<<s, Cardinality({row \in behind : row.status.step = s})>> : s \in {row.status.step : row \in behind}},
       unavailable |-> unavailable, unknown |-> unknown,
       notChecked |-> rest \ (unavailable \cup unknown)]

Conclude ==
  /\ stage = "asking" /\ AllAnswered
  /\ output' = Report
  /\ stage' = "reported"
  /\ UNCHANGED <<world, asked, targets, chunks, jobs>>

NextDocument ==
  /\ stage = "reported"
  /\ stage' = "next" /\ jobs' = NoJobs
  /\ UNCHANGED <<world, asked, targets, chunks, output>>

EndRun ==
  /\ stage = "next" /\ doc = Len(run.documents)
  /\ stage' = "idle" /\ targets' = [c \in {} |-> None]
  /\ UNCHANGED <<world, asked, chunks, jobs, output>>

(***************************************************************************)
(* The world: days pass between runs, releases are published at any time,    *)
(* and a run may be killed while it writes.                                 *)
(***************************************************************************)
Tick ==
  /\ stage = "idle" /\ clock < MaxTime
  /\ clock' = clock + 1
  /\ UNCHANGED <<edition, files, asked, stage, targets, chunks, jobs, output>>

Publish ==
  /\ edition < Len(Editions)
  /\ edition' = edition + 1
  /\ UNCHANGED <<clock, files, asked, stage, targets, chunks, jobs, output>>

Kill ==
  /\ stage # "idle" /\ runs < MaxRuns
  /\ \E j \in DOMAIN jobs \cup {0} :
       files' = IF j # 0 /\ Writing(jobs[j])
                THEN Put(FileName(jobs[j]), [text |-> Torn, at |-> clock, since |-> 0]) ELSE files
  /\ stage' = "idle" /\ targets' = [c \in {} |-> None] /\ chunks' = {} /\ jobs' = NoJobs /\ output' = None
  /\ UNCHANGED <<clock, edition, asked>>

RunStep ==
  \/ StartDocument \/ StartBatches \/ ResolveBatches \/ AskRest \/ Conclude \/ NextDocument \/ EndRun
  \/ \E c \in chunks : AskBatch(c) \/ BatchFails(c)
  \/ \E j \in DOMAIN jobs : JobStep(j)

\* Nobody asks for more: the only place where the program may rest.
Rest == stage = "idle" /\ runs = MaxRuns /\ UNCHANGED vars

Next == (\E r \in Runs : Begin(r)) \/ RunStep \/ Tick \/ Publish \/ Kill \/ Rest

Spec == Init /\ [][Next]_vars

-------------------------------------------------------------------------------
\* What the index of a job has of its package at an edition, and how many releases of
\* that are newer than the package.
ProjectAt(job, e) ==
  IF job.index = "pypi" THEN Editions[e].pypi[job.package.name]
  ELSE Editions[e].conda[<<job.channel, job.package.name>>]

NewerReleases(job, project) ==
  Cardinality({v \in Range(project.versions) :
                 /\ ~ IsPrerelease(v) /\ IsNewer(v, job.package.version)
                 /\ job.index = "pypi" => v \notin project.yanked})

SaysHowFar(job, behind) ==
  LET then == ProjectAt(job, job.since)
      published == Len(ProjectAt(job, edition).versions) - Len(then.versions)
  IN  IF job.index = "prefix"
      THEN /\ behind <= NewerReleases(job, then) + published
           /\ Reaches(job.text.versions, job.package.version) => NewerReleases(job, then) <= behind
      ELSE behind = NewerReleases(job, then)

(***************************************************************************)
(* A row says how far behind a package was when its index was asked.  Where  *)
(* the answer came in pages it may say more by as many releases as were       *)
(* published since, each of which puts one onto two pages, and less only if  *)
(* the pages that were read do not reach the installed version.              *)
(***************************************************************************)
BehindIsSound ==
  stage = "reported" => \A row \in output.checked : SaysHowFar(jobs[row.package], row.status.behind)

(***************************************************************************)
(* Each package is held against its own history or none: where its channel   *)
(* is not one the index knows, its row is of the candidate only if that has   *)
(* the very file.  Of the packages without a row, those are called           *)
(* unavailable of which a request of its own, not of a batch, failed, an      *)
(* answer that there is no such package among the failures (see              *)
(* UnavailableWentUnanswered), and nothing is cached.  One of which the index *)
(* has had releases all along is not among the unknown, whichever batches    *)
(* failed, unless a request of its own failed, its cache file is torn, or a   *)
(* candidate was asked in place of its channel.                             *)
(***************************************************************************)
Carries(job, e) ==
  IF job.index = "pypi"
  THEN job.package.name \in DOMAIN Editions[e].pypi /\ Editions[e].pypi[job.package.name].versions # <<>>
  ELSE LET place == <<job.channel, job.package.name>>
       IN  place \in DOMAIN Editions[e].conda /\ Editions[e].conda[place].versions # <<>>

NoPackageIsMisplaced ==
  stage = "reported" =>
    /\ \A row \in output.checked :
         LET job == jobs[row.package]
             Has(e) == LET place == <<job.channel, job.package.name>>
                       IN  /\ place \in DOMAIN Editions[e].conda
                           /\ Known(Editions[e].conda[place], job.package.version)
                           /\ job.package.sha \in Range(Editions[e].conda[place].builds[job.package.version])
         IN  job.package.kind = "conda" /\ job.channel # job.package.channel => \E e \in 1..edition : Has(e)
    /\ output.unavailable =
         {i \in DOMAIN jobs : jobs[i].lost /\ ~ run.offline /\ jobs[i].text = None}
    /\ \A i \in output.unknown \cap DOMAIN jobs :
         LET job == jobs[i]
         IN  \/ job.lost \/ job.text = Torn
             \/ job.package.kind = "conda" /\ job.channel # job.package.channel
             \/ \E e \in 1..edition : ~ Carries(job, e)
    /\ {row.package : row \in output.checked} \cup output.unavailable \cup output.unknown \cup output.notChecked
         = DOMAIN Packages

(***************************************************************************)
(* "Packages whose index could not be reached at all, as distinct from       *)
(* packages no index carries" (outdated.rs): none is called unavailable whose *)
(* index answered that it has no such package.                              *)
(***************************************************************************)
UnavailableWentUnanswered ==
  stage = "reported" => \A i \in output.unavailable : ~ jobs[i].refused
=============================================================================

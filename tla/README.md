# A TLA+ model of pixi-sbom

pixi-sbom (Rust, some 46 000 lines with its unit tests) writes a Software Bill of
Materials for every environment and platform of a lockfile, and can enrich it
from half a dozen network services, each behind a cache on disk that all
invocations share. This directory holds a TLA+ model of the parts of the
program where order, failure and sharing decide what comes out, the TLC
configurations that check it on small instances, and proofs of its main
invariants that hold for every instance.

Paths such as `kev.rs:167` are in `src/src/`. `PROJECT.json` maps each
definition to the lines it models, and lists runs, mutants, hazards, findings
and theorems.

## 1. The system

### How a run goes

`main.rs` reads the command line and up to three configuration files, captures
the cache policy and the limits on concurrency once for the process, and then
treats one document (environment × platform) after the other: read the lock,
filter, enrich, apply policies, write the document or the report, collect what
the gates have to say. With several documents the enrichment that is the same
for all is done once before the loop (`shared_enrichment`, `batch.rs`). The exit
code is decided after the loop.

Components share state in three ways:

* the **cache directory**, shared by every invocation on the machine, with no
  lock and no atomic replacement except one `rename`;
* **process globals** (`OnceLock`s, atomics and mutexes in `cache.rs`,
  `concurrency.rs`, `license.rs`, `http.rs`), written by the first to come;
* the **`Sbom` model**, which each enrichment step changes in place.

### Inventory

The state column names what outlives one call.

| Component | Source | State | Operations | What is hard, and what makes it correct |
|---|---|---|---|---|
| Document caches | `mapping.rs`, `kev.rs`, `scorecard.rs`, `cache.rs` | one file per document with its modification time; hits, misses and stale services of the process | load: read, age, download, write, fall back | readers see files while they are written; a copy of unknown age; a stale answer has to be called out; `--no-cache` touches nothing |
| Archive caches | `wheel.rs`, `condaarchive.rs`, `pkgcache.rs`, `embedded.rs`, `cache.rs` | a directory per archive, a staging directory beside it, scratch directories | extract, evict, rename, read back, remove scratch | kills between any two file operations; two runs with one staging directory; an entry is whole or absent |
| OSV lookup | `osv.rs` | a query file per purl, a record file per advisory | ask in chunks, page by page; fetch records with workers | results matched by position while the set of open queries shrinks; two caches that age differently; no advisory lost or misattributed |
| EPSS scores | `epss.rs` | one file for all CVEs, rewritten as a whole | read, ask in batches, fall back per batch, write | lost updates between runs and between the documents of one run; partial failure |
| Concurrency and retries | `concurrency.rs`, `http.rs` | `LIMITS`, `WORK`, the pool | map jobs over a pool, try again on 429/502/503/504 | limits at zero, refused threads, retry budgets; requests in flight never exceed the configuration |
| Run and exit codes | `main.rs`, `lib.rs` | results and gate messages of the run | loop over documents, gates, exit code | early ends of a document's turn; one gate hiding another; globals that belong to another document |
| Configuration | `config.rs`, `cli.rs`, `main.rs` | none | layer files and flags, refuse what does not go together | which layer wins per key; a key and one it depends on said in different places |
| Discovery | `discover.rs`, `main.rs` | none | search upward, walk a tree, name the outputs | two documents with one path; links and directories nobody may read |
| Lock readers, manifests | `lock.rs`, `uv.rs`, `poetry.rs`, `pdm.rs`, `pylock.rs`, `condalock.rs`, `explicit.rs`, `requirements.rs`, `unlocked.rs`, `extras.rs`, `scope.rs`, `manifest.rs` | none | reachability along edges whose markers hold; declarations | cycles, extras asked for late, files that include each other, packages needed for two reasons |
| Filter, merge, diff | `filter.rs`, `merge.rs`, `diff.rs` | none | remove and close again; identity by purl; match and compare | survivors stay connected; colliding ids; several releases of one name |
| Writers and readers | `format/*.rs`, `embedded.rs`, `fromsbom.rs` | the documents on disk | mint references, write, read back | what a format cannot say is lost on the way; identifiers collide |
| Metadata lookups | `wheel.rs`, `pkgcache.rs`, `condaarchive.rs`, `pypi.rs` | a file per release; the `network_down` flag | read, take on, look up with workers | a torn file taken for an answer; a flag set by one worker and read by others; whose word counts |
| Shared lookups | `batch.rs` | the union of the documents' packages | union, between, apply | equality with looking each document up alone |
| Explain | `explain.rs` | none | a fact, its source, and what was considered | the source named must be the one; "nothing there" must be true |
| Duplicate findings, gate, VEX | `osv.rs`, `vulnpolicy.rs`, `vexin.rs`, `cvss.rs` | none | merge by alias; apply statements and ignores in order; gate | transitive aliases; partial statements; a rule that hides what it should not |
| License policy | `policy.rs`, `license.rs` | a budget for license texts, per process | evaluate AND/OR expressions, shorten texts | precedence of deny over allow; a shared budget |
| Names, quality, scorecards | `mapping.rs`, `cpe.rs`, `quality.rs`, `scorecard.rs` | a file per scorecard | identity, percentages and scores against thresholds | rounding at the threshold; whose score it is |
| Installed environments | `prefix.rs`, `npm.rs`, `auditable.rs`, `gobuild.rs`, `cran.rs`, `verify.rs` | none | read records, distributions and binaries; attach components | one release found twice; order of a directory; components that hang together; paths of this machine |
| Python, phantom and package reports | `pyversion.rs`, `phantom.rs`, `imports.rs`, `stdlib.rs`, `report.rs` | none | bounds of Requires-Python; declared, imported and installed sets; trees | exclusions inside a minor version; strings that look like imports; cycles under a depth |
| Outdated report | `outdated.rs` | a file per package and channel, for a day | batches, pages, probes; releases since | a file written for another document; a release between two pages; a channel that is not the index's |
| Zip archives by range | `zipread.rs` | none | find and read a member | ranges at the ends of a file |
| Credentials, mirrors | `auth.rs`, `mirror.rs` | none | match a host | text matching |
| Terminal, doctor | `timings.rs`, `style.rs`, `progress.rs`, `doctor.rs` | none | render, probe | wording and layout |

## 2. The modules

```
DocCache ── MCDocCache                 NetworkPool ── MCNetworkPool
   └─ DocCache_proofs                     └─ NetworkPool_proofs
ArchiveCache ── MCArchiveCache         OsvLookup ─── MCOsvLookup
   │  └─ ArchiveCache_proofs              └─ OsvLookup_proofs
   │                                   EpssCache
   └─ INSTANCE ArchiveStore               └─ EpssCache_proofs
      (the abstract specification)     Run ───────── MCRun
                                          └─ Run_proofs

Sboms ─┬─ PythonLocks, CondaLocks, Manifests, Composition, Formats
       │      └─ Documents ───────┐
       ├─ Metadata ── Enrichment ─┤
       ├─ Discovery ──────────────┼─ Scans ── MCScans
       ├─ Explained ──────────────┘    └─ Scans_proofs
       ├─ Configuration, Licenses, Quality ─┐
       ├─ Advisories ── Triage ─────────────┴─ Findings ── MCFindings
       └─ Installed ── Usage ── Environments ── MCEnvironments
Outdated ── MCOutdated
   └─ Outdated_proofs
```

There are two layers. The first (`DocCache` to `Run`) is about processes: what
they do to the caches they share, to the pool and to the exit code, call by
call, with kills and failures anywhere. The second (everything over `Sboms`, and
`Outdated`) is about documents: what the program makes of them between the two
ends of a run. Each of its machines, `Scans`, `Findings`, `Environments` and
`Outdated`, takes a document through the steps of `main` in order; the modules
under it hold what a step computes, as operators. They share `Sboms`, the
program's own model of a document, and so its packages, scopes and purls.

The layers meet where the code's do: to `Run` each lookup is a step that may
note a failure or an expired copy, which is what the second layer says of it in
its `notes` and `incomplete`; a run of `osv.rs` is a set of jobs to
`NetworkPool`, and the pool to `OsvLookup` and `Enrichment` is the free order in
which their workers go on; what a wheel's cache directory goes through is
`ArchiveCache`'s, and to `Enrichment` a wheel could be read or not.

### DocCache

State: the file with its text and modification time, and per loader what the
function keeps in locals (`now`, the text read, the body downloaded). A body is
represented by the time it was downloaded, so its age is the clock minus the
body. `Torn` is a file that was truncated or half written, `Bad` a page that is
not JSON. `aged` is a history variable: the text that was in the file when its
age was read.

The code reads the text, then the metadata (`kev.rs:165–167`), so `ReadText` and
`Hit`/`Miss` are separate steps. `std::fs::write` is `Open` (truncate) and
`Fill`. Every step may be the last one before `Crash`. The three services differ
where the code differs: the mapping has no offline clause and distrusts files
from the future (`Young`), the scorecard is written before it is parsed
(`Keeps`) and does not call `cache::stale` (`SaysStale`).

### ArchiveCache and ArchiveStore

State: for the cache and for the scratch directory of each process, the staging
directory and the final one, each `Absent` or the set of members completely
written in it. The actions follow `extract` (`wheel.rs:164–228`) and
`write_info_files` (`condaarchive.rs:208–254`) call by call: clear staging,
create it, write a member, remove the old directory member by member, rename,
read back. The two layouts differ in what an eviction or a rename that fails
leads to. A process may be given the id of one that is gone, so its scratch
directories hold anything to begin with, and their removal may give up anywhere:
`cache.rs:176` ignores the error. `ArchiveStore` is what a caller may rely on: an
entry is absent or whole, an answer is whole or a failure.

### OsvLookup

One run at a time over both caches, killed at any step, with OSV as the
environment. `Post(n)` is one answer with results for the first n open queries;
`Target` is the purl the j-th result is given to, which is right only because
the request was built from `Open`. A stamp is the version of an advisory; 0 is
an advisory named without `modified`. Each answer has its own stamp of an advisory;
the code keeps that of the last purl in order (`Modified`). `changed`, a history
variable, is when OSV modified an advisory. `Those` picks the members of a set from a
sequence, their order kept, as the filters of an iterator do. `turn` flips with each request so that a
request that makes no progress is a step and not a stutter; `shorted` remembers
that OSV once gave fewer results than it was asked.

### EpssCache

The file is a function from CVEs to the time their score was fetched. A process
looks up one document after the other, each from its own read of the file.
`Readable` lets a reader find the file truncated while another process writes.
`overtaken` is a history variable.

### NetworkPool

`LIMITS`, `WORK` and `NETWORK_POOL` with the batches of jobs, the attempts of
each job and the milliseconds its thread has slept. The backoff constants are
those of `http.rs`. rayon is external: `num_threads(0)` gives a thread for each
core, and the operating system may refuse a pool.

### Run

What `main` does once the command line is read (`main.rs:363–1110`), one action
per step between two `?`s: the mapping, the catalog, the shared lookup, then for
each document its model, its lookups, its gates, its report or its file, and
after the loop the reports on stdout and the exit code. A command line is a
record of the gates it asks for, its flags and its report; `Legal` is what
`validate` lets through. A document is its `input`, the gates it runs into
(`trips`), what it lacks (`missed`, a history variable) and what it says it lacks
(`incomplete`).

The process globals are variables of their own: `stale` (`cache.rs`), `held` and
`dropped` (`license.rs`), written by the lookups of any document and read when
one is written (`Unfinished`). `WriteOutput` compares, truncates and fills,
`DropWriter` is the end of the `BufWriter`'s scope, so a run killed in between
leaves a file without its end, and the next run with the same command line
(`RunAgain`) compares with that. `late`, a history variable, holds the documents of
this run whose last piece the disk refused. `Fails` is a `?`.

### Documents

A lock is read, with the manifests beside it, filtered and written; a later run
reads another lock, or that document back, and compares or merges the two. The
walks that have a work list in the code, `uv.rs:298` and the nested files of
`requirements.rs:422`, are walked here too (`walk`, `reading`), one package or
file a step; the other readers are a step each. What is not a lock's is a value:
a marker is the set of platforms it holds for (and `None` where it does not
parse), a version a number, a name a string whose other spellings are in
`Spelling`, the one a comparison uses in `Keyed` (`diff.rs:336` changes capitals and
underscores only) and the parts SPDX makes of it in `Fragments`.

* `PythonLocks` (uv, Poetry, PDM, pylock, requirements) and `CondaLocks` (pixi,
  conda-lock, explicit) turn an entry of each format into a package, with its
  edges, extras and scope; the scopes are `Sboms`'
  (`scope.rs`), so a lock's groups and a manifest's meet there.
* `Manifests` gives what the user declared; it sets names, scopes and what was
  asked for (`Apply`).
* `Composition` has the filter, the merge and the comparison.
* `Formats` mints the references of each format, in SPDX from what `id_fragment`
  leaves of kind, name and version, so that two packages may ask for the same one and
  the second gets a `-2`, which a third may have by its own name (`spdx.rs:178–212`);
  it writes a document as its
  components and edges, and reads it back the way `embedded.rs`, `fromsbom.rs`
  and `diff.rs` do. What a format does not say, the writer loses.

### Scans

A run from the working directory on. `LookForLocks` and `OpenLock` are
`Discovery`: the upward search, `--scan` with its depth, hidden and unreadable
directories and links, the advice where nothing is found, and the file each
document goes to. Names that `main.rs` joins with dashes are sequences of the
words between them, so that two documents with one path would be seen.

`LookUp` starts `Enrichment`, `--fetch-licenses` for the documents at hand:
wheels, then the package cache, then archives (none if nothing is missing; a
legacy archive only if it is known to be small), then PyPI. There each release is
a job: `Look` finds it in the cache, whole or torn, or gives it up because
`down` is set, or asks; then it is answered, refused, or finds the network
unreachable, which sets `down` for those that follow. Of two documents or more
the union is looked up once and `ShareOut` gives each its share; with
`--embedded-sboms` each is looked up for itself. `Metadata` says how a package
takes on what was found, and `Explained` what `--report explain` says of it.

### Findings

A run's settings and what becomes of the findings on one document.
`LoadConfiguration` finds the files, `ApplyNextLayer` lays one over the others,
`CheckSettings` is `validate` and the parsing of values (`Configuration`). Then
the packages get the names others know them by (`Quality`), OSV is asked, and
`UniteNext` joins the findings that share a name one pair at a time, through the
union-find forest of `osv.rs:684` (`Advisories`). The catalog, the scores, the
VEX statements and the ignores are applied one by one in their order (`Triage`);
the gates look at what is open (`CheckGates`, `Licenses`); scorecards are read
(`ReadScorecards`); and a report or a document says what it says
(`Triage`). A severity is a rank, a score an integer in tenths or
hundredths.

### Environments

An installed environment, its records in any order a directory may list them:
`ReadEnvironment` (`Installed`) tells its layout and makes one package of a conda
record and its distribution; then it is filtered, named for CRAN, completed with
npm packages, crates, Go modules, vendored copies and the SBOMs of its wheels
(`Installed` as well), compared with its files, and reported on (`Usage`) or written, with
the places of this machine made portable. A line of a source is known by its
delimiters and by the modules it imports. What a direct URL says of a distribution
is kept: a checkout's location is `git+` and its URL, and any other URL gives it a
generic purl (`prefix.rs:1091`, `purl.rs:158–176`). `Importable` spells a
distribution's name as an import does, and `Pieces` are what is read back of a path
with a `, ` in it, which `main.rs:538` joins the changed files on.

### Outdated

`--report outdated` over several documents, runs and days. A run's jobs proceed
concurrently, each a request at a time; the indexes may publish between any two
(`Publish`), the run may be killed, and the cache outlives it. A batch asks
prefix.dev about several packages, then each package for its further pages and
the day of its newest release; a channel the index does not know is probed and
taken for a mirror of a candidate, where the package's hash has to vouch for it.
PyPI and anaconda.org may answer that there is no such package (`NotFound`). A
document that one job writes (`Writing`) may be found torn by another, and is left so
where the run is killed.
Versions are tuples whose last member says whether they are final.

## 3. What is checked

| Run | What it shows | Bounds |
|---|---|---|
| `doc_cache` | a mapping or catalog past its lifetime is never answered without being called out | 2 loaders, 3 services, clock 0–2, lifetime 0, write lag 1 |
| `archive_cache` | beside a `--no-cache` run a writer's cache holds nothing or the whole archive, killed or not, and `ArchiveStore` is implemented; the `--no-cache` run answers with the whole archive and changes nothing in the cache | 2 processes, one of them a writer, 3 members, both layouts, any leftovers in a scratch directory |
| `osv_lookup` | every purl has exactly its advisories, no record is older than the caches may be, the lookup ends | 3 purls in requests of 2, 2 advisories, pages of 1, clock 0–1 |
| `epss_shared` | every CVE is answered, no score older than a day unless called out, none forgotten by an undisturbed run | 2 processes, 2 CVEs in batches of 1, clock 0–2, lifetime 1 |
| `network_pool` | requests in flight, attempts and sleeps within their limits; every document finished | documents of 1+2 and 0+2 packages, 1 or 2 requests in flight, systems that grant 0, 1 or 9 threads |
| `run` | the exit code names the first gate that tripped; what was asked for is left behind, but for a last piece the disk refused; a document says what it lacks | 1 or 2 documents, every pair of gates under every report and six sets of lookups, 2 inputs, 2 texts with room for 1 |
| `documents` | locks of every kind are read, filtered, written, read back, merged, compared, found in a tree, completed and explained, each up to a reference of its own | 12 inputs and 4 that are refused, each with every one of the others; 4 filters, one of which leaves all, 4 formats; 3 small locks for the lookups; a tree of 11 directories under 270 command lines |
| `documents_merge` | a disagreement of section 5: a merge gives a package an edge its input does not have | the inputs of `documents` |
| `environments` | every release is listed once, components hang together, nothing but a checkout's URL names a place of this machine, reports agree with their references | 7 environments, records in every order, 2 filters, 4 reports and none |
| `findings` | aliases give one finding whatever their order; gate and license policy agree with their references under settings from any place; no report hides what another shows | 4 packages, 5 advisories, 5 lists of statements, 5 of ignores, 3 gates, 6 license policies, 3 scorecard gates, 8 requests that are refused |
| `outdated` | a row says how far behind the package was when its index was asked, more only by what was published since; a mirror is believed only where the hash vouches, and each package is in the one list that says why it has no row | 8 runs of which 2 in a row, 2 editions of the indexes, clock 0–2, pages and batches of 2 |
| `outdated_missing` | a disagreement of section 5: a package its index does not have is listed under the indexes that did not answer | the runs of `outdated` |

Why the bounds are enough to be interesting:

* Two loaders or processes: every interaction here is between one that reads and
  one that writes; the proofs of section 4 cover any number for the components
  they are about.
* Lifetime 0 with a clock to 2 gives a copy that is fresh, one that is too old
  and one that gets too old while a call is under way; a write may land one tick
  after its download.
* Three members are the marker, a license file and an SBOM: an entry with the
  marker and without the rest is the dangerous one.
* Purls with two pages, one page and none, in requests of two, make the open
  queries shrink in the middle of a chunk, and the last purl is a chunk of its
  own; one advisory belongs to two purls, one advisory is modified once, the
  other is named without `modified`.
* Two documents and two inputs in `run`: what one document leaves in a global or
  in a gate's list meets the other, and a run over the files of an earlier one
  finds them the same or different. Pairs of gates put each gate before and behind
  each other in the order of the exit codes.
* An empty first document gives a cap of zero, which for rayon would be a thread
  for each core.
* The locks of `documents` have extras that ask for one another and for their own
  package, after it was visited and around a cycle; a release from two sources; a
  package for another platform and a marker that does not parse; groups and
  requirement files that include each other; a name that conda and PyPI both have;
  and there are two documents of somebody else that use one id for different
  packages.
* Two names of the inputs differ only in what an identifier replaces, and `six-1` has
  the version of another package in it. The two small conda locks share ids,
  and only one of them states a license, in either order; the
  uv.lock has a package without a wheel. Each release is in the cache whole, torn
  or not at all, at least one of them not at all.
* In the tree two locks lie in one directory, named pylocks beside each other, and
  locks where a scan must not go: below a hidden, a skipped and an unreadable
  directory and behind a link. Platforms are the known ones, whose words cannot
  be taken for those of an environment's name (section 5 on those that can).
* PYSEC-1 joins two advisories that share no name, and OSV may name the three in
  any order; statements are full and partial, earlier and later, understood and
  not. At most one OSV record is not had, and at most one project's scorecard.
  No score of a card lies halfway between two tenths, and no two projects share a
  cache file (`CardFile` shows which would).
* The settings are on the command line, in the project, split over three files,
  under a `--config` that says the contrary, or in files that `--no-config`
  leaves out; `Contrary` is a layer below that says something else for every key.
* Numpy has more versions than `outdated` asks for, so that a row may be a floor;
  while the program runs, a prerelease of numpy and a release of requests are
  published and another release of requests is yanked.

Counters have no other bounds: `MaxTime` on a clock, `MaxRuns` on the runs of
`outdated`, `WriteLag` on how long after a download its write may come,
`Unmodified` and one modification for each other advisory.

**References.** A property of the second layer compares what the code's way of
computing leaves with what it is for, said in another way: the walk over uv.lock
with the reachability of its whole graph (`UvNeeds`), the union-find with the
connected components of the aliases, the stack of a license expression with the
ways there are to comply with it, the layers of settings with the first place
that says anything of a key (`Asked`), the pages of an index with its history.

**Deadlock** is checked except for `network_pool`, `documents`, `documents_merge`,
`findings` and `environments`, whose runs stop at their end.

**Fairness.** `OsvLookup` has `WF_vars(Work)`: a run that is not killed goes on,
since every request ends by its timeout (`http.rs`) and the other steps are
local. Kills, ticks and OSV's changes are not fair, and no upstream has to
succeed. `NetworkPool` has `WF_vars(Next)`: a thread whose request has ended or
whose sleep is over goes on, and an idle one takes the next job; neither success
nor failure is fair by itself. `Documents` and `Scans` are fair to the loop of a
reader (`ReadingGoesOn`), which is local and sequential. The other modules state
safety only and assume no fairness.

In `run`, `Evaluated` leaves the scorecard gate out under `--report outdated`, which
never gets to it; section 5 has that.

**Exceptions the properties name.** Each is a disagreement or a limit of a
format, and in section 5:

* `NoSilentStaleness` excepts a loader whose file was replaced between the two
  reads it makes; `AdvisoriesAreExact` short answers, and `NoScoreIsForgotten` an
  overlapping write of another run.
* `RecordIsRecent` bounds the age of what a finding is built from by the lifetime of
  the caches. That no record is older than what an answer of the same run says
  (`RecordFollowsStamps`) is not so.
* `ArtifactIsLeft` wants a document whole but for a last piece the disk refused
  (`late`); that the run then fails (`ExitMeansWritten`) is not so.
* `DocumentsSurvive` excepts SPDX 3.0 for what only a comparison reads of it, and
  in SPDX 2.3 edges into a scope and licenses that are no expression.
* `MetadataIsOwn`, `EveryLackIsSaid` and `ExplainIsTrue` hold whatever the locks of a
  run say of a package they share. But what is looked up is what the first of them
  lacks (`LookedUpFor`), so a license which that one states is not looked up for the
  others; and a release whose cache file is torn (`IsTorn`) is one that could not be
  read. What would hold otherwise is `OwnWordStands`, `EveryLicenseIsFetched` and
  `TornIsNoticed`. Only locks all of whose packages `Upstream` knows are looked up
  (`IsKnown`).
* `BehindIsSound` lets a row say more than there was by as many releases as were
  published since, where the answer came in pages, and less only where the pages
  that were read do not reach the installed version.
* To `NoPackageIsMisplaced` an index that has no such package is one that did not
  answer, as the code has it; `outdated_missing` refutes what the documents say. A
  package may be said to be one without releases if its own request failed, its cache
  file is torn, a candidate was asked in place of its channel, or the index did not
  have it all along.
* `DocumentNamesNoPlace` is about environments named by an absolute path, and excepts
  the location and the purl of what was checked out from a repository on the machine
  (`NoPlaceIsNamed` does not).
* `PythonIsExact` is about specifiers whose exclusions, upper bounds and `~=` go by
  minor versions (`ByMinor`); a minor that is excluded by name may be the ceiling.
  `CeilingIsPermitted` and `InterpreterIsJudged` are what the documents say.
* `ListingsAreWhole` takes a changed path with a `, ` in it for what is read back of it,
  and of a tree cut at a depth it wants no more than that nothing lies deeper.
* `ComponentsHangTogether` does not ask for an owner of npm packages that need each
  other; `UsageIsExact` takes what a source imports from the model (`ModulesOf`).

The properties named here that are not so are definitions beside the ones that are: as
the invariant under its run's cfg, TLC refutes each. Two that a sentence of the documents
states outright are runs of their own, `documents_merge` and `outdated_missing`.

Each property of a passing run has a mutant, an operator beside the definition
it replaces and marked `Mutant:`, that a plausible slip in the code would give
and under which TLC finds the property violated.

## 4. What is proved

TLAPS checks the theorems in eight modules, `DocCache_proofs`,
`ArchiveCache_proofs`, `Run_proofs`, `OsvLookup_proofs`, `EpssCache_proofs`,
`NetworkPool_proofs`, `Outdated_proofs` and `Scans_proofs`: for any sets of loaders,
processes, members, purls, advisories and CVEs, any lifetimes, pages and batches, any
command lines, documents, locks, filters, indexes and limits. What a theorem assumes beyond the
assumptions on the constants, which its component's module states and TLC
evaluates, is a definition with a name, cited in the theorem.

*DocCache.* `TypeCorrect`, then `DatesHold`: `DatesInv` is inductive together with
the types. What is wanted is that a hit is young, but the code looks at the
file's modification time and not at the age of the text. So the invariant says
why the first witnesses the second: the file was opened no later than `WriteLag`
after its download (`FileIsDated`), which needs that a writer under way holds a
body no older than that (`WriterIsCurrent`), which `Tick` keeps; and what a
loader owes its answer to (`AnswerIsDated`). `HitsAreYoung`, `NothingSilentlyStale`
and `OnlyParsedBodies` follow from it. `NoCacheWritesNothing` is an action property
and needs only `WriterIsCurrent`.

*ArchiveCache.* `ScratchHolds` proves `ScratchInv` with no assumption on the other
processes: the directories of a `--no-cache` run are its own, so whatever they held
before, at each step what it has staged is there (`Staged`).
`NoCacheIsComplete` follows, and `NoCacheWritesNothing`, that no step of it changes the
cache, is proved by its steps; both are for any number of runs that share the cache,
refreshing ones among them, of which the run has none.
`OneWriterHolds` proves the same of the process that writes the cache, under the
assumption `OneWriter` (all writers are the same process, and none refreshes),
which the module names and the theorems cite; section 5 says what two writers may
do to each other, and with two of them TLC refutes `AnswerIsComplete`, which
`AnswersAreComplete` proves of one. `CacheIsWhole` follows as well, and
`Implementation`: every step is one of `ArchiveStore` or leaves it alone, so the whole dance of staging, eviction and rename is one `Keep`.

*Run.* `TypeCorrect` carries `PlaceOK`: with which documents, flags and report each
place in `main` is reached. `HitsHold` proves `HitsInv`, which says of every gate
at every step exactly which documents its list holds, those behind the loop and
the one at hand once its turn has come to the gate (`Past`). At the end that is
every document, and `ExitCorrect` (`ExitNamesTheGates`) follows. `ArtifactsAreLeft`
proves `ArtifactIsLeft` through `LeftInv`: every document behind the loop is in the
reports or in its file, which is whole unless it is one of those whose last piece was
lost (`late`), which are documents behind the loop, too.
`LacksAreSaid` proves `IncompleteIsSaid` through `SaidInv`: until a document is
written, what it lacks is in its own notes or in a process global, and the globals
only grow.

*OsvLookup.* `PlaceHolds`: `PlaceInv` says where the run is in its chunk, and that
each purl has an answer but those that are still waited for (`Waiting`).
`AnswersHold` proves `AdvisoriesAreExact` through three invariants that say the same
of each place where advisories are kept, the pages at hand (`PagesInv`), the cache
(`FilesInv`) and the answers (`AnswersInv`): they are the purl's own (`Own`), and all of
them unless a request was cut short (`Whole`); of pages, those before the next one
have been collected. It needs `NamesApart`, that no two purls of the document share
a cache file: a name is the purl with other characters replaced and cut short, and
the code does not compare the purl the file is of (section 5). `RecordHolds` proves
`RecordIsRecent` without a hypothesis. An answer that names an advisory in its first
version shows that OSV had not modified it when the answer was given (`Fresh`). That is
said of what is in the query files by their dates, of the pages at hand by when the
run began, and of the answers by the lifetime of a file before that (`StampsInv`);
the stamp a record is held against is one of these answers', whichever it is
(`ModifiedIsRecent`), so a record of the first version is taken from the cache, or from
OSV, only if the advisory was not modified before that (`RecordsInv`).

*EpssCache.* `TypeCorrect`, and `SettledHolds`: a CVE that the lookup at hand is
not going to ask for has a score, and one of the last day, or the lookup is offline
or has called out that it fell back (`SettledInv`). At the end of a document that is
every CVE, which is `EveryCveIsAnswered`. `CoversHolds` is why nothing is forgotten:
until another run writes, what a run under the default policy holds covers the
file (`CoversInv`), so what it writes does, which is the action property
`NoScoreIsForgotten`. A refreshing run does not read the file, and is left out of the
property for that reason (section 5).

*NetworkPool.* `TypeCorrect`, and `LimitsHold`: a pool is no larger than what is
configured, no more threads are at work or asleep than it has, no job is in two
places, and one that sleeps has an attempt left (`LimitsInv`).
`NeverMoreThanConfigured` follows, for any limits and any number of threads the
operating system grants.

*Outdated.* `InvHolds`: `Inv` says of every text that a job has, or may fall back on,
that it is sound for the job's place and the editions so far (`Sound`): a text of
anaconda.org is what one of them had, whereas a text of prefix.dev, put together
from requests between which releases may be published, has hashes that one of
them had, and versions if each of them had some. Of every file of the cache it says
that it is torn or sound for a place with that file name (`FilesInv`), of every
job which channel it asks about (`Asks`) and which of its failures it owns up to
(`Has`), and of the targets that only a probe, for which there is a candidate, can
send a channel elsewhere. `NoneIsMisplaced` proves `NoPackageIsMisplaced` from it,
under two hypotheses on the constants: `FilesApart`, no two places there are share
a file (their names are joined with dashes, section 5), and `HashesTellVersions`, an
index has the hash a lock records under no other version than the lock's. The run's
instance satisfies both. The second is needed because what is stored of
prefix.dev's answer does not say which version its hashes are of.

`BehindHolds` proves `BehindIsSound`, from a second invariant. An answer of one
request says what an index had at one edition, but pages are asked for one after
another, and what is published meanwhile moves the rest of the list down: versions
come twice, and the pages need not be the beginning of the list at any edition. What
can be kept of them (`PagesOf`) is that they hold no more places than the list has by
now, and that a version that was listed when the first page was asked for is on one of
them, or else is older than all that is on them and has at least as many versions
before it by now as the pages have places. `NextPage` is the step of that argument.
`PagesCount` turns it into numbers: to each place of the pages belongs a place of
today's list, so that a version that was listed then is counted once, and what is
counted beyond is no more than was published since; and where the pages reach the
installed version nothing newer is missing. `SinceInv` says of every text of a job or a
file, unless it is torn, that it is of the edition at which it was asked for in this
sense (`AsOf`), and of a job that asks for a further page that all of its pages are full;
`SinceHolds` proves it along with `Inv`. The hypotheses are `FilesApart` and
`NothingWithdrawn`: what an index lists of a package is listed later, too (a yank of
PyPI leaves the version in the list). That prefix.dev lists the versions from the newest,
as the code counts on (`outdated.rs:277`, `:542`), is part of `OutdatedAssumption`; of a
project that comes in one answer the proof needs only that no version comes twice.

*Scans.* What `documents` checks of scopes and filters is about reachability, so the
proofs begin with `ReachedIs`: `Reached`, which takes as many steps as there are
edges, holds its roots, is closed under the edges, and whatever it holds is a root
or at the end of an edge from something it holds. That the steps are enough is an
induction over the numbers of a set (`Induction`): a set that still grows at step n
has used n edges. Every reader gives a document, and all but that of conda-lock.yml
one without scopes (`PixiIs` to `DocumentIs`), so with a manifest the scopes are
those that `assign` gives (`ManifestIs`), which puts nothing into a lesser scope than
what needs it (`AssignedAreRanked`); a filter drops edges and keeps scopes
(`FilteredIs`). Hence `DocumentsInvHolds`, and `NeededHolds` for `NeededIsRequired`.
`FilterHolds` proves `FilterIsExact` with `FilterInv`, from what `Kept` is by
`ReachedIs` (`KeptAre`, `FilterIsAround`). Both are about `ScanSpec`, with the lookups
and the search for locks, none of which touches what was read (`ScanIsDocuments`).
They assume of the locks what a file is by nature, that their packages have
finitely many edges (`GraphsAreFinite`), and `FilterHolds` that no edge of a document
as it was read leads out of it (`EdgesStayInside`). The latter is the readers' work
and not only the files': each keeps of a requirement the packages that fulfil it
with filters over sequences, which the provers cannot look into. The run checks
it, since one of its filters leaves all, and then `FilterIsExact` has every edge
lead from a package to a package.

The lookups of `Scans` are the longest argument. `LookupInv` says of the document at
hand what each of its packages has become since its lock (`IsLearned`): what the lock
states is untouched, a license is that of the first source that has one or of the
second if the first has none or could not be read and that is noted (`LicenseIsOwn`,
`Told`), and as much for the sources that were asked so far (`Asked`), so that each of
the four lookups adds one (`WheelsKeep`, `PackageCacheKeeps`, `ArchivesKeep`,
`ReleasesKeep`; what they share is `AllLearned`). Of the workers it says only what an
answer is worth (`JobsInv`); whoever finds the network down and whoever then never
tries, each has failed, and a failure is a note. `LearnIs` to `SharedIsTold` carry
what the union learned over to each document (`IsTold`): what was learned of an id was
learned for the first lock that has it (`GoesBy`), for want of what that one lacks, and
the other documents are told no more and no less, whatever their own locks say.
`MetadataHolds`, `LacksHold` and `ExplanationHolds` follow from it when the lookup is
over (`LookedUpForIs`, `DoneIs`, `MetadataIs`, `LacksAre`, `ExplanationIs`), with the
two exceptions of section 3. They assume `LocksAreSound`: the locks
have finitely many packages; an id is one package of a lock, and of one kind in all of
them, without which "the package of this id" means nothing (section 5 has a lock that
breaks it); and what there is upstream fits the package, an archive a conda package and
a release a version. The run has each of these, and `SubjectInv`, `JobsInv`, `EachInv`
and `CacheInv`, the parts of `LookupInv`, in every state. `SourcesAssumption` says that
no source has the name of their absence.

A comparison is the last step of its run, so what it was made of is still there
(`CompareInv`), and `ChangesHold` proves `NoChangeIsMissed` without a hypothesis:
what each side has under a key (`LatestIs`, `SideIs`), what each list of changes then
holds (`ChangesAre`), and so for every package that the property is about. What it is not
about is listed there: of several releases under one key only the last is compared,
conda packages are left out when one side cannot have any, and a build that only
one side states is no change.

`UvWalkHolds` proves `UvWalkIsExact`, the half of `UvIsReadExactly` that says what is
walked of a uv.lock. While the walk goes on (`UvWalkInv`, `IsWalk`), what it has been
at and what it will still be at is all reached, the members are among it, and so is
whatever a node that it has been at needs. That a visit keeps this, with extras that
come in any order, is `VisitIsWalk`. Once the queue is empty, what it has been at holds
the members and is closed, and what is reached is the least such set (`ReachedIsLeast`).
It assumes `UvAssumption`, that a uv.lock is finite and `None` is no extra of it. What the
reader then calls needed without extras, the other half, is left to TLC.

`SearchHolds` proves `DocumentsGoApart` for any tree of directories and any arguments
of a run. The search is one step, so its invariant (`SearchInv`) only says that the
result is that of `Find`; what has to be shown is about `Find`. A scan gets wherever a
chain of directories it may enter leads (`WalkedIs`, by induction over the length of
the path), and finds one lock in each that has one (`ScannedAre`). The documents of one
lock differ in what their names are joined of (`JoinsApart`, `ResolvedIs`), those of two
locks in their directories, since the path below the directory that is scanned is
repeated below the one that is written to (`IntoIs`). The lock a run without one is
told to write is then the only one on its way up, and the first of its directory
(`HintIsTrue`). The assumptions are that a tree is finite and has what a directory lies
in; that `None` is no path, lock or error; and that no platform's name is what another's
ends in: environment `a` on `linux-64` and environment `a-linux` on a platform called
`64` would share a file, but conda has no such platform.

Some of what is proved is not a run's property, since it is a step on the way:
`HitIsYoung`, `OnlyParsedBodiesKept`, `NoCacheLeavesTheFile`, `AnswerIsComplete` and
the inductive invariants. Each inductive invariant was an invariant of its
component's run before it was proved.

Only model-checked: of `Documents` and `Scans`, what of a uv.lock is needed without
extras (the rest of `UvIsReadExactly`), the formats (`DocumentsSurvive`) and merges
(`MergeKeepsGraphs`); `Findings` and `Environments`;
and liveness, which is out of the prover's reach. What a union-find, a stack or a
walk inside one step computes for every input would need an induction over data; the
walk of uv.lock has a state between its steps, and thus an invariant. The library's induction theorems
take an operator as a parameter, which the provers here cannot instantiate; an
induction over the numbers of one set, from its least counterexample, they can do,
and `Those` of `OsvLookup` and `Reached` are reasoned about that way (`Induction`). For the rest the
runs compare with a reference on bounded inputs. `Usage` declares a `RECURSIVE`
operator, and tlapm has no SMT in a module that reaches one, so `Environments` is
left to TLC as a whole.

## 5. Where the code and its documents disagree

TLC refutes two runs. In `documents_merge` the copy a merge takes of a package
keeps the dependencies it had under its own document's ids, and the edges in merged
ids are added to them, so where two inputs use one id for different packages, a
package of the second depends on one of the first (`merge.rs:152`;
`docs/cli.md:1634`, "the ids are made unique", and `merge.rs:8`, "so every input's
graph survives"). In `outdated_missing` an index answers that it has no such package,
the code takes the 404 for a request that failed, and the package is among those whose
index did not answer (`outdated.rs:1239–1250`), "as distinct from packages no index
carries" (`outdated.rs:670`; `docs/cli.md:1052`).

What follows was met while modelling. The models do what the code does; where a
property would be in the way, section 3 names the exception. A name in brackets is
the definition that states what the documents say, which TLC refutes under the cfg of
its component's run; for `AnswerIsComplete`, with two `Writers`.

**Caches and the network**

* A scorecard past its lifetime that stands in for a failed download is not called
  out (`scorecard.rs:247`; `docs/cli.md:2103`), nor is an answer of the outdated
  report (`outdated.rs:1251`), and that one whatever the policy for the cache.
* Under `--no-cache` a failed download is answered from the file (`kev.rs:194`,
  `mapping.rs:197`, `scorecard.rs:247`; `docs/cli.md:2076`).
* Two runs that extract one archive share its staging directory, and either may
  answer without the license files (`wheel.rs:175`; `docs/cli.md:72`; [`AnswerIsComplete`]).
* A scratch directory that cannot be removed stays, and nothing says so
  (`cache.rs:176`; `cache.rs:157–158`).
* A cached record is taken if it is as new as the last purl's answer says, although
  another purl's, in the same run, says that OSV has modified the advisory since
  (`osv.rs:306`; `osv.rs:8`, "until their `modified` stamp moves",
  `docs/architecture.md:80`; [`RecordFollowsStamps`]).
* A run that replaces an expired file between another run's read of its text and
  of its age makes the expired text look new (`kev.rs:165–167`).
* Offline with nothing cached, the mapping and the catalog end the run
  (`kev.rs:204`), while `docs/cli.md:2138` says it still succeeds.
* A refreshing run killed while it removes the old directory may leave the
  marker without the rest, which later runs take for a whole entry (`wheel.rs:222`).
* A torn file of a release is a release that says nothing, for good
  (`pypi.rs:303`; `docs/output-format.md:432`; [`TornIsNoticed`]); a torn file of the
  outdated report says "no releases" for a day;
  a scorecard is kept before it is parsed, so one that does not parse stays until
  it expires (`scorecard.rs:227`).
* An OSV answer with fewer results than queries makes the purls at its end clean,
  and the cache keeps that for an hour (`osv.rs:424`).
* Names of cache files are joined with dashes or cut short, so two purls
  (`osv.rs:244`), two projects (`scorecard.rs:164`: a-b/c and a/b-c) or two packages
  of two channels (`outdated.rs:743`) may share one, and what it is of is not
  compared.
* `--refresh wheels` extracts the SBOMs anew and then does not read them
  (`embedded.rs:477`; `cache.rs:149`).
* The second document of a refreshing run drops from the EPSS file what the first
  one fetched (`epss.rs:171`; `docs/cli.md:145`).
* The number of packages of the first document caps the pool for all
  (`concurrency.rs:193`, `:178`), and the shared lookup builds its pool before
  anything says how much work there is (`main.rs:2231`).
* A scorecard that does not exist (404) counts as failed and the document as
  incomplete (`scorecard.rs:239`, `main.rs:751`), against the comment there, "an
  answer, not a failure".

**A run and its configuration**

* `--report outdated` ends a document's turn before the scorecards are read, so
  `--fail-on-scorecard` cannot fail the run (`main.rs:706`; `docs/cli.md:104`).
* The writer of a document is dropped without a flush, so an error while its last
  piece is written is lost and the run exits with 0 (`main.rs:2584`;
  `docs/cli.md:2212`; [`ExitMeansWritten`]).
* The budget for license texts and the list of stale services are of the process
  and not of the document (`license.rs:22`, `cache.rs:227`; `docs/cli.md:73`,
  `docs/output-format.md:438`): a document may name a service or a limit it had
  nothing to do with, but none goes unnamed, which is what `IncompleteIsSaid` says.
* `fail-on-scorecard` in a file without `scorecard` is silently ignored: `validate`
  does not look at the pair (`main.rs:737`, `:753`, `:1220`), and on the command line
  the flag is refused even if a file says `scorecard` (`cli.rs:676`).
* The `pypi-mapping-file` of a less specific file wins over the `pypi-mapping` of a
  more specific one (`config.rs:380`, `main.rs:1431`; `config.rs:242`, "a more
  specific one overwrites").
* A relative `vex-in` or `source` of a file is relative to the working directory, a
  `pypi-mapping-file` to the file (`config.rs:371`, `:471`).
* A `PIXI_SBOM_CONCURRENCY` that cannot be used also discards the file's
  `concurrency` (`main.rs:127`; `concurrency.rs:82–84`, "ignored").
* `spec-version` in a file makes `--format spdx` on the command line a usage error,
  with the documents' own example file too (`main.rs:1411`; `docs/cli.md:715`); so do
  `fail-on-phantom`, `source`, `assume-used` and `fail-on-diff` for every run of
  another kind (`main.rs:1269–1280`, `:1366`).
* `docs/cli.md:588` says that the upward search does not find named pylocks and
  `--scan` looks for `pixi.lock` only; `discover.rs:18–52` and `docs/cli.md:195–206`
  say otherwise.
* `--scan --merge --all-platforms --output -` is refused (`main.rs:2495`), although
  with `--merge` there is one document (`docs/cli.md:33`).
* Where pixi's custom platforms have names with dashes, the files of two documents
  may coincide (environment "a-cuda" on "linux-64", "a" on "cuda-linux-64":
  `discover.rs:245`).

**Reading locks**

* A repeated entry of conda-lock.yml becomes a second package of one id, and the
  last category wins (`condalock.rs:239`).
* Constraint files (`-c`) are read as pins (`requirements.rs:420`).
* An edge of a pixi.lock that is both plain and gated by an extra is taken for
  gated (`lock.rs:597–608`).
* The tables for all features and extras come from pyproject.toml even where
  pixi.toml's declarations are kept (`manifest.rs:278`).
* Requirement files and documents do not get the manifest's scopes, nor does the
  lock that `--against` reads, which is not filtered either.

**Filter, merge, diff, formats**

* A cycle that nothing depends on has no root, so any filter drops it; a package
  the project declares is dropped if only an excluded package depends on it
  (`docs/cli.md:761`).
* The filter runs before npm packages and vendored copies are attached, so those of
  an excluded owner come back without one (`main.rs:464`, `:498`;
  `docs/cli.md:747–761`).
* A merge keys scopes by the original ids, so a later input overrides an earlier
  one's (`docs/output-format.md:480`), and loses what was declared.
* SPDX 2.3: edges into a scope and licenses that are no expression do not come back
  (`spdx.rs:122–124`, `:387–406`, `embedded.rs:386–390`; `docs/cli.md:1590–1592`). The
  reader of SPDX 3 takes vendored copies for packages (`diff.rs:247–326`). GitHub's
  keys drop the qualifiers of a purl.
* A tree cut at a depth leaves out dependencies of packages it met before
  (`report.rs:1101–1108`).
* `upgrades` are compared with their neighbours only, so a duplicate further off
  stays (`cyclonedx.rs:393`).

**What is looked up and explained**

* A scan of a conda-lock.yml and a pixi.lock has one id for a package of both
  (`condalock.rs:336`, `lock.rs:358`). The union keeps the first document's package,
  so a learned license overwrites the other lock's own (`batch.rs:67`; `batch.rs:19`,
  "cannot overwrite what that document's own environment said"; [`OwnWordStands`]); in
  the other order the document without a license stays so and does not say it
  (`batch.rs:185`; `docs/cli.md:72`; [`EveryLicenseIsFetched`]).
* The explanation says "nothing for this package there" of sources that were never
  read or whose reading failed (`explain.rs:248`; `docs/cli.md:1389`), "no" or "never
  scored" after failed lookups (`explain.rs:449`, `:502`, `:544`), that a repository
  from an archive's `dev_url` was in the lockfile (`explain.rs:472`;
  `pkgcache.rs:188`), and of a conda package with an entry in the CPE table that it
  "names no version" (`explain.rs:386`); channel and index URL are hidden where there
  is no supplier.
* `explain.rs:373` expects a table entry behind every CPE, which a document that is
  read with `--from-sbom` need not have (`cpe.rs:66`, `fromsbom.rs:335`); the model
  calls it `NotOfTheTable`.
* The total in the note on PyPI's releases leaves out packages that already had a
  license (`pypi.rs:274`, `main.rs:2483`).

**Findings, licenses, quality**

* Any `--ignore-vuln` suppresses, whatever state it gives (`model.rs:278`); a license
  exemption marks the first package of the name (`main.rs:674–680`).
* Merging findings drops a rating of one source and vector (`osv.rs:741–750`;
  `docs/cli.md:862–864`).
* `--primary-purl pypi` counts Python packages of conda as native ones without an
  identity (`quality.rs:80–85`, `cpe.rs:72–75`; `docs/cli.md:1253`).
* A score is rounded to a tenth before the gate compares it, so 6.96 passes 7
  (`scorecard.rs:189`, `:268`).

**Outdated**

* A cached file does not depend on the installed version or build, so it may hold
  the pages that another document asked for: `behind` is then a floor, and the hash
  check fails (`outdated.rs:740–743`; `docs/cli.md:1158`, "exact however far behind").
* A probe that fails makes a channel look like a mirror (`outdated.rs:799–806`).
* `behind` counts later versions, not versions "published after"
  (`docs/cli.md:1050`). A release published between two pages moves the last version of
  the one to the top of the next, where it counts again; if what is published is a
  prerelease, which does not count itself, the row says more than there is at any
  time. `BehindIsSound` bounds it by what was published since.

**Installed environments**

* A relative `--prefix` leaves "file:///" with a relative path in the document
  (`prefix.rs:1063–1073`; `docs/output-format.md:370–373`).
* The location of a distribution that was checked out from a repository on this
  machine is `git+file:///...`, and its purl has that as `vcs_url` (`prefix.rs:1091`,
  `purl.rs:158–165`; `docs/output-format.md:370`, "Nothing in the document says where on
  the machine the environment or the package cache is"; [`NoPlaceIsNamed`]).
* npm packages that need each other hang off nobody (`npm.rs:290`;
  `docs/output-format.md:391`), and the owner of a vendored copy follows the
  directory's order (`prefix.rs:926`, `npm.rs:185`).
* A conda record with several distributions is known by its first only
  (`prefix.rs:719–720`).
* `!=3.9.7` makes 3.9 unsatisfied, `==3.*` means 3.0 only, `<3.9.5` excludes all of
  3.9, `~=` is only a floor (`pyversion.rs:37`, `:64`, `:84–100`; `docs/cli.md:1188`,
  though `:1190` says that bounds are read by minor versions;
  [`InterpreterIsJudged`]). Of `<3.10,!=3.9.*` the ceiling is 3.9, which the package
  excludes (`pyversion.rs:93–100`; `docs/cli.md:1187`, "the highest Python the
  environment could move to without dropping a package"; [`CeilingIsPermitted`]).
* Changed files are joined and split on ", ", so a path that has one is read back as
  two (`main.rs:538`).

## 6. What is not modelled

* **Parsing and rendering**: the syntax of locks, manifests, documents, object files
  and archives, percent-encoding and the normalization of names (a table,
  `Spelling`), the layout of reports, the wording of messages, prose in an
  explanation. `zipread.rs` is decoding with no state but the bytes it was given.
* **Requests**: TLS, proxies, credentials and mirrors (`auth.rs`, `mirror.rs`: a table
  consulted once for each request), query texts.
* **Arithmetic of CVSS** (a fixed formula over reals): a severity is a rank.
* **Versions**: how they are parsed. They are numbers or tuples that compare.
* **Configuration**: the keys that no finding, name, policy or gate depends on, which
  are set likewise; what clap checks by itself; the precedence of
  `PIXI_SBOM_CONCURRENCY`.
* **Process**: the tally of hits and misses (`cache.rs:205–260`), `--timings`,
  progress and colours, `--doctor`. In `Run`: a document written to stdout, reading
  the inputs, what a VEX file holds.
* **Documents**: creation info and the hash of a document itself; which directory
  a manifest is found in; of SBOMs in wheels, those in SPDX.
* A file system that reorders writes over a power failure; a kill of the process is
  modelled.

`PROJECT.json` gives each component its status and says what is left out.

## 7. Plan

The model of the program is as far as it is planned, but for the precedence of
the environment's `PIXI_SBOM_CONCURRENCY` and a document on stdout, and every
safety property of the first layer is proved, and of the second what is walked,
filtered, ranked, looked up, explained, compared and counted, and what a run
finds in a tree. What is left is to prove more, where no recursion is in the way:

1. `Documents`: a merge keeps every package (`MergeKeepsGraphs`).
2. `Findings` stays with TLC, for the union-find of `DuplicatesAreOne` and the stacks
   of the policies.

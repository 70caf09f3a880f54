--------------------------------- MODULE Run ---------------------------------
(***************************************************************************)
(* One run of the program after its command line is read (main.rs, main):   *)
(* the mapping and the KEV catalog are loaded, the packages of every        *)
(* document may be looked up together, the documents are built, checked and *)
(* written or reported one after the other, and the gates that tripped      *)
(* choose the exit code.  A run may fail where the code has a `?`, be       *)
(* killed anywhere, and be started again over the files it left.            *)
(***************************************************************************)
EXTENDS Integers, FiniteSets, Sequences

CONSTANTS
  Lines,       \* command lines, legal or not: records of the flags below
  MaxTargets,  \* the most documents of a run
  Inputs,      \* what a document's packages may be, from run to run
  MaxTexts,    \* the most license texts a lookup finds
  TextBudget,  \* MAX_TOTAL_TEXT_BYTES, in texts
  LateErrors,  \* whether the last piece of a document may fail to be written
  Missing,     \* no file at a document's path
  Running,     \* the exit code of a run that goes on
  Killed       \* the exit code of a run that was killed

ASSUME RunAssumption ==
  /\ MaxTargets \in Nat \ {0}
  /\ MaxTexts \in Nat /\ TextBudget \in Nat
  /\ LateErrors \subseteq BOOLEAN
  /\ Running \notin Int /\ Killed \notin Int /\ Running # Killed
  /\ Inputs # {}

\* The gates, first the one whose code wins.
Precedence ==
  <<"licenses", "vulnerabilities", "yanked", "phantoms", "diff", "scorecards",
    "quality", "files">>
Gates == {Precedence[i] : i \in DOMAIN Precedence}
ExitCode == [licenses |-> 3, vulnerabilities |-> 4, yanked |-> 7, phantoms |-> 8,
             diff |-> 6, scorecards |-> 9, quality |-> 10, files |-> 11]

Flags == {"fetch", "texts", "embedded", "scorecard", "vulnerabilities", "kev",
          "epss", "mapping", "prefix", "vex"}
Reports == {"none", "outdated", "scorecard", "explain", "phantom", "diff",
            "files", "other"}
Lookups == {"enrich", "osv", "scorecard"}   \* steps that note their failures
Services == {"mapping", "kev", "epss"}      \* services that call cache::stale

\* What validate and the flags' own declarations accept.  A line has the gates
\* it asks for, its flags and its report.
Legal(line, n) ==
  LET Needs(what, flag) == what => flag \in line.flags
  IN  /\ Needs({"kev", "epss", "vex"} \cap line.flags # {}, "vulnerabilities")
      /\ Needs("vulnerabilities" \in line.gates, "vulnerabilities")
      /\ Needs({"texts", "scorecard"} \cap line.flags # {}, "fetch")
      /\ Needs("yanked" \in line.gates, "fetch")
      /\ Needs("scorecards" \in line.gates \/ line.report = "scorecard", "scorecard")
      /\ Needs("files" \in line.gates \/ line.report = "files", "prefix")
      /\ "phantoms" \in line.gates => line.report = "phantom"
      /\ "diff" \in line.gates => line.report = "diff"
      /\ "vex" \in line.flags => line.report = "none"
      /\ {"vex", "prefix"} \cap line.flags # {} => n = 1

ASSUME LinesAssumption ==
  \A l \in Lines : l.gates \subseteq Gates /\ l.flags \subseteq Flags /\ l.report \in Reports

VARIABLES
  line,        \* args
  targets,     \* how many documents
  pc,          \* where main is
  doc,         \* the document at hand, one past the last after the loop
  stale,       \* cache: the services that served an expired copy
  held,        \* TEXT_BYTES
  dropped,     \* TEXTS_DROPPED
  shared,      \* whether the packages were looked up together
  unfinished,  \* Shared.incomplete.steps
  input,       \* the packages of each document
  trips,       \* the gates a document's packages run into
  missed,      \* what a document lacks, or has from an expired copy
  incomplete,  \* sbom.incomplete: steps and stale services
  hits,        \* violations, gate_hits, ...: the documents each gate lists
  reports,     \* the documents reported on
  printed,     \* the reports on stdout
  file,        \* the file at each document's path
  late,        \* the documents of this run whose last piece was lost
  exit         \* the exit code

once == <<line, targets>>
globals == <<stale, held, dropped, shared, unfinished>>
model == <<input, trips, missed, incomplete>>
output == <<reports, printed, file, late>>
vars == <<once, pc, doc, globals, model, hits, output, exit>>

Targets == 1..targets
Has(flag) == flag \in line.flags

\* The gates of this run: --report files is one without its flag.
Asked == line.gates \cup (IF line.report = "files" THEN {"files"} ELSE {})

\* What the checks of this run look for: imports are scanned for phantoms
\* whether or not they are to fail the run.
Looked == Asked \cup (IF line.report = "phantom" THEN {"phantoms"} ELSE {})

Documents == 1..MaxTargets
None == [d \in Documents |-> {}]
AnyInput == [d \in Documents |-> CHOOSE i \in Inputs : TRUE]

Init ==
  /\ targets \in 1..MaxTargets
  /\ line \in {l \in Lines : Legal(l, targets)}
  /\ pc = "mapping" /\ doc = 1
  /\ stale = {} /\ held = 0 /\ dropped = 0
  /\ shared = FALSE /\ unfinished = {}
  /\ input = AnyInput
  /\ trips = None /\ missed = None /\ incomplete = None
  /\ hits = [g \in Gates |-> {}]
  /\ reports = {} /\ printed = {}
  /\ file = [d \in Documents |-> Missing] /\ late = {}
  /\ exit = Running

-----------------------------------------------------------------------------
Lesser(a, b) == IF a <= b THEN a ELSE b

\* A process that has not begun remembers nothing.
Forgets ==
  /\ doc' = 1
  /\ stale' = {} /\ held' = 0 /\ dropped' = 0
  /\ shared' = FALSE /\ unfinished' = {}
  /\ input' = AnyInput
  /\ trips' = None /\ missed' = None /\ incomplete' = None
  /\ hits' = [g \in Gates |-> {}]
  /\ reports' = {} /\ printed' = {} /\ late' = {}
  /\ UNCHANGED <<once, file>>

\* A `?`: main returns the error, and nothing after it happens.
Fails == pc' = "ended" /\ exit' = 1 /\ Forgets

Goes(step) == pc' = step /\ UNCHANGED <<once, exit>>

\* load_pypi_mapping: without a download an expired copy will do.
LoadMapping ==
  /\ pc = "mapping"
  /\ \/ /\ stale' \in {stale} \cup (IF Has("mapping") THEN {stale \cup {"mapping"}} ELSE {})
        /\ Goes("kev")
        /\ UNCHANGED <<doc, held, dropped, shared, unfinished, model, hits, output>>
     \/ Has("mapping") /\ Fails

\* kev::Catalog::load.
LoadKev ==
  /\ pc = "kev"
  /\ \/ /\ stale' \in {stale} \cup (IF Has("kev") THEN {stale \cup {"kev"}} ELSE {})
        /\ Goes("shared")
        /\ UNCHANGED <<doc, held, dropped, shared, unfinished, model, hits, output>>
     \/ Has("kev") /\ Fails

\* keep_text for n texts in turn.
KeepTexts(n) ==
  LET kept == Lesser(n, TextBudget - held)
  IN  held' = held + kept /\ dropped' = dropped + n - kept

\* enrich: the texts it keeps, and the lookups of it that may fail.
EnrichFailures == SUBSET (IF Has("fetch") \/ Has("embedded") THEN {"enrich"} ELSE {})
Enriched == \E n \in 0..(IF Has("texts") THEN MaxTexts ELSE 0) : KeepTexts(n)

\* shared_enrichment: nothing for a single document, nor when the lookups add
\* components to the document they are made for.  Without a package there is
\* nothing to look up either way.
LookUpTogether ==
  /\ pc = "shared"
  /\ IF targets > 1 /\ Has("fetch") /\ ~Has("embedded")
     THEN \/ /\ shared' = TRUE
             /\ unfinished' \in EnrichFailures
             /\ Enriched
             /\ Goes("model")
             /\ UNCHANGED <<doc, stale, model, hits, output>>
          \/ Fails
     ELSE Goes("model") /\ UNCHANGED <<doc, globals, model, hits, output>>

\* Mutant: a document's hits replace those of the ones before it.
RecordsLatest(checked, ran) ==
  hits' = [g \in Gates |-> IF g \notin checked THEN hits[g]
                         ELSE IF g \in ran THEN {doc} ELSE {}]

\* Adds the document to the lists of the gates it trips.
Records(checked, ran) ==
  hits' = [g \in Gates |-> IF g \in checked \cap ran THEN hits[g] \cup {doc} ELSE hits[g]]

\* model_for and what is read before anything is looked up; with --verify-files
\* or --report files, the files of the environment too.
BuildModel ==
  /\ pc = "model"
  /\ \/ /\ \E i \in Inputs : input' = [input EXCEPT ![doc] = i]
        /\ \E found \in SUBSET Looked : trips' = [trips EXCEPT ![doc] = found]
        /\ missed' = [missed EXCEPT ![doc] = stale \cap {"mapping"}]
        /\ incomplete' = [incomplete EXCEPT ![doc] = {}]
        /\ Records({"files"} \cap Asked, trips'[doc])
        /\ Goes("enrich")
        /\ UNCHANGED <<doc, globals, output>>
     \/ Fails

Misses(what) == missed' = [missed EXCEPT ![doc] = @ \cup what]
Notes(what) == incomplete' = [incomplete EXCEPT ![doc] = @ \cup what]

\* What a document lacks of what the shared lookup could not get or keep.
Lacks == \E lost \in SUBSET (unfinished \cup (IF dropped > 0 THEN {"texts"} ELSE {})) :
           Misses(lost)

\* Mutant: only the packages' fields are taken over.
ApplyFields == Lacks /\ UNCHANGED <<globals, incomplete>>

\* shared.apply.
ApplyShared == Lacks /\ Notes(unfinished) /\ UNCHANGED globals

\* enrich, for one document.
EnrichAlone ==
  /\ Enriched
  /\ \E failed \in EnrichFailures :
       /\ Misses(failed \cup (IF dropped' > dropped THEN {"texts"} ELSE {}))
       /\ Notes(failed)
  /\ UNCHANGED <<stale, shared, unfinished>>

Enrich ==
  /\ pc = "enrich"
  /\ IF shared THEN ApplyShared ELSE EnrichAlone
  /\ Goes("osv")
  /\ UNCHANGED <<doc, input, trips, hits, output>>

\* lookup.run of osv.rs, and a note of what it could not ask or fetch.
AskOsv ==
  /\ pc = "osv"
  /\ IF Has("vulnerabilities")
     THEN \/ /\ \E failed \in {{}, {"osv"}} : Misses(failed) /\ Notes(failed)
             /\ Goes("scores")
             /\ UNCHANGED <<doc, globals, input, trips, hits, output>>
          \/ Fails
     ELSE Goes("gates") /\ UNCHANGED <<doc, globals, model, hits, output>>

\* The findings are matched against the catalog, scored and assessed, and the
\* vulnerability gate sees what is left of them.
AssessFindings ==
  /\ pc = "scores"
  /\ \/ /\ \E expired \in SUBSET (line.flags \cap {"epss"}) :
             /\ stale' = stale \cup expired
             /\ Misses(expired \cup (stale \cap {"kev"}))
        /\ Records({"vulnerabilities"} \cap Asked, trips[doc])
        /\ Goes("gates")
        /\ UNCHANGED <<doc, held, dropped, shared, unfinished, input, trips, incomplete, output>>
     \/ Has("epss") /\ Fails

\* Mutant: the loop runs once too often.
NextOrLast ==
  /\ doc' = doc + 1
  /\ pc' = IF doc <= targets THEN "model" ELSE "render"
  /\ UNCHANGED <<once, exit>>

\* Turns to the next document, or to what comes after the loop.
NextDocument ==
  /\ doc' = doc + 1
  /\ pc' = IF doc < targets THEN "model" ELSE "render"
  /\ UNCHANGED <<once, exit>>

Reported == reports' = reports \cup {doc} /\ UNCHANGED <<printed, file, late>>

\* The gates on the packages themselves.  --report outdated ends the document's
\* turn here.
CheckPackages ==
  /\ pc = "gates"
  /\ Records({"yanked", "licenses", "quality"} \cap Asked, trips[doc])
  /\ IF line.report = "outdated"
     THEN NextDocument /\ Reported
     ELSE Goes("scorecard") /\ UNCHANGED <<doc, output>>
  /\ UNCHANGED <<globals, model>>

\* scorecard's lookup.run and its gate.
ReadScorecards ==
  /\ pc = "scorecard"
  /\ \E failed \in SUBSET (line.flags \cap {"scorecard"}) : Misses(failed) /\ Notes(failed)
  /\ Records({"scorecards"} \cap Asked, trips[doc])
  /\ Goes(IF line.report = "none" THEN "write" ELSE "report")
  /\ UNCHANGED <<doc, globals, input, trips, output>>

\* Every other report; comparing may fail to read the other side.
ReportOn ==
  /\ pc = "report"
  /\ \/ /\ Records({"phantoms", "diff"} \cap Looked, trips[doc])
        /\ NextDocument /\ Reported
        /\ UNCHANGED <<globals, model>>
     \/ line.report = "diff" /\ Fails

\* sbom.incomplete as the writers render it.
Unfinished == incomplete[doc] \cup stale \cup (IF dropped > 0 THEN {"texts"} ELSE {})

Rendered(d, notes, whole) == [input |-> input[d], incomplete |-> notes, whole |-> whole]

AfterWriting == IF Has("vex") THEN Goes("vex") /\ UNCHANGED doc ELSE NextDocument

\* Mutant: the existing file may end before what is compared with it.
UnchangedSoFar == file[doc] \in {Rendered(doc, incomplete'[doc], w) : w \in BOOLEAN}

\* unchanged_but_for_timestamp: every byte but the timestamp's, and the end.
Unchanged == file[doc] = Rendered(doc, incomplete'[doc], TRUE)

\* The globals are written into the document, and a file that already says the
\* same is left alone; any other is truncated and filled through a buffer.
WriteOutput ==
  /\ pc = "write"
  /\ \/ /\ Notes(Unfinished)
        /\ IF Unchanged THEN AfterWriting /\ UNCHANGED output
           ELSE /\ file' = [file EXCEPT ![doc] = Rendered(doc, incomplete'[doc], FALSE)]
                /\ Goes("drop") /\ UNCHANGED <<doc, reports, printed, late>>
        /\ UNCHANGED <<globals, input, trips, missed, hits>>
     \/ Fails

\* The buffer is written out when a piece does not fit it, and for the last
\* time when it is dropped: an error then is nobody's.
DropWriter ==
  /\ pc = "drop"
  /\ \/ /\ \E lost \in LateErrors :
             /\ late' = IF lost THEN late \cup {doc} ELSE late
             /\ file' = [file EXCEPT ![doc] = Rendered(doc, incomplete[doc], ~lost)]
        /\ AfterWriting
        /\ UNCHANGED <<globals, model, hits, reports, printed>>
     \/ Fails

\* write_json of the VEX document, which is not modelled further.
WriteVex ==
  /\ pc = "vex"
  /\ \/ NextDocument /\ UNCHANGED <<globals, model, hits, output>>
     \/ Fails

RenderReports ==
  /\ pc = "render"
  /\ \/ /\ printed' = reports
        /\ Goes("exit")
        /\ UNCHANGED <<doc, globals, model, hits, reports, file, late>>
     \/ reports # {} /\ Fails

\* What each gate is said to have found.
Counted(g) == IF g = "phantoms" /\ g \notin line.gates THEN {} ELSE hits[g]

\* The first gate that failed decides.
ReportGates ==
  LET failed == {i \in DOMAIN Precedence : Counted(Precedence[i]) # {}}
  IN  /\ pc = "exit"
      /\ pc' = "ended"
      /\ \/ failed = {} /\ exit' = 0
         \/ \E i \in failed : /\ \A k \in failed : i <= k
                             /\ exit' = ExitCode[Precedence[i]]
      /\ UNCHANGED <<once, doc, globals, model, hits, output>>

\* The process is killed.
Kill == pc # "ended" /\ pc' = "ended" /\ exit' = Killed /\ Forgets

\* The same command line again, over the files the last run left.
RunAgain == pc = "ended" /\ pc' = "mapping" /\ exit' = Running /\ Forgets

Next ==
  \/ LoadMapping \/ LoadKev \/ LookUpTogether
  \/ BuildModel \/ Enrich \/ AskOsv \/ AssessFindings \/ CheckPackages
  \/ ReadScorecards \/ ReportOn \/ WriteOutput \/ DropWriter \/ WriteVex
  \/ RenderReports \/ ReportGates \/ Kill \/ RunAgain

Spec == Init /\ [][Next]_vars
-----------------------------------------------------------------------------
Steps == {"mapping", "kev", "shared", "model", "enrich", "osv", "scores", "gates",
          "scorecard", "report", "write", "drop", "vex", "render", "exit", "ended"}
Notices == Lookups \cup Services \cup {"texts"}

\* Which documents and reports each place in main is reached with.
PlaceOK ==
  /\ pc \in {"mapping", "kev", "shared"} => doc = 1
  /\ pc \in {"render", "exit"} <=> doc = targets + 1 /\ pc # "ended"
  /\ pc = "scores" => Has("vulnerabilities")
  /\ pc = "scorecard" => line.report # "outdated"
  /\ pc = "report" => line.report \notin {"none", "outdated"}
  /\ pc \in {"write", "drop", "vex"} => line.report = "none"

LineOK == targets \in 1..MaxTargets /\ line \in Lines /\ Legal(line, targets)

ControlOK ==
  /\ pc \in Steps
  /\ doc \in 1..(targets + 1)
  /\ PlaceOK
  /\ exit \in {Running, Killed, 0, 1} \cup {ExitCode[g] : g \in Gates}
  /\ exit = Running <=> pc # "ended"

GlobalsOK ==
  /\ stale \subseteq Services /\ unfinished \subseteq Lookups
  /\ held \in 0..TextBudget /\ dropped \in Nat
  /\ shared \in BOOLEAN

ModelOK ==
  /\ input \in [Documents -> Inputs]
  /\ trips \in [Documents -> SUBSET Gates]
  /\ missed \in [Documents -> SUBSET Notices]
  /\ incomplete \in [Documents -> SUBSET Notices]

Files == [input: Inputs, incomplete: SUBSET Notices, whole: BOOLEAN]

OutputOK ==
  /\ hits \in [Gates -> SUBSET Targets]
  /\ reports \subseteq Targets /\ printed \subseteq reports
  /\ file \in [Documents -> {Missing} \cup Files]
  /\ late \subseteq Targets

TypeOK == LineOK /\ ControlOK /\ GlobalsOK /\ ModelOK /\ OutputOK

\* A run that came to its end: neither an error nor a kill cut it short.
Finished == exit \notin {Running, Killed, 1}

\* The gates the run gets to.  `--report outdated` ends a document's turn before
\* the scorecards are read.
Evaluated == Asked \ (IF line.report = "outdated" THEN {"scorecards"} ELSE {})

\* The gates of this run that a document ran into.
Tripped == {g \in Evaluated : \E d \in Targets : g \in trips[d]}

\* The exit code of a finished run is 0 only when no document ran into a gate,
\* and otherwise that of the first gate in the order docs/cli.md gives which
\* some document ran into, whichever document that was and whatever the others
\* or a report did to its turn.
ExitNamesTheGates ==
  Finished =>
    IF Tripped = {} THEN exit = 0
    ELSE \E i \in DOMAIN Precedence :
           /\ exit = ExitCode[Precedence[i]]
           /\ Precedence[i] \in Tripped
           /\ \A k \in 1..(i - 1) : Precedence[k] \notin Tripped

\* Whatever the exit code, a finished run leaves every document it was asked
\* for: reported on stdout; or on disk with this run's packages and notices, and
\* whole unless the disk refused its last piece in this very run.  What earlier
\* runs left there, killed or refused while they wrote, is never taken for it.
ArtifactIsLeft ==
  Finished =>
    IF line.report = "none"
    THEN \A d \in Targets : file[d] = Rendered(d, incomplete[d], d \notin late)
    ELSE printed = Targets

\* "0 | Document(s) written." (docs/cli.md): every exit code of a finished run
\* says its documents were written, all of each.  The writer is dropped without
\* a flush, so a last piece the disk refuses is an error nobody sees.
ExitMeansWritten ==
  Finished /\ line.report = "none" => \A d \in Targets : file[d].whole

\* A document on disk names every lookup that failed for it, every service
\* whose expired copy it was built from and the texts it lacks, whether its own
\* lookup, the shared one or one made before the loop was the one that did.
IncompleteIsSaid ==
  line.report = "none" =>
    \A d \in Targets : d < doc => missed[d] \subseteq file[d].incomplete

\* The steps at which a gate has been checked for the document at hand.
Past ==
  LET ends == {"write", "drop", "vex", "report"}
      gates == ends \cup {"scorecard"}
  IN  [files |-> gates \cup {"enrich", "osv", "scores", "gates"},
       vulnerabilities |-> gates \cup {"gates"},
       yanked |-> gates, licenses |-> gates, quality |-> gates,
       scorecards |-> ends, phantoms |-> {}, diff |-> {}]

\* The documents a gate has been checked for and that ran into it.
RanInto(g) == {d \in Targets : g \in trips[d] /\ (d < doc \/ (d = doc /\ pc \in Past[g]))}

\* The gates whose lists are kept at all.
Kept(g) == g \in Looked /\ (g = "scorecards" => line.report # "outdated")

\* A gate lists exactly the documents that ran into it among those it has been
\* checked for: no document is forgotten when another follows, none is listed
\* twice or for a gate its run does not look for.
HitsInv == \A g \in Gates : hits[g] = IF Kept(g) THEN RanInto(g) ELSE {}
=============================================================================

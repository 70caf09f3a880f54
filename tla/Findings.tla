------------------------------- MODULE Findings -------------------------------
(***************************************************************************)
(* What a run makes of the findings on one document (main.rs:548 to 935):   *)
(* its settings are put together, its packages get the names others know    *)
(* them by, OSV is asked, findings that share a name become one, the KEV    *)
(* catalog, EPSS scores, VEX statements and --ignore-vuln are applied, the  *)
(* gates look at what is left, and the findings are reported or written.    *)
(*                                                                         *)
(* A job is what a run is given and what there is: [request, packages,       *)
(* mapping, answers, records, catalog, scores, cards, authors, openState];   *)
(* answers maps a purl to the ids of its advisories, records an id to its   *)
(* record, cards a project to its scorecard.                                *)
(***************************************************************************)
EXTENDS Configuration, Triage, Licenses, Quality

CONSTANTS Jobs

VARIABLES
  job,
  settings,
  stage,       \* how far the run is
  packages,    \* of the document
  incomplete,  \* what each lookup could not get
  found,       \* the findings as OSV names them
  forest,      \* the union-find over them
  findings,    \* the merged ones
  next,        \* the next of the loop's: layer, finding, statement or ignore
  applied,     \* the statements that applied to something
  gates,       \* what each gate holds against the document
  exempt,      \* the packages marked as exempt from the license policy
  output       \* what is said in the end

vars == <<job, settings, stage, packages, incomplete, found, forest, findings, next, applied, gates, exempt, output>>

Gates == {"vulnerabilities", "yanked", "licenses", "quality", "scorecards"}
Given == Layers(job.request)
ParseIgnores(texts) == [n \in DOMAIN texts |-> ParseIgnore(texts[n])]
ReadStatements(files) == FoldLeft(LAMBDA all, file : all \o StatementsOf(file), <<>>, files)
Ignores == ParseIgnores(settings.ignoreVuln)
Statements == ReadStatements(settings.vexIn)
PolicyOf(allow, deny, required, exemptions) ==
  NewPolicy([allow |-> allow, deny |-> deny, required |-> required, exemptions |-> exemptions])

Init ==
  /\ job \in Jobs
  /\ settings = CommandLine(job.request.given)
  /\ stage = "started"
  /\ packages = job.packages
  /\ incomplete = [osv |-> {}, scorecard |-> {}] /\ found = <<>> /\ forest = <<>> /\ findings = {} /\ next = 1
  /\ applied = {} /\ gates = [g \in Gates |-> {}] /\ exempt = {} /\ output = None

LoadConfiguration ==
  /\ stage = "started"
  /\ stage' = IF \A n \in DOMAIN Given : Given[n].parses THEN "configuring" ELSE "refused"
  /\ UNCHANGED <<job, settings, packages, incomplete, found, forest, findings, next, applied, gates, exempt, output>>

ApplyNextLayer ==
  /\ stage = "configuring" /\ next <= Len(Given)
  /\ IF IsRejected(Given[next].says, job.request.given)
     THEN stage' = "refused" /\ UNCHANGED <<settings, next>>
     ELSE /\ settings' = Apply(settings, Given[next].says, job.request.given)
          /\ next' = next + 1 /\ UNCHANGED stage
  /\ UNCHANGED <<job, packages, incomplete, found, forest, findings, applied, gates, exempt, output>>

\* Settings that do not go together, or an --ignore-vuln that says nothing
\* sensible, and no run.
CheckSettings ==
  /\ stage = "configuring" /\ next > Len(Given)
  /\ stage' = IF /\ IsValid(settings, job.request.report, job.request.vex)
                 /\ ResolveSpecVersion(settings) # None
                 /\ \A n \in DOMAIN Ignores : Ignores[n].error = None
              THEN "built" ELSE "refused"
  /\ UNCHANGED <<job, settings, packages, incomplete, found, forest, findings, next, applied, gates, exempt, output>>

Enrich ==
  /\ stage = "built"
  /\ packages' = LET mapped == MapNames(LoadPypiMapping(settings, job.mapping), packages)
                 IN  IF settings.primaryPurl = "pypi" THEN PreferPypiPurl(mapped) ELSE mapped
  /\ stage' = IF settings.vulnerabilities = None THEN "judging" ELSE "enriched"
  /\ UNCHANGED <<job, settings, incomplete, found, forest, findings, next, applied, gates, exempt, output>>

\* osv.rs, run_with: some of the records may not be had.
AskOsv ==
  /\ stage = "enriched"
  /\ \E ids \in SUBSET DOMAIN job.records :
       LET known == DOMAIN job.records \ ids
           fetched == [id \in known |-> job.records[id]]
       IN  /\ Cardinality(ids) <= 1
           /\ incomplete' = [incomplete EXCEPT !.osv = ids]
           /\ found' = FindingsOf(packages, job.answers, fetched)
           /\ forest' = [i \in DOMAIN found' |-> i]
  /\ next' = 1 /\ stage' = "uniting"
  /\ UNCHANGED <<job, settings, packages, findings, applied, gates, exempt, output>>

UniteNext ==
  /\ stage = "uniting" /\ next <= Len(found)
  /\ forest' = Unite(forest, found, next)
  /\ next' = next + 1
  /\ UNCHANGED <<job, settings, stage, packages, incomplete, found, findings, applied, gates, exempt, output>>

MergeFindings ==
  /\ stage = "uniting" /\ next > Len(found)
  /\ findings' = MergeDuplicates(found, forest)
  /\ stage' = "merged"
  /\ UNCHANGED <<job, settings, packages, incomplete, found, forest, next, applied, gates, exempt, output>>

AssessFindings ==
  /\ stage = "merged"
  /\ findings' = LET listed == IF settings.kev THEN ApplyKev(findings, job.catalog) ELSE findings
                 IN  IF settings.epss THEN ApplyEpss(listed, job.scores) ELSE listed
  /\ next' = 1 /\ stage' = "statements"
  /\ UNCHANGED <<job, settings, packages, incomplete, found, forest, applied, gates, exempt, output>>

ApplyNextStatement ==
  /\ stage = "statements" /\ next <= Len(Statements)
  /\ findings' = ApplyStatement(findings, Statements[next])
  /\ applied' = applied \cup {n \in {next} : \E f \in findings : Decides(Statements[n], f)}
  /\ next' = next + 1
  /\ UNCHANGED <<job, settings, stage, packages, incomplete, found, forest, gates, exempt, output>>

StartIgnores ==
  /\ stage = "statements" /\ next > Len(Statements)
  /\ next' = 1 /\ stage' = "ignores"
  /\ UNCHANGED <<job, settings, packages, incomplete, found, forest, findings, applied, gates, exempt, output>>

ApplyNextIgnore ==
  /\ stage = "ignores" /\ next <= Len(Ignores)
  /\ findings' = ApplyIgnore(findings, Ignores[next])
  /\ next' = next + 1
  /\ UNCHANGED <<job, settings, stage, packages, incomplete, found, forest, applied, gates, exempt, output>>

EndIgnores ==
  /\ stage = "ignores" /\ next > Len(Ignores)
  /\ stage' = "judging"
  /\ UNCHANGED <<job, settings, packages, incomplete, found, forest, findings, next, applied, gates, exempt, output>>

\* The gates, one after another; that of the scorecards comes later.
CheckGates ==
  LET policy == PolicyOf(settings.allowLicense, settings.denyLicense, settings.requireLicense, settings.ignoreLicense)
      rule == [severity |-> settings.failOnSeverity, kev |-> settings.failOnKev, epss |-> settings.failOnEpss]
      judged == IF policy = None THEN [violations |-> {}, exempt |-> {}]
                ELSE CheckLicenses(policy, packages)
      grade == Assess(job.authors, packages)
  IN  /\ stage = "judging"
      /\ gates' =
           [vulnerabilities |-> IF IsSet(rule) THEN {f.id : f \in GateHits(rule, findings)} ELSE {},
            yanked |-> IF settings.failOnYanked THEN {p.id : p \in {q \in packages : q.yanked}} ELSE {},
            licenses |-> judged.violations,
            quality |-> IF settings.minQuality # None /\ grade.overall < settings.minQuality
                        THEN Values(Weakest(grade, 3)) ELSE {},
            scorecards |-> {}]
      /\ exempt' = {e.violation.name : e \in judged.exempt}
      /\ stage' = "checked"
      /\ UNCHANGED <<job, settings, packages, incomplete, found, forest, findings, next, applied, output>>

\* Bound: of the projects that have a card, one at most is not answered.
ReadScorecards ==
  /\ stage = "checked"
  /\ IF ~ settings.scorecard THEN UNCHANGED <<packages, incomplete, gates>>
     ELSE \E got \in CardsGot(packages, job.cards) :
            LET failed == {p \in DOMAIN got : got[p] = None}
                failOn == settings.failOnScorecard
            IN  /\ Cardinality({p \in failed : ProjectOf(p.repository) \in DOMAIN job.cards}) <= 1
                /\ packages' = ApplyCards(packages, got, settings.scorecardMin)
                /\ incomplete' = [incomplete EXCEPT !.scorecard = Ids(failed)]
                /\ gates' = [gates EXCEPT !["scorecards"] =
                                IF failOn = None THEN {} ELSE {b.name : b \in Below(packages', failOn)}]
  /\ stage' = "scored"
  /\ UNCHANGED <<job, settings, found, forest, findings, next, applied, exempt, output>>

Unsaid ==
  [rows |-> None, summary |-> None, sarif |-> None, entries |-> None, vex |-> None, spdx3 |-> None,
   licenses |-> None, quality |-> None, scorecard |-> None]

\* `--report licenses`, `quality` or `scorecard`.
ReportPackages ==
  LET report == job.request.report
      rows == {LicenseRow(p, exempt) : p \in packages}
  IN  /\ stage = "scored" /\ report \in {"licenses", "quality", "scorecard"}
      /\ output' = CASE report = "licenses" ->
                          [Unsaid EXCEPT !.rows = rows, !.licenses = SummarizeLicenses(rows)]
                     [] report = "quality" -> [Unsaid EXCEPT !.quality = Assess(job.authors, packages)]
                     [] OTHER -> [Unsaid EXCEPT !.scorecard = ScorecardReport(packages, settings.scorecardMin)]
      /\ stage' = "listed"
      /\ UNCHANGED <<job, settings, packages, incomplete, found, forest, findings, next, applied, gates, exempt>>

\* `--report vulnerabilities`, as SARIF or otherwise.
Report ==
  LET rows == VulnerabilityRows(findings, packages)
  IN  /\ stage = "scored" /\ job.request.report = "vulnerabilities"
      /\ output' = [Unsaid EXCEPT !.rows = rows, !.sarif = Sarif(rows),
                                  !.summary = SummarizeVulnerabilities(findings, packages)]
      /\ stage' = "reported"
      /\ UNCHANGED <<job, settings, packages, incomplete, found, forest, findings, next, applied, gates, exempt>>

\* A document, and with --vex what is to be said of its findings.
WriteFindings ==
  /\ stage = "scored" /\ job.request.report = None
  /\ output' = CASE settings.format = "cyclonedx" ->
                      [Unsaid EXCEPT !.entries = {VulnerabilityEntry(f) : f \in findings},
                                     !.vex = IF job.request.vex THEN Vex(findings, job.openState) ELSE None]
                 [] settings.format = "spdx" /\ ResolveSpecVersion(settings) = "3.0" ->
                      [Unsaid EXCEPT !.spdx3 = Assessments(findings, packages)]
                 [] OTHER -> Unsaid
  /\ stage' = "written"
  /\ UNCHANGED <<job, settings, packages, incomplete, found, forest, findings, next, applied, gates, exempt>>

Next ==
  \/ LoadConfiguration \/ ApplyNextLayer \/ CheckSettings
  \/ Enrich \/ AskOsv \/ UniteNext \/ MergeFindings \/ AssessFindings
  \/ ApplyNextStatement \/ StartIgnores \/ ApplyNextIgnore \/ EndIgnores \/ CheckGates \/ ReadScorecards
  \/ ReportPackages \/ Report \/ WriteFindings

Spec == Init /\ [][Next]_vars

-------------------------------------------------------------------------------
(***************************************************************************)
(* Properties.                                                              *)
(***************************************************************************)
Merged == stage \notin {"started", "configuring", "built", "refused", "enriched", "uniting"}
Decided == stage \in {"checked", "scored", "listed", "reported", "written"}

\* What a setting ought to be (docs/cli.md:699): what the command line says, else
\* the most specific file that says it, else the default.
Asked(key) ==
  LET saying == {n \in DOMAIN Given : key \in DOMAIN Given[n].says}
  IN  CASE key \in DOMAIN job.request.given -> job.request.given[key]
        [] key \notin DOMAIN job.request.given /\ saying # {} -> Given[Max(saying)].says[key]
        [] OTHER -> Defaults[key]
AskedPolicy == PolicyOf(Asked("allowLicense"), Asked("denyLicense"), Asked("requireLicense"), Asked("ignoreLicense"))

\* Findings that share a name, directly or through others, become one (osv.rs:684),
\* in whatever order they come: afterwards no two share a name, each has the
\* names of a whole group and nothing of another's, and nothing a member said
\* is lost: which packages are affected, a fix if one is known, every score.
DuplicatesAreOne ==
  LET linked == {p \in (DOMAIN found) \X (DOMAIN found) :
                   Names(found[p[1]]) \cap Names(found[p[2]]) # {}}
      Group(i) == Reached({i}, linked)
      Of(f) == {i \in DOMAIN found : found[i].id \in Names(f)}
      Affected(i) == {a.package : a \in found[i].affects}
      Scores(f) == {<<r.vector, r.score>> : r \in {q \in Values(f.ratings) : q.score # None}}
  IN  Merged =>
        /\ \A i \in DOMAIN found : Cardinality({f \in findings : found[i].id \in Names(f)}) = 1
        /\ \A f \in findings :
             /\ \A i \in Of(f) : Of(f) = Group(i)
             /\ Names(f) = UNION {Names(found[i]) : i \in Of(f)}
             /\ {a.package : a \in f.affects} = UNION {Affected(i) : i \in Of(f)}
             /\ \A i \in Of(f) : \A a \in found[i].affects :
                  a.fixed # None => \E b \in f.affects : b.package = a.package /\ b.fixed # None
             /\ \A i \in Of(f) : Scores(found[i]) \subseteq Scores(f)

\* The gate (vulnpolicy.rs:222) trips over exactly the findings that are as bad as
\* the rule asked for says by their records, the catalog and the scores, and that
\* are not closed: by an --ignore-vuln that names them, or by the last VEX
\* statement that names them and covers everything they affect.
GateIsExact ==
  LET statements == ReadStatements(Asked("vexIn"))
      ignores == ParseIgnores(Asked("ignoreVuln"))
      severity == Asked("failOnSeverity")
      Applies(n, f) == /\ statements[n].names \cap Names(f) # {}
                       /\ \A a \in f.affects : \/ statements[n].products = {}
                                               \/ \E p \in statements[n].products : SamePackage(p, a.purl)
      Speaks(f) == {n \in DOMAIN statements : Applies(n, f)}
      Closed(f) == \/ \E n \in DOMAIN ignores : ignores[n].name \in Names(f)
                   \/ Speaks(f) # {} /\ statements[Max(Speaks(f))].analysis.state \in SuppressingStates
      Exploited(f) == Names(f) \cap job.catalog # {}
      Likely(f) == \E n \in Names(f) \cap DOMAIN job.scores : job.scores[n] >= Asked("failOnEpss")
      Severe(f) == \/ Asked("kev") /\ Exploited(f)
                   \/ \E r \in Values(f.ratings) : Rank(r.severity) >= Rank(severity)
      Bad(f) == \/ Asked("failOnKev") /\ Exploited(f)
                \/ Asked("failOnEpss") # None /\ Likely(f)
                \/ severity # None /\ Severe(f)
  IN  Decided => gates["vulnerabilities"] = {f.id : f \in {g \in findings : Bad(g) /\ ~ Closed(g)}}

\* A license's expression as the alternatives it offers, each the licenses that
\* then hold together.
Alternatives(expression) ==
  LET Push(stack, node) ==
        LET n == Len(stack)
            left == stack[n - 1]
            right == stack[n]
        IN  CASE node = And -> Append(SubSeq(stack, 1, n - 2), {a \cup b : a \in left, b \in right})
              [] node = Or -> Append(SubSeq(stack, 1, n - 2), left \cup right)
              [] OTHER -> Append(stack, {{node}})
  IN  Head(FoldLeft(Push, <<>>, expression))

\* The license policy asked for (policy.rs:312) holds a package's license against it unless
\* one way to comply with it is all of licenses that are allowed and not denied,
\* and calls it denied only if every way has a denied license in it; a package
\* that is exempt is marked as such and held against nobody.  The report of
\* licenses (report.rs:1579) knows the same packages as without a license.
PolicyIsExact ==
  LET policy == AskedPolicy
      Ways(p) == Alternatives(Normalize(p.license).expression)
      stated == {p \in packages : p.license # None /\ Normalize(p.license).form = "expression"}
      fine == {p \in stated : \E way \in Ways(p) : \A l \in way : Allowed(policy, l) /\ ~ Denied(policy, l)}
      denied == {p \in stated : \A way \in Ways(p) : \E l \in way : Denied(policy, l)}
      excused == {p \in packages : \E i \in DOMAIN policy.exemptions : p.name \in policy.exemptions[i].matches}
      Against(s) == {v.package : v \in {w \in gates["licenses"] : w.reason \in s}}
  IN  (Decided /\ policy # None) =>
        /\ Against({"denied", "notAllowed"}) = {p.id : p \in stated \ (fine \cup excused)}
        /\ Against({"denied"}) = {p.id : p \in denied \ excused}
        /\ policy.required => Against({"missing", "notSpdx"}) = {p.id : p \in packages \ (stated \cup excused)}
        /\ exempt = {p.name : p \in excused \cap (IF policy.required THEN packages \ fine ELSE stated \ fine)}
        /\ (stage = "listed" /\ output.licenses # None) =>
             /\ output.licenses.unlicensed \cup output.licenses.nonSpdx = {p.name : p \in packages \ stated}
             /\ output.licenses.exempt = exempt

\* What trips the gate is open in whatever is said of it: a SARIF result that is
\* not suppressed, with a rule, for each package it affects; a VEX entry that
\* does not clear it, an SPDX document without a "not affected"; and what the
\* gate lets pass because it is closed is suppressed in SARIF.  A scorecard's
\* gate, too, is over what its report shows: a package has the score of its own
\* project, to a tenth, or the document says that it could not be asked for.
EveryReportAgrees ==
  LET Of(f) == {r \in output.sarif.results : r.rule = f.id}
      hits == {f \in findings : f.id \in gates["vulnerabilities"]}
      asked == [severity |-> Asked("failOnSeverity"), kev |-> Asked("failOnKev"), epss |-> Asked("failOnEpss")]
  IN  /\ stage = "reported" =>
           /\ \A f \in hits : /\ {r.purl : r \in Of(f)} = {a.purl : a \in f.affects}
                              /\ \A r \in Of(f) : r.suppression = None
           /\ \A f \in findings \ hits :
                (IsSet(asked) /\ Trips(asked, f)) => \A r \in Of(f) : r.suppression # None
           /\ {r.rule : r \in output.sarif.results} = {rule.id : rule \in output.sarif.rules}
           /\ Cardinality(output.sarif.rules) = Cardinality(findings)
      /\ (stage = "listed" /\ output.scorecard # None) =>
           LET report == output.scorecard
               Row(p) == CHOOSE r \in report.rows : r.id = p.id
               ItsCard(p) == job.cards[ProjectOf(p.repository)]
               low == {r \in report.rows : r.score # None /\ 10 * r.score < Asked("failOnScorecard")}
           IN  /\ Asked("failOnScorecard") # None =>
                     gates["scorecards"] = {p.name : p \in {q \in packages : Row(q) \in low}}
               /\ \A p \in packages :
                    LET hasCard == ProjectOf(p.repository) \in DOMAIN job.cards
                    IN  /\ Row(p).score # None => hasCard /\ Row(p).score = Tenths(ItsCard(p).score)
                        /\ hasCard /\ Row(p).score = None => p.id \in incomplete.scorecard
               /\ MapThenSumSet(LAMBDA b : report.bands[b], DOMAIN report.bands) = report.scored
               /\ report.scored + report.unknown = Cardinality(packages)
      /\ (stage = "listed" /\ output.quality # None /\ Asked("minQuality") # None) =>
           (gates["quality"] # {} <=> output.quality.overall < Asked("minQuality"))
      /\ stage = "written" =>
           \A f \in hits :
             /\ output.vex # None => \E e \in output.vex : e.id = f.id /\ e.analysis.state \notin SuppressingStates
             /\ output.spdx3 # None => /\ f.id \notin output.spdx3.notAffected
                                       /\ \E v \in output.spdx3.vulnerabilities : v.id = f.id
===============================================================================

------------------------------ MODULE MCFindings ------------------------------
(***************************************************************************)
(* Jobs for Findings: advisories that share names in a chain, statements    *)
(* about some of what a finding affects, and licenses with alternatives.    *)
(***************************************************************************)
EXTENDS Findings

MCSpelling == [Six |-> "six"]
MCCpeTable == {"openssl"}

Cve(n) == [db |-> "CVE", n |-> n]
Ghsa(n) == [db |-> "GHSA", n |-> n]
Pysec(n) == [db |-> "PYSEC", n |-> n]

(***************************************************************************)
(* Licenses.                                                                *)
(***************************************************************************)
Lgpl(version, suffix) == [family |-> "LGPL", version |-> version, suffix |-> suffix, addition |-> None]
Mit == [family |-> "MIT", version |-> None, suffix |-> "", addition |-> None]
Bsd == [Mit EXCEPT !.family = "BSD"]
Stated(expression) == [form |-> "expression", expression |-> expression]

MitOrLgpl == Stated(<<Mit, Lgpl(2, "or-later"), Or>>)
Both == Stated(<<Mit, Lgpl(3, "only"), And, Bsd, Or>>)
Prose == [form |-> "prose", expression |-> <<>>]

(***************************************************************************)
(* Packages: six of conda-forge, which PyPI has too, web of PyPI, a native  *)
(* one, and one that nobody knows.                                          *)
(***************************************************************************)
Of(kind, name, purl, license) ==
  [license |-> license, channel |-> "conda-forge", purlsFromLock |-> FALSE, supplier |-> None,
   cpe |-> None, interpreter |-> FALSE, scorecard |-> None, scoredOn |-> None, checks |-> {},
   licenseFrom |-> None]
    @@ [Package(kind, name, 1, purl) EXCEPT !.deps = {}]
Conda(name, license) == Of("conda", name, Purl("conda", name, 1, [build |-> "h0"]), license)

Repository(host, path) == [host |-> host, path |-> path]
WebRepository == Repository("github.com", << <<"web">>, <<"web", "ui">> >>)
OpensslRepository == Repository("gitlab.com", << <<"ssl">>, <<"open">>, <<"tree">> >>)
MCPackages ==
  {[Conda("six", MitOrLgpl) EXCEPT !.repository = WebRepository], [Conda("openssl", Prose) EXCEPT !.channel = "other", !.yanked = TRUE,
                                   !.repository = OpensslRepository],
   [Of("pypi", "web", PypiPurl("web", 1), Both) EXCEPT !.hash = "web", !.supplier = "PyPI", !.repository = WebRepository,
      !.deps = {Purl("conda", "six", 1, [build |-> "h0"])}],
   [Of("external", "tk", StandIn("tk", None), None) EXCEPT
      !.repository = Repository("tk.org", << <<"tk">>, <<"tk">> >>)]}

Card(score, checks) == [score |-> score, date |-> "monday", checks |-> checks]
MCCards ==
  (ProjectOf(WebRepository) :> Card(696, [Maintained |-> None, Signed |-> 0, Fuzzing |-> 700]))
    @@ (ProjectOf(OpensslRepository) :> Card(412, [Maintained |-> 698, Signed |-> 1000]))

(***************************************************************************)
(* Advisories.  PYSEC-1 joins GHSA-1 and GHSA-2, which share no name; GHSA-3 *)
(* stands alone, as does GHSA-4, which has no fix.                          *)
(***************************************************************************)
Record(id, aliases, database, scores, affected) ==
  [id |-> id, aliases |-> aliases, database |-> database, scores |-> scores, summary |-> None,
   cwes |-> {}, references |-> {}, affected |-> affected]
Affects(name, versions) == [type |-> "pypi", name |-> name, git |-> FALSE, versions |-> versions]
Vector(of, score) == [vector |-> of, score |-> score]

MCRecords ==
  (Ghsa(1) :> Record(Ghsa(1), {Cve(1)}, "medium", <<Vector("v1", 55)>>, <<>>))
    @@ (Ghsa(2) :> Record(Ghsa(2), {Cve(2)}, None, <<Vector("v2", None)>>, <<Affects("web", {1, 3})>>))
    @@ (Pysec(1) :> Record(Pysec(1), {Cve(1), Cve(2)}, None, <<Vector("v3", 75)>>, <<Affects("Six", {2})>>))
    @@ (Ghsa(3) :> Record(Ghsa(3), {Cve(3)}, "low", <<>>, <<Affects("six", {2, 4})>>))
    @@ (Ghsa(4) :> Record(Ghsa(4), {}, "high", <<>>, <<>>))

MCAnswers ==
  (PypiPurl("web", 1) :> {Ghsa(1), Ghsa(2), Ghsa(4), Pysec(1)})
    @@ (PypiPurl("six", 1) :> {Pysec(1), Ghsa(3)})

(***************************************************************************)
(* Decisions.                                                               *)
(***************************************************************************)
Web == [PypiPurl("web", None) EXCEPT !.version = None]
Six == PypiPurl("six", 1)
\* A statement about web, one about the package that is not in the file, and one
\* that nobody understands.
CycloneDxVex(state) ==
  [format |-> "cyclonedx", source |-> "a.json", components |-> {[ref |-> "c1", purl |-> Web]},
   statements |-> <<[id |-> Ghsa(1), references |-> {Cve(1)}, state |-> state,
                     justification |-> "code_not_reachable", refs |-> {"c1"}],
                    [id |-> Ghsa(4), references |-> {}, state |-> state,
                     justification |-> None, refs |-> {"c1"}],
                    [id |-> Ghsa(3), references |-> {}, state |-> "unheard of",
                     justification |-> None, refs |-> {}]>>]
OpenVexOf(name, status, products) ==
  [format |-> "openvex", source |-> "b.json", components |-> {},
   statements |-> <<[id |-> name, aliases |-> {}, status |-> status,
                     justification |-> "component_not_present", products |-> products]>>]
Product(purl, parts) == [id |-> purl, subcomponents |-> parts]
MCVex ==
  {<<>>, <<CycloneDxVex("not_affected")>>,
   <<CycloneDxVex("not_affected"), OpenVexOf(Ghsa(4), "affected", {})>>,
   <<OpenVexOf(Cve(2), "not_affected", {Product(Web, {Web, Six})}), CycloneDxVex("exploitable")>>,
   <<OpenVexOf(Cve(3), "fixed", {Product(Six, {})}), OpenVexOf(Cve(1), "under_investigation", {})>>}
MCIgnores ==
  {<<>>, <<(<<Cve(3)>>)>>, <<(<<Cve(2), "exploitable", "update", "soon">>)>>,
   <<(<<Ghsa(4), "not_affected", "code_not_present">>), <<Cve(1), "in_triage">>>>,
   <<(<<Ghsa(4), "resolved", "code_not_present">>)>>}

(***************************************************************************)
(* Settings, and where they are said.                                       *)
(***************************************************************************)
MCRules ==
  {[failOnSeverity |-> "high"], [failOnKev |-> TRUE, failOnEpss |-> 5],
   [failOnSeverity |-> "critical", pypiMapping |-> "lock", primaryPurl |-> "conda"]}
Scanning(vex, ignores, rule) ==
  rule @@ [vulnerabilities |-> "osv", kev |-> TRUE, epss |-> TRUE, vexIn |-> vex, ignoreVuln |-> ignores,
           pypiMapping |-> "prefix"]

Policy(allow, deny, required, exemptions) ==
  [allowLicense |-> allow, denyLicense |-> deny, requireLicense |-> required, ignoreLicense |-> exemptions]
MCPolicies ==
  {Policy({}, {}, FALSE, <<>>),
   Policy({Mit, Lgpl(2, "only")}, {Lgpl(2, "or-later")}, TRUE, <<[matches |-> {"tk"}, why |-> "ours"]>>),
   Policy({Lgpl(3, "only"), Bsd}, {Mit}, FALSE, <<>>), Policy({Mit, Bsd}, {Bsd}, FALSE, <<>>),
   Policy({}, {Mit, Bsd}, FALSE, <<[matches |-> {"web"}, why |-> None]>>),
   Policy({Mit}, {Lgpl(3, "only"), Bsd}, TRUE, <<>>)}
Judging(policy) ==
  policy @@ [minQuality |-> IF policy.requireLicense THEN 90 ELSE 40, failOnYanked |-> TRUE, fetchLicenses |-> TRUE, primaryPurl |-> "pypi",
             pypiMappingFile |-> [six |-> {"Six"}]]
Scoring(failOn) ==
  (IF failOn = None THEN <<>> ELSE [failOnScorecard |-> failOn])
    @@ Judging(Policy({Mit}, {}, TRUE, <<>>)) @@ [scorecard |-> TRUE, scorecardMin |-> 700]

\* What another place says of the same keys.
Contrary ==
  [vulnerabilities |-> "osv", kev |-> FALSE, epss |-> FALSE, vexIn |-> <<>>, ignoreVuln |-> <<(<<Cve(1)>>)>>,
   pypiMapping |-> "lock", pypiMappingFile |-> [six |-> {}], primaryPurl |-> "conda",
   failOnSeverity |-> "low", failOnKev |-> FALSE, failOnEpss |-> 1,
   allowLicense |-> {Bsd}, denyLicense |-> {Mit}, requireLicense |-> TRUE,
   ignoreLicense |-> <<[matches |-> {"six"}, why |-> None]>>,
   minQuality |-> 101, failOnYanked |-> FALSE, fetchLicenses |-> FALSE,
   scorecard |-> FALSE, scorecardMin |-> 100, failOnScorecard |-> 1000]
Against(says) == Restrict(Contrary, DOMAIN says \cap DOMAIN Contrary)
File(says) == [says |-> says, parses |-> TRUE]
Broken == [says |-> <<>>, parses |-> FALSE]
Nowhere == [system |-> None, user |-> None, aligned |-> None, pyproject |-> None, legacy |-> None]
Asking(given, places, report) ==
  [given |-> given, noConfig |-> FALSE, explicit |-> None, places |-> places, report |-> report, vex |-> FALSE]

OnCommandLine(says, report) == Asking(says, Nowhere, report)
InProject(says, report) ==
  Asking(<<>>, [Nowhere EXCEPT !.user = File(Against(says)), !.aligned = File(says), !.pyproject = Broken], report)
\* Half in the file of the user, over that of the system, and half in the project's.
Split(says, report) ==
  LET Some(keys) == Restrict(says, DOMAIN says \cap keys)
      rules == {"failOnSeverity", "failOnKev", "failOnEpss", "denyLicense", "requireLicense", "minQuality", "failOnScorecard"}
  IN  Asking(<<>>, [Nowhere EXCEPT !.system = File(Against(says)), !.user = File(Some(DOMAIN says \ rules)),
                                    !.pyproject = File(Some(rules)), !.legacy = Broken], report)
Overruled(says, report) ==
  [Asking(says, [Nowhere EXCEPT !.legacy = File(Against(says)), !.user = Broken], report) EXCEPT
     !.explicit = File(Against(says))]

Spdx3(request) ==
  [request EXCEPT !.given = [format |-> "spdx", specVersion |-> "3.0"] @@ @]
Refused ==
  {InProject([failOnKev |-> TRUE, vulnerabilities |-> "osv"], None),
   InProject([failOnPhantom |-> TRUE], "licenses"), InProject([failOnSeverity |-> "high"], None),
   InProject([vulnerabilities |-> Misspelt], None), InProject([epss |-> TRUE, failOnEpss |-> 11], None),
   [InProject([specVersion |-> "1.7"], None) EXCEPT !.given = [format |-> "spdx"]],
   Asking(<<>>, [Nowhere EXCEPT !.user = Broken], None),
   [OnCommandLine([format |-> "github", vulnerabilities |-> "osv"], None) EXCEPT !.vex = TRUE]}
Requests ==
  {OnCommandLine(Scanning(v, i, r), "vulnerabilities") : v \in MCVex, i \in MCIgnores, r \in MCRules}
    \cup {[InProject(Scanning(v, i, r), None) EXCEPT !.vex = TRUE] :
            v \in MCVex, i \in {<<>>, <<(<<Cve(3)>>)>>}, r \in MCRules}
    \cup {Split(Scanning(v, <<>>, r), "vulnerabilities") : v \in MCVex, r \in MCRules}
    \cup {Spdx3(Overruled(Scanning(v, <<>>, r), None)) : v \in MCVex, r \in MCRules}
    \cup {OnCommandLine(Judging(p), report) : p \in MCPolicies, report \in {"licenses", "quality"}}
    \cup {Split(Judging(p), "licenses") : p \in MCPolicies}
    \cup {[InProject(Judging(p), None) EXCEPT !.noConfig = TRUE] : p \in MCPolicies}
    \cup {InProject(Scoring(n), "scorecard") : n \in {None, 500, 700}}
    \cup Refused

Job(request, cards) ==
  [request |-> request, packages |-> MCPackages, mapping |-> [six |-> {"Six"}], answers |-> MCAnswers,
   records |-> MCRecords, catalog |-> {Cve(2)}, scores |-> (Cve(1) :> 2) @@ (Cve(3) :> 7),
   cards |-> cards, authors |-> {}, openState |-> "in_triage"]
MCJobs ==
  {Job(r, MCCards) : r \in Requests}
    \cup {Job(InProject(Scoring(n), "scorecard"), Restrict(MCCards, {ProjectOf(WebRepository)})) : n \in {None, 700}}
===============================================================================

-------------------------------- MODULE Triage --------------------------------
(***************************************************************************)
(* What is known of a finding beyond OSV, and what was decided about it:    *)
(* the KEV catalog (kev.rs), EPSS scores (epss.rs), VEX statements          *)
(* (vexin.rs), --ignore-vuln and the gate (vulnpolicy.rs, model.rs).        *)
(***************************************************************************)
EXTENDS Advisories

\* A decision: its state, why, what is done, and the file it is from, None if it
\* was given on the command line.
Analysis(state, justification, response, detail, source) ==
  [state |-> state, justification |-> justification, response |-> response,
   detail |-> detail, source |-> source]

States == {"resolved", "resolved_with_pedigree", "exploitable", "in_triage",
           "false_positive", "not_affected"}
Justifications == {"code_not_present", "code_not_reachable", "protected_at_runtime",
                   "protected_by_mitigating_control"}
Responses == {"can_not_fix", "will_not_fix", "update"}
SuppressingStates == {"not_affected", "false_positive", "resolved", "resolved_with_pedigree"}

\* Vulnerability::is_open
IsOpen(finding) ==
  LET a == finding.analysis
  IN  a = None \/ (a.source # None /\ a.state \notin SuppressingStates)

(***************************************************************************)
(* The catalog is a set of names, the scores a function from names.         *)
(***************************************************************************)
ApplyKev(findings, catalog) ==
  {IF Names(f) \cap catalog = {} THEN f
   ELSE [f EXCEPT !.kev = CHOOSE name \in Names(f) \cap catalog :
                            name = f.id \/ (f.id \notin catalog
                              /\ \A other \in Names(f) \cap catalog : ~ NameBelow(other, name)),
                  !.ratings = Append(@, Rating("CISA", None, None, "critical")),
                  !.severity = "critical"] : f \in findings}

ApplyEpss(findings, scores) ==
  LET Best(f) ==
        LET known == Names(f) \cap DOMAIN scores
        IN  IF known = {} THEN None
            ELSE scores[CHOOSE name \in known : \A other \in known : scores[other] <= scores[name]]
  IN  {[f EXCEPT !.epss = Best(f)] : f \in findings}

(***************************************************************************)
(* A VEX file is [format, source, components, statements].  A statement of  *)
(* CycloneDX is [id, references, state, justification, refs], one of        *)
(* OpenVEX [id, aliases, status, justification, products], each product     *)
(* [id, subcomponents].  What is read is [names, products, analysis].       *)
(***************************************************************************)
\* package_key, same_package: a product without a version stands for all of them.
SamePackage(product, purl) ==
  /\ product.type = purl.type /\ Normalized(product.name) = Normalized(purl.name)
  /\ product.version \in {None, purl.version}

StatementsOf(file) ==
  LET Purls(ref) == {c.purl : c \in {d \in file.components : d.ref = ref}}
      Product(ref) == IF Purls(ref) = {} THEN ref ELSE CHOOSE purl \in Purls(ref) : TRUE
      Justified(s, justification) == IF s = "not_affected" THEN justification ELSE None
      CycloneDX(s) ==
        [names |-> {s.id} \cup s.references, products |-> {Product(ref) : ref \in s.refs},
         analysis |-> Analysis(s.state,
                        Justified(s.state, IF s.justification \in Justifications
                                           THEN s.justification ELSE None), {}, None, file.source)]
      State == [not_affected |-> "not_affected", fixed |-> "resolved",
                affected |-> "exploitable", under_investigation |-> "in_triage"]
      Why == [component_not_present |-> "code_not_present",
              vulnerable_code_not_present |-> "code_not_present",
              vulnerable_code_not_in_execute_path |-> "code_not_reachable",
              vulnerable_code_cannot_be_controlled_by_adversary |-> "protected_at_runtime",
              inline_mitigations_already_exist |-> "protected_by_mitigating_control"]
      OpenVex(s) ==
        [names |-> {s.id} \cup s.aliases,
         products |-> UNION {IF p.subcomponents = {} THEN {p.id} ELSE p.subcomponents : p \in s.products},
         analysis |-> Analysis(State[s.status],
                        Justified(s.status, IF s.justification \in DOMAIN Why
                                            THEN Why[s.justification] ELSE None), {}, None, file.source)]
      Understood(s) == CASE file.format = "cyclonedx" -> s.state \in States
                         [] file.format = "openvex" -> s.status \in DOMAIN State
                         [] OTHER -> FALSE
      read == SelectSeq(file.statements, Understood)
  IN  [n \in DOMAIN read |-> IF file.format = "cyclonedx" THEN CycloneDX(read[n]) ELSE OpenVex(read[n])]

\* Statement::names, Statement::covers
IsNamed(statement, f) == statement.names \cap Names(f) # {}
Covered(statement, f) ==
  {a \in f.affects : \/ statement.products = {}
                     \/ \E p \in statement.products : SamePackage(p, a.purl)}

\* A statement counts where it names a finding and covers all it affects.
Decides(statement, f) ==
  IsNamed(statement, f) /\ Covered(statement, f) # {} /\ Covered(statement, f) = f.affects

\* Mutant: a statement about one of the packages is about the finding.
ApplyToAny(findings, statement) ==
  {IF IsNamed(statement, f) /\ Covered(statement, f) # {}
   THEN [f EXCEPT !.analysis = statement.analysis] ELSE f : f \in findings}

\* apply, one statement: a later one is the last word.
ApplyStatement(findings, statement) ==
  {IF Decides(statement, f) THEN [f EXCEPT !.analysis = statement.analysis] ELSE f : f \in findings}

(***************************************************************************)
(* --ignore-vuln, a text split at its colons: the name, and then a state, a *)
(* justification, responses and words, each of which may be missing.        *)
(***************************************************************************)
Ignore(name, analysis, error) == [name |-> name, analysis |-> analysis, error |-> error]

ParseIgnore(parts) ==
  LET After(n) == SubSeq(parts, n, Len(parts))
      Words(rest) == IF rest = <<>> THEN None ELSE rest
      stated == Len(parts) > 1 /\ parts[2] \in States
      because == stated /\ Len(parts) > 2 /\ parts[3] \in Justifications
      next == IF because THEN 4 ELSE 3
      responds == stated /\ Len(parts) >= next /\ parts[next] \in Responses
      last == IF responds THEN next + 1 ELSE next
  IN  CASE parts[1] = None -> Ignore(None, None, "no id")
        [] parts[1] # None /\ ~ stated ->
             Ignore(parts[1], Analysis("not_affected", None, {}, Words(After(2)), None), None)
        [] parts[1] # None /\ because /\ parts[2] # "not_affected" ->
             Ignore(None, None, "justification")
        [] OTHER ->
             Ignore(parts[1], Analysis(parts[2], IF because THEN parts[3] ELSE None,
                                       IF responds THEN {parts[next]} ELSE {},
                                       Words(After(last)), None), None)

ApplyIgnore(findings, ignore) ==
  {IF ignore.name \in Names(f) THEN [f EXCEPT !.analysis = ignore.analysis] ELSE f : f \in findings}

(***************************************************************************)
(* The gate.  A rule is [severity, kev, epss].                              *)
(***************************************************************************)
\* Rule::is_set
IsSet(rule) == rule.severity # None \/ rule.kev \/ rule.epss # None

\* Rule::trips
Trips(rule, f) ==
  \/ rule.severity # None /\ Rank(f.severity) >= Rank(rule.severity)
  \/ rule.kev /\ f.kev # None
  \/ rule.epss # None /\ f.epss # None /\ f.epss >= rule.epss

\* check
GateHits(rule, findings) == {f \in findings : IsOpen(f) /\ Trips(rule, f)}

(***************************************************************************)
(* What the reports and documents say of the findings: the rows of          *)
(* `--report vulnerabilities` and their summary, SARIF (report.rs), the      *)
(* entries of CycloneDX and of a VEX document (format/cyclonedx.rs), and    *)
(* the assessments of SPDX 3.0 (format/spdx3.rs).                           *)
(***************************************************************************)

\* vulnerability_rows
RowsOf(f, packages) ==
  LET scores == {r.score : r \in Values(f.ratings)} \ {None}
      accepted == ~ IsOpen(f)
      byVex == f.analysis # None /\ f.analysis.source # None
      Named(id) == {p.name : p \in {q \in packages : q.id = id}}
  IN  {[id |-> f.id, package |-> Named(a.package), purl |-> a.purl, severity |-> f.severity,
        score |-> IF scores = {} THEN None ELSE Max(scores), aliases |-> f.aliases,
        fixed |-> a.fixed, summary |-> f.summary, kev |-> f.kev, epss |-> f.epss,
        ignored |-> IF accepted THEN f.analysis.state ELSE None,
        justification |-> IF accepted THEN f.analysis.detail ELSE None,
        vex |-> IF byVex THEN [state |-> f.analysis.state, source |-> f.analysis.source] ELSE None] :
         a \in f.affects}

VulnerabilityRows(findings, packages) == UNION {RowsOf(f, packages) : f \in findings}

\* summarize_vulnerabilities
SummarizeVulnerabilities(findings, packages) ==
  LET open == {f \in findings : IsOpen(f)}
      without == {p \in packages : Queries(p) = {}}
      rows == VulnerabilityRows(findings, packages)
  IN  [findings |-> Cardinality(open),
       bySeverity |-> [s \in {f.severity : f \in open} |-> Cardinality({f \in open : f.severity = s})],
       affectedPackages |-> Cardinality({r.purl : r \in {q \in rows : q.ignored = None}}),
       ignored |-> {f.id : f \in findings \ open},
       vexOpen |-> {f.id : f \in {g \in open : g.analysis # None}},
       knownExploited |-> {f.id : f \in {g \in open : g.kev # None}},
       withoutIdentity |-> {p.name : p \in without},
       queryable |-> packages # without]

(***************************************************************************)
(* SARIF: a rule for each id, a result for each row.                        *)
(***************************************************************************)
SecuritySeverity(row) ==
  CASE row.kev # None -> 100
    [] row.kev = None /\ row.score # None -> row.score
    [] OTHER -> [critical |-> 95, high |-> 80, medium |-> 55, low |-> 25, none |-> 0,
                 unknown |-> None][row.severity]

Level(row) ==
  CASE row.ignored # None -> "note"
    [] row.ignored = None /\ row.severity \in {"critical", "high"} -> "error"
    [] row.ignored = None /\ row.severity = "medium" -> "warning"
    [] OTHER -> "note"

\* Mutant: a finding that was assessed at all is suppressed.
SarifOfAssessed(rows) ==
  [rules |-> {[id |-> r.id, security |-> SecuritySeverity(r), exploited |-> r.kev # None] : r \in rows},
   results |-> {[rule |-> r.id, level |-> Level(r), purl |-> r.purl, fixed |-> r.fixed, score |-> r.score,
                 suppression |-> IF r.vex # None THEN r.vex.state ELSE r.ignored] : r \in rows}]

Sarif(rows) ==
  [rules |-> {[id |-> r.id, security |-> SecuritySeverity(r), exploited |-> r.kev # None] : r \in rows},
   results |-> {[rule |-> r.id, level |-> Level(r), purl |-> r.purl, fixed |-> r.fixed, score |-> r.score,
                 suppression |-> r.ignored] : r \in rows}]

(***************************************************************************)
(* CycloneDX.                                                               *)
(***************************************************************************)
\* What is advised: the upgrades there are, or what the catalog asks for.
Recommendation(f) ==
  LET upgrades == {[package |-> a.package, to |-> a.fixed] : a \in {b \in f.affects : b.fixed # None}}
  IN  IF upgrades = {} /\ f.kev # None THEN {f.kev} ELSE upgrades

VulnerabilityEntry(f) ==
  [id |-> f.id, references |-> f.aliases, ratings |-> f.ratings, cwes |-> f.cwes,
   recommendation |-> Recommendation(f), advisories |-> f.references, analysis |-> f.analysis,
   affects |-> {a.package : a \in f.affects}, kev |-> f.kev, epss |-> f.epss]

\* vex: a finding without a decision is in the state asked for.
Vex(findings, openState) ==
  {[VulnerabilityEntry(f) EXCEPT
      !.analysis = IF @ = None THEN Analysis(openState, None, {}, None, None) ELSE @] : f \in findings}

(***************************************************************************)
(* SPDX 3.0: a finding on packages that are not in the document is left     *)
(* out; a rating is an assessment if it has a score, a vector and a word.   *)
(***************************************************************************)
Assessments(findings, packages) ==
  LET Affected(f) == {a.package : a \in f.affects} \cap Ids(packages)
      there == {f \in findings : Affected(f) # {}}
      Cvss(f) == {r \in Values(f.ratings) :
                    r.score # None /\ r.vector # None /\ r.severity # "unknown"}
  IN  [vulnerabilities |-> {[id |-> f.id, also |-> f.aliases] : f \in there},
       affects |-> UNION {{[package |-> id, finding |-> f.id] : id \in Affected(f)} : f \in there},
       cvss |-> UNION {{[finding |-> f.id, score |-> r.score] : r \in Cvss(f)} : f \in there},
       kev |-> {f.id : f \in {g \in there : g.kev # None}},
       epss |-> {f.id : f \in {g \in there : g.epss # None}},
       notAffected |-> {f.id : f \in {g \in there : g.analysis # None
                                        /\ g.analysis.state = "not_affected"}}]
===============================================================================

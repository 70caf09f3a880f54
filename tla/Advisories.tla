------------------------------ MODULE Advisories ------------------------------
(***************************************************************************)
(* The advisories OSV has on the packages of a document (osv.rs): which     *)
(* packages it is asked about, what a finding says, and how findings that   *)
(* share a name become one.                                                 *)
(*                                                                         *)
(* A name is [db, n], the database and a number in it; names are ordered by *)
(* both, as their texts are.  A record is [id, aliases, database, scores,   *)
(* summary, cwes, references, affected]: database is the severity its       *)
(* database gives, scores a sequence of [vector, score] in tenths, affected *)
(* a sequence of [type, name, git, versions].  Versions can be compared.    *)
(***************************************************************************)
EXTENDS Sboms

\* Severity, from the least.
Severities == <<"unknown", "none", "low", "medium", "high", "critical">>
Rank(severity) == CHOOSE i \in DOMAIN Severities : Severities[i] = severity
Worst(severities) ==
  IF severities = {} THEN "unknown"
  ELSE CHOOSE s \in severities : \A t \in severities : Rank(t) <= Rank(s)

\* Severity::from_cvss_score
FromScore(score) ==
  CASE score = 0 -> "none"
    [] score < 40 -> "low"
    [] score < 70 -> "medium"
    [] score < 90 -> "high"
    [] OTHER -> "critical"

Databases == <<"CVE", "GHSA", "PYSEC">>
NameBelow(a, b) ==
  LET At(db) == CHOOSE i \in DOMAIN Databases : Databases[i] = db
  IN  At(a.db) < At(b.db) \/ (a.db = b.db /\ a.n < b.n)

\* queryable_purl: OSV knows no conda packages, and no commits.
Queryable(purl) ==
  IF \/ purl.type \in {"conda", "generic", "github", NoType}
     \/ purl.version = None
     \/ purl.type = "pypi" /\ purl.rest # None /\ purl.rest.kind \in {"git", "github"}
  THEN None ELSE [purl EXCEPT !.rest = None]

Queries(p) == Found({Queryable(purl) : purl \in {p.purl} \cup p.extraPurls})

\* fixed_version: the next one that is fixed, or else the last.
FixedVersion(record, purl, version) ==
  LET here == {i \in DOMAIN record.affected :
                 /\ record.affected[i].type = purl.type
                 /\ Normalized(record.affected[i].name) = Normalized(purl.name)
                 /\ ~ record.affected[i].git}
      fixed == UNION {record.affected[i].versions : i \in here}
      above == {v \in fixed : v > version}
  IN  CASE fixed = {} -> None
        [] version = None -> Min(fixed)
        [] version # None /\ above # {} -> Min(above)
        [] OTHER -> Max(fixed)

\* A rating is by OSV, by the record's database or by CISA.
Rating(source, vector, score, severity) ==
  [source |-> source, vector |-> vector, score |-> score, severity |-> severity]

\* The database's word comes first, and stands in where a vector has no score.
RatingsOf(record) ==
  LET said == IF record.database = None THEN <<>>
              ELSE <<Rating(record.id.db, None, None, record.database)>>
      Rate(ratings, s) ==
        Append(ratings, Rating("OSV", s.vector, s.score,
                 CASE s.score # None -> FromScore(s.score)
                   [] s.score = None /\ ratings # <<>> -> ratings[1].severity
                   [] OTHER -> "unknown"))
  IN  FoldLeft(Rate, said, record.scores)

WorstRating(ratings) == Worst({r.severity : r \in Values(ratings)})

\* vulnerability
Vulnerability(record, affects) ==
  [id |-> record.id, aliases |-> record.aliases \ {record.id}, summary |-> record.summary,
   severity |-> WorstRating(RatingsOf(record)), ratings |-> RatingsOf(record),
   cwes |-> record.cwes, references |-> record.references, affects |-> affects,
   analysis |-> None, kev |-> None, epss |-> None]

Names(finding) == {finding.id} \cup finding.aliases

\* A record that could not be had.
Unknown(id) ==
  [id |-> id, aliases |-> {}, database |-> None, scores |-> <<>>, summary |-> None,
   cwes |-> {}, references |-> {}, affected |-> <<>>]

\* run_with: what is made of the answers, purl by purl the ids OSV named, and of
\* the records; the findings are in the order of their ids.
FindingsOf(packages, answers, records) ==
  LET purls == UNION {Queries(p) : p \in packages}
      ids == UNION {answers[q] : q \in purls \cap DOMAIN answers}
      Record(id) == IF id \in DOMAIN records THEN records[id] ELSE Unknown(id)
      Affects(id) ==
        UNION {{[package |-> p.id, purl |-> q,
                 fixed |-> FixedVersion(Record(id), q, p.version)] :
                  q \in {r \in Queries(p) \cap DOMAIN answers : id \in answers[r]}} :
                 p \in packages}
      inOrder == SetToSortSeq(ids, NameBelow)
  IN  [n \in DOMAIN inOrder |-> Vulnerability(Record(inOrder[n]), Affects(inOrder[n]))]

(***************************************************************************)
(* merge_duplicates.  The forest joins the findings; the owner of a name is *)
(* the first finding that has it.                                           *)
(***************************************************************************)
FindRoot(parent, i) ==
  LET up[n \in 0..Len(parent)] == IF n = 0 THEN i ELSE parent[up[n - 1]]
  IN  up[Len(parent)]

Owner(findings, i, name) == Min({j \in 1..i : name \in Names(findings[j])})

\* Mutant: a finding is hung under the owner of its last name.
UniteLast(parent, findings, i) ==
  [parent EXCEPT ![i] = Max({Owner(findings, i, name) : name \in Names(findings[i])})]

\* One finding is joined with the owners of its names, in whatever order these
\* are looked up.
Unite(parent, findings, i) ==
  LET Join(forest, j) ==
        LET a == FindRoot(forest, i)
            b == FindRoot(forest, j)
        IN  IF a = b THEN forest ELSE [forest EXCEPT ![a] = b]
  IN  FoldSet(LAMBDA j, forest : Join(forest, j), parent,
              {Owner(findings, i, name) : name \in Names(findings[i])})

\* The record that says most stands for its group.
Above(a, b) ==
  LET Scored(f) == \E r \in Values(f.ratings) : r.score # None
      Says(f) == (IF Scored(f) THEN 8 ELSE 0) + (IF f.ratings # <<>> THEN 4 ELSE 0)
                   + (IF f.summary # None THEN 2 ELSE 0) + (IF f.id.db = "GHSA" THEN 1 ELSE 0)
  IN  Says(a) > Says(b) \/ (Says(a) = Says(b) /\ NameBelow(a.id, b.id))

NewRatings(kept, others) ==
  FoldLeft(LAMBDA all, r :
             IF \E k \in Values(all) : k.vector = r.vector /\ k.source = r.source
             THEN all ELSE Append(all, r), kept, others)

\* What another record affects: a package is listed once, with a fix if either
\* knows one.
NewAffects(kept, others) ==
  LET Add(affected, all) ==
        LET same == {k \in all : k.package = affected.package}
            first == CHOOSE k \in same : TRUE
        IN  CASE same = {} -> all \cup {affected}
              [] same # {} /\ first.fixed = None ->
                   (all \ {first}) \cup {[first EXCEPT !.fixed = affected.fixed]}
              [] OTHER -> all
  IN  FoldSet(Add, kept, others)

AbsorbFinding(kept, other) ==
  [kept EXCEPT !.aliases = @ \cup Names(other),
               !.ratings = NewRatings(@, other.ratings),
               !.cwes = @ \cup other.cwes,
               !.references = @ \cup other.references,
               !.summary = IF @ = None THEN other.summary ELSE @,
               !.affects = NewAffects(@, other.affects)]

MergeGroup(findings, members) ==
  LET rep == CHOOSE i \in members :
               \A j \in members \ {i} : Above(findings[i], findings[j])
      others == SetToSortSeq(members \ {rep}, LAMBDA i, j : i < j)
      all == FoldLeft(LAMBDA kept, i : AbsorbFinding(kept, findings[i]), findings[rep], others)
  IN  [all EXCEPT !.aliases = @ \ {all.id}, !.severity = WorstRating(all.ratings)]

MergeDuplicates(findings, parent) ==
  LET Members(root) == {i \in DOMAIN findings : FindRoot(parent, i) = root}
  IN  {MergeGroup(findings, Members(root)) : root \in {FindRoot(parent, i) : i \in DOMAIN findings}}
===============================================================================

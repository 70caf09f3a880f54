-------------------------------- MODULE Quality --------------------------------
(***************************************************************************)
(* Under which names others know a package (mapping.rs, cpe.rs), and what a *)
(* document is worth to a reader (quality.rs).                              *)
(*                                                                         *)
(* A package here also has [channel, purlsFromLock, supplier, cpe,          *)
(* interpreter, scorecard, scoredOn, checks]: cpe is one that an input      *)
(* states, and interpreter says that it is the Python of a virtual          *)
(* environment.                                                             *)
(***************************************************************************)
EXTENDS Sboms

CONSTANT CpeTable   \* the names of data/cpe.toml

HasPypi(purls) == \E purl \in purls : purl.type = "pypi"

\* enrich: what the mapping calls a package of conda-forge.
MapNames(mapping, packages) ==
  LET Mapped(p) ==
        /\ p.kind = "conda" /\ ~ p.purlsFromLock /\ p.channel = "conda-forge"
        /\ p.name \in DOMAIN mapping /\ p.version # None
  IN  {IF Mapped(p)
       THEN [p EXCEPT !.extraPurls = @ \cup {PypiPurl(n, p.version) : n \in mapping[p.name]}]
       ELSE p : p \in packages}

\* prefer_pypi_purl: the id stays what it was.
PreferPypiPurl(packages) ==
  {IF p.kind = "pypi" \/ ~ HasPypi(p.extraPurls) THEN p
   ELSE LET pypi == CHOOSE purl \in p.extraPurls : purl.type = "pypi"
        IN  [p EXCEPT !.purl = pypi, !.extraPurls = (@ \ {pypi}) \cup {p.purl}] : p \in packages}

\* hidden_pypi_identities
HiddenPypiIdentities(packages) ==
  {p \in packages : p.kind # "pypi" /\ p.purl.type # "pypi" /\ HasPypi(p.extraPurls)}

\* for_package, interpreter: whether there is a CPE.
HasCpe(p) ==
  \/ p.cpe # None
  \/ p.cpe = None /\ p.interpreter /\ p.version # None
  \/ /\ p.cpe = None /\ ~ p.interpreter
     /\ p.kind = "conda" /\ ~ HasPypi(p.extraPurls) /\ p.name \in CpeTable /\ p.version # None

-------------------------------------------------------------------------------
Percent(have, total) == IF total = 0 THEN 0 ELSE (Cardinality(have) * 100) \div total

\* Those that depend on something, or are depended on.
InGraph(packages) ==
  LET from == {p \in packages : p.deps # {}}
  IN  Ids(from) \cup DependedOn(packages)

Element(name, score, ntia) == [element |-> name, score |-> score, ntia |-> ntia]

\* assess: the nine elements that are scored, and the two that are only shown.
Scored(authors, packages) ==
  LET total == Cardinality(packages)
      Share(name, ntia, have) == Element(name, Percent(have, total), ntia)
  IN  <<Share("supplier", TRUE, {p \in packages : p.supplier # None}),
        Share("name", TRUE, {p \in packages : p.name # None}),
        Share("version", TRUE, {p \in packages : p.version # None}),
        Share("unique identifier", TRUE,
              {p \in packages : p.purl.type # NoType \/ HasCpe(p)}),
        Share("dependency relationships", TRUE,
              {p \in packages : p.id \in InGraph(packages)}),
        Element("author", IF authors = {} THEN 0 ELSE 100, TRUE),
        Element("timestamp", 100, TRUE),
        Share("license", FALSE, {p \in packages : p.license # None}),
        Share("hash", FALSE, {p \in packages : p.hash # None})>>

Native(packages) ==
  {p \in packages : p.kind = "conda"
     /\ \A purl \in p.extraPurls : purl.type \notin {"pypi", "cran"}}
ScannerIdentity(packages) ==
  IF Native(packages) = {} THEN 100
  ELSE Percent({p \in Native(packages) : HasCpe(p)}, Cardinality(Native(packages)))

PypiIdentity(packages) ==
  LET python == {p \in packages : p.kind # "pypi" /\ HasPypi(p.extraPurls \cup {p.purl})}
  IN  IF python = {} THEN 100
      ELSE Percent(python \ HiddenPypiIdentities(packages), Cardinality(python))

Mean(scores) == IF scores = <<>> THEN 0 ELSE FoldLeft(LAMBDA sum, s : sum + s, 0, scores) \div Len(scores)
ScoresOf(elements) == [i \in DOMAIN elements |-> elements[i].score]

Assess(authors, packages) ==
  LET elements == Scored(authors, packages)
  IN  [elements |-> elements, scanner |-> ScannerIdentity(packages), pypi |-> PypiIdentity(packages),
       overall |-> Mean(ScoresOf(elements)),
       ntia |-> Mean(ScoresOf(SelectSeq(elements, LAMBDA e : e.ntia)))]

\* weakest: the least of those that are not whole, in the order of the table.
Weakest(grade, count) ==
  LET weak == {i \in DOMAIN grade.elements : grade.elements[i].score < 100}
      Before(i, j) == \/ grade.elements[i].score < grade.elements[j].score
                      \/ grade.elements[i].score = grade.elements[j].score /\ i < j
      order == SetToSortSeq(weak, Before)
  IN  [n \in 1..Min({count, Len(order)}) |-> grade.elements[order[n]].element]

-------------------------------------------------------------------------------
(***************************************************************************)
(* OpenSSF scorecards (scorecard.rs).  A repository is [host, path], each    *)
(* part of the path a sequence of words that dashes join, and a card is     *)
(* [score, date, checks], checks a function from names to scores, None      *)
(* where there is no data.  Scores and limits are in hundredths, and in     *)
(* tenths in a document.  Bound: no score is halfway between two tenths.    *)
(***************************************************************************)
\* project
ProjectOf(repository) ==
  IF repository # None /\ repository.host \in {"github.com", "gitlab.com"} /\ Len(repository.path) >= 2
  THEN <<repository.host, repository.path[1], repository.path[2]>> ELSE None

\* The cache file of a project.
CardFile(project) == <<project[1]>> \o project[2] \o project[3]

Tenths(score) == (score + 5) \div 10

\* Scorecard::below
FailingChecks(card, least) ==
  {c \in DOMAIN card.checks : card.checks[c] # None /\ card.checks[c] < least}

\* scorecard: what each package that has a project may get, which is a card of a
\* project with the same file where the file is that one's, None if it fails.
CardsGot(packages, cards) ==
  LET asked == {p \in packages : ProjectOf(p.repository) # None}
      Beside(p) == {q \in DOMAIN cards : CardFile(q) = CardFile(ProjectOf(p.repository))}
  IN  {got \in [asked -> Range(cards) \cup {None}] :
         \A p \in asked : got[p] # None => \E q \in Beside(p) : got[p] = cards[q]}

\* run_with: a package whose card cannot be had stays as it was.
ApplyCards(packages, got, least) ==
  LET WithCard(p) ==
        [p EXCEPT !.scorecard = Tenths(got[p].score),
                  !.scoredOn = IF got[p].date # None THEN got[p].date ELSE @,
                  !.checks = {[name |-> c, score |-> Tenths(got[p].checks[c])] : c \in FailingChecks(got[p], least)}]
  IN  {IF p \in DOMAIN got /\ got[p] # None THEN WithCard(p) ELSE p : p \in packages}

\* below
Below(packages, least) ==
  {[name |-> p.name, score |-> p.scorecard] :
     p \in {q \in packages : q.scorecard # None /\ 10 * q.scorecard < least}}

\* Report::scorecard
Band(score) ==
  CASE score < 30 -> "0-3" [] score \in 30..49 -> "3-5" [] score \in 50..69 -> "5-7"
    [] score \in 70..89 -> "7-9" [] OTHER -> "9-10"
ScorecardReport(packages, least) ==
  LET scored == {p \in packages : p.scorecard # None}
      In(band) == {p \in scored : Band(p.scorecard) = band}
  IN  [rows |-> {[id |-> p.id, score |-> p.scorecard, date |-> p.scoredOn, repository |-> p.repository,
                  failing |-> p.checks] : p \in packages},
       scored |-> Cardinality(scored), unknown |-> Cardinality(packages \ scored),
       bands |-> [b \in {Band(p.scorecard) : p \in scored} |-> Cardinality(In(b))],
       below |-> Below(packages, least)]
===============================================================================

------------------------------- MODULE Explained -------------------------------
(***************************************************************************)
(* `--report explain` (explain.rs): what is known of a package, from where, *)
(* and what was considered where nothing is.  ctx says what the run was     *)
(* asked for: [manifest, fetchLicenses, embeddedSboms, scorecard,           *)
(* vulnerabilities, pypiMapping, offline].                                  *)
(*                                                                         *)
(* A fact is [value, source, considered], each consideration a claim on a   *)
(* source, [source, says].  A package has, beyond what Quality and Metadata *)
(* add, [location, md5, requested, evidence, mappedBy, cranBy, distInfo,    *)
(* requiresPython, embeddedFrom, cargoSource, reason, scoredOn, others],    *)
(* others being the properties with no row of their own.                    *)
(***************************************************************************)
EXTENDS Metadata, Quality, Advisories

Explainable(p) ==
  p ++ [channel |-> None, purlsFromLock |-> FALSE, supplier |-> None, cpe |-> None,
        interpreter |-> FALSE, scorecard |-> None, location |-> None, md5 |-> None,
        requested |-> FALSE, evidence |-> None, mappedBy |-> None, cranBy |-> None,
        distInfo |-> None, requiresPython |-> None, embeddedFrom |-> None, cargoSource |-> None,
        reason |-> None, scoredOn |-> None, others |-> <<>>]

KnownFact(value, source) == [value |-> value, source |-> source, considered |-> {}]
UnknownFact(considered) == [value |-> None, source |-> None, considered |-> considered]
Claim(source, says) == [source |-> source, says |-> says]

\* A row that only shows what the input says, or that it says nothing.
Shown(value) ==
  IF value = None THEN UnknownFact({Claim("input", "none")}) ELSE KnownFact(value, "input")

ShownAll(values) ==
  IF values = {} THEN UnknownFact({Claim("input", "none")}) ELSE KnownFact(values, "input")

ObtainedFrom(p) == Shown(p.supplier)
RequiresPython(p) == Shown(p.requiresPython)
OtherProperties(p) == [label \in DOMAIN p.others |-> KnownFact(p.others[label], "input")]

Extras(p) ==
  (IF p.extras = {} THEN <<>>
   ELSE [extras |-> KnownFact(p.extras, IF p.evidence # None THEN "inferred" ELSE "input")])
    ++ (IF p.via = {} THEN <<>> ELSE [broughtInBy |-> KnownFact(p.via, "input")])

Declaration(p, ctx) ==
  CASE p.requested -> KnownFact("requested", "install records")
    [] ~ p.requested /\ p.declaredIn # {} -> KnownFact(p.declaredIn, "manifest")
    [] OTHER -> UnknownFact({Claim("manifest", IF ctx.manifest THEN "not declared" ELSE "none read")})

Checksums(p) == {h \in {p.hash, p.md5} : h # None}

(***************************************************************************)
(* Licenses and license files.                                              *)
(***************************************************************************)
\* license_sources, but for the one that supplied it.
LicenseSources(p, ctx, supplied) ==
  LET Unread(network) == CASE ~ ctx.fetchLicenses -> "not read"
                           [] ctx.fetchLicenses /\ ctx.offline /\ network -> "nothing cached"
                           [] OTHER -> "nothing"
      conda == p.kind \in {"conda", "conda-source"}
      all == {Claim("lockfile", "declares none"),
              Claim("package-cache", IF conda THEN Unread(FALSE) ELSE "conda only")}
               \cup (IF conda THEN {Claim("conda-archive", Unread(TRUE))} ELSE {})
               \cup (IF p.kind = "pypi" THEN {Claim("wheel", Unread(TRUE)), Claim("pypi", Unread(TRUE))}
                     ELSE {Claim("pypi", "not PyPI")})
  IN  {c \in all : c.source # supplied}

SourceOrInput(source) == IF source \in {None, "lockfile"} THEN "input" ELSE source

\* Mutant: what a package has is from the input.
LicenseFactOfInput(p, ctx) ==
  IF p.license = None THEN UnknownFact(LicenseSources(p, ctx, None)) ELSE KnownFact(p.license, "input")

\* license: a license nobody claims to have supplied is the input's.
LicenseFact(p, ctx) ==
  LET supplied == IF p.licenseFrom = None /\ p.license # None THEN "lockfile" ELSE p.licenseFrom
      considered == LicenseSources(p, ctx, supplied)
  IN  IF p.license = None THEN UnknownFact(considered)
      ELSE [KnownFact(p.license, SourceOrInput(supplied)) EXCEPT !.considered = considered]

LicenseFilesFact(p, ctx) ==
  LET supplied == IF p.filesFrom = None THEN "lockfile" ELSE p.filesFrom
  IN  IF p.files = {} THEN UnknownFact(LicenseSources(p, ctx, p.filesFrom))
      ELSE [KnownFact(p.files, SourceOrInput(p.filesFrom)) EXCEPT
              !.considered = LicenseSources(p, ctx, supplied)]

(***************************************************************************)
(* Names.                                                                   *)
(***************************************************************************)
\* pypi_identity
OtherPurls(p, ctx) ==
  LET mapping == CASE p.kind = "pypi" -> "not asked"
                   [] p.kind # "pypi" /\ ctx.pypiMapping -> "has none"
                   [] OTHER -> "not read"
      source == CASE p.mappedBy = "dist-info" -> Claim("dist-info", p.distInfo)
                  [] p.mappedBy \notin {None, "dist-info"} -> Claim("mapping", p.mappedBy)
                  [] p.mappedBy = None /\ p.cranBy # None -> Claim("cran", p.cranBy)
                  [] OTHER -> Claim("input", None)
  IN  IF p.extraPurls = {}
      THEN UnknownFact({Claim("input", IF p.purlsFromLock THEN "lists no other" ELSE "none"),
                    Claim("mapping", mapping)})
      ELSE KnownFact(p.extraPurls, source)

\* cpe: only for an interpreter and for conda packages is there a row.
CpeFact(p) ==
  LET fact == CASE p.interpreter /\ HasCpe(p) -> KnownFact("cpe", "table: interpreter")
                [] p.interpreter /\ ~ HasCpe(p) -> UnknownFact({Claim("table", "version is not full")})
                [] ~ p.interpreter /\ HasCpe(p) -> KnownFact("cpe", "table")
                [] ~ p.interpreter /\ ~ HasCpe(p) /\ p.name \in CpeTable ->
                     UnknownFact({Claim("table", "no version")})
                [] OTHER -> UnknownFact({Claim("table", "no entry")})
  IN  IF p.interpreter \/ p.kind = "conda" THEN [cpe |-> fact] ELSE <<>>

\* for_package gives what a document states, and the row takes it for the table's:
\* explaining a package of a document that the table does not have ends the run.
NotOfTheTable(p) ==
  ~ p.interpreter /\ p.kind = "conda" /\ HasCpe(p) /\ p.name \notin CpeTable

(***************************************************************************)
(* What was looked up.                                                      *)
(***************************************************************************)
EmbeddedFact(p, ctx) ==
  IF p.embeddedFrom # None
  THEN KnownFact([of |-> p.embeddedFrom, crate |-> p.cargoSource], "input")
  ELSE UnknownFact({Claim("wheel", IF ctx.embeddedSboms THEN "declares none" ELSE "not read")})

YankedFact(p, ctx) ==
  CASE p.yanked -> KnownFact([yanked |-> TRUE, reason |-> p.reason], "pypi")
    [] ~ p.yanked /\ p.kind # "pypi" -> UnknownFact({Claim("pypi", "not PyPI")})
    [] ~ p.yanked /\ p.kind = "pypi" /\ ctx.fetchLicenses ->
         KnownFact([yanked |-> FALSE, reason |-> None], "pypi")
    [] OTHER -> UnknownFact({Claim("pypi", "not asked")})

RepositoryFact(p, ctx) ==
  CASE p.repository # None ->
         [repository |-> KnownFact(p.repository, IF p.repositoryFrom = None THEN "input" ELSE p.repositoryFrom)]
    [] p.repository = None /\ ctx.fetchLicenses /\ p.kind = "pypi" ->
         [repository |-> UnknownFact({Claim("wheel", "names none"), Claim("pypi", "names none")})]
    [] OTHER -> <<>>

ScorecardFact(p, ctx) ==
  IF p.scorecard # None THEN KnownFact([score |-> p.scorecard, on |-> p.scoredOn], "scorecard")
  ELSE UnknownFact({Claim("scorecard", CASE ~ ctx.scorecard -> "not given"
                                     [] ctx.scorecard /\ p.repository = None -> "no repository"
                                     [] OTHER -> "never scored")})

\* vulnerabilities: a finding, and who decided what of it.
VulnerabilitiesFact(p, findings, ctx) ==
  LET here == {f \in findings : \E a \in f.affects : a.package = p.id}
      Decision(f) == IF f.analysis = None THEN None
                     ELSE [state |-> f.analysis.state,
                           by |-> IF f.analysis.source = None THEN "--ignore-vuln" ELSE f.analysis.source]
  IN  CASE ~ ctx.vulnerabilities -> UnknownFact({Claim("OSV", "not queried")})
        [] ctx.vulnerabilities /\ here # {} ->
             KnownFact({[id |-> f.id, decision |-> Decision(f)] : f \in here}, "OSV")
        [] OTHER -> UnknownFact({Claim("OSV", IF Queries(p) # {} THEN "no advisory" ELSE "no purl")})

\* edges: what a package needs is in the document.
NamesOf(packages, ids) == {p.name : p \in {q \in packages : q.id \in ids}}
Needing(packages, p) == {q.name : q \in {o \in packages : p.id \in o.deps}}

\* facts, by their labels.
FactsOf(p, packages, findings, ctx) ==
  [identity |-> KnownFact(p.purl, "input"),
   kind |-> KnownFact(p.kind, "input"),
   version |-> Shown(p.version),
   declared |-> Declaration(p, ctx),
   obtainedFrom |-> ObtainedFrom(p),
   location |-> Shown(p.location),
   checksum |-> ShownAll(Checksums(p)),
   license |-> LicenseFact(p, ctx),
   licenseFiles |-> LicenseFilesFact(p, ctx),
   otherPurls |-> OtherPurls(p, ctx),
   requiresPython |-> RequiresPython(p),
   embeddedSbom |-> EmbeddedFact(p, ctx),
   yanked |-> YankedFact(p, ctx),
   scorecard |-> ScorecardFact(p, ctx),
   vulnerabilities |-> VulnerabilitiesFact(p, findings, ctx),
   dependsOn |-> ShownAll(NamesOf(packages, p.deps)),
   neededBy |-> ShownAll(Needing(packages, p))]
    ++ Extras(p) ++ CpeFact(p) ++ RepositoryFact(p, ctx) ++ OtherProperties(p)

\* matching, and the report: the rows of each package that a pattern names; none
\* where the run ends over one of them.
Explain(packages, findings, patterns, ctx) ==
  LET matched == {p \in packages : p.name \in patterns}
      rows == [p \in matched |-> FactsOf(p, packages, findings, ctx)]
      Lacking(p) == {label \in DOMAIN rows[p] : rows[p][label].value = None}
  IN  IF \E p \in matched : NotOfTheTable(p) THEN [rows |-> <<>>, summary |-> None]
      ELSE [rows |-> rows,
            summary |-> [matched |-> Cardinality(matched),
                         facts |-> MapThenSumSet(LAMBDA p : Cardinality(DOMAIN rows[p]), matched),
                         unknown |-> MapThenSumSet(LAMBDA p : Cardinality(Lacking(p)), matched)]]
===============================================================================

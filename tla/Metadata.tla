------------------------------- MODULE Metadata -------------------------------
(***************************************************************************)
(* What a wheel (wheel.rs), a conda package (pkgcache.rs) and the JSON of   *)
(* PyPI (pypi.rs) say of a package, how a package takes it on, and what one *)
(* lookup for several documents is (batch.rs).                              *)
(*                                                                         *)
(* A license is [form, of]: "spdx", "text", or "long" for one that is no    *)
(* name but a text of many lines.  A package here also has [licenseFrom,    *)
(* files, filesFrom, description, homepage, documentation, repositoryFrom,  *)
(* family], files being the license files it has.                           *)
(***************************************************************************)
EXTENDS Sboms

CONSTANTS
  ClassifierTable,   \* the SPDX ids of trove classifiers
  HostedProjects     \* URLs of repositories that a scorecard may be asked for

\* The fields of one record over those of another.
upper ++ lower ==
  [f \in DOMAIN upper \cup DOMAIN lower |-> IF f \in DOMAIN upper THEN upper[f] ELSE lower[f]]

\* As a reader leaves it: nothing was looked up.
Bare(p) ==
  p ++ [licenseFrom |-> None, files |-> {}, filesFrom |-> None, description |-> None,
        homepage |-> None, documentation |-> None, repositoryFrom |-> None, family |-> None]

\* short, clean: a field that holds the text of a license names none.
Clean(license) == IF license # None /\ license.form = "long" THEN None ELSE license
FirstOf(s) == FirstWith(s, LAMBDA x : x # None)

(***************************************************************************)
(* The JSON of a release: [expression, license, classifiers, urls, home,    *)
(* yanked], the classifiers without what is no license, urls the links by   *)
(* their labels, in order, each [label, url].                               *)
(***************************************************************************)
\* classifier_to_spdx
ClassifierId(c) == IF c \in DOMAIN ClassifierTable THEN ClassifierTable[c] ELSE None

\* Several are alternatives if each has an id; else the first one stands.
ClassifiersLicense(cs) ==
  LET ids == [i \in DOMAIN cs |-> ClassifierId(cs[i])]
      Joined == FoldLeft(LAMBDA all, id : all \o " OR " \o id, Head(ids), Tail(ids))
  IN  CASE cs = <<>> -> None
        [] cs # <<>> /\ None \notin Values(ids) -> [form |-> "spdx", of |-> Joined]
        [] OTHER -> [form |-> "text", of |-> cs[1]]

\* license_from_metadata
IndexLicense(json) ==
  FirstOf(<<Clean(json.expression), Clean(json.license), ClassifiersLicense(json.classifiers)>>)

UrlOf(link) == IF link = None THEN None ELSE link.url

\* A link under one of the labels, the labels in the order they are wanted in.
Labelled(urls, wanted) ==
  UrlOf(FirstOf([i \in DOMAIN wanted |-> FirstWith(urls, LAMBDA u : u.label = wanted[i])]))

\* repository_from_metadata: else whatever link leads to a repository.
IndexRepository(json) ==
  FirstOf(<<Labelled(json.urls, <<"source", "source code", "repository", "code", "github">>),
            FirstWith(Append([i \in DOMAIN json.urls |-> json.urls[i].url], json.home),
                      LAMBDA url : url \in HostedProjects)>>)

\* run_with, what is made of an answer.
ApplyIndex(p, json) ==
  LET license == IndexLicense(json)
      repository == IndexRepository(json)
      learnsLicense == p.license = None /\ license # None
      learnsRepository == p.repository = None /\ repository # None
  IN  [p EXCEPT !.yanked = @ \/ json.yanked,
                !.repository = IF learnsRepository THEN repository ELSE @,
                !.repositoryFrom = IF learnsRepository THEN "pypi" ELSE @,
                !.license = IF learnsLicense THEN license ELSE @,
                !.licenseFrom = IF learnsLicense THEN "pypi" ELSE @]

(***************************************************************************)
(* The headers of a wheel's METADATA, [expression, license, summary, home,  *)
(* urls], and the license files in its dist-info.                           *)
(***************************************************************************)
\* project_url: the first link of those under one of the labels.
ProjectUrl(urls, labels) == UrlOf(FirstWith(urls, LAMBDA u : u.label \in labels))

\* info_from_metadata
WheelInfo(headers, files) ==
  [license |-> FirstOf(<<Clean(headers.expression), Clean(headers.license)>>),
   description |-> headers.summary,
   homepage |-> FirstOf(<<headers.home, ProjectUrl(headers.urls, {"homepage", "home"})>>),
   documentation |-> ProjectUrl(headers.urls, {"documentation", "docs"}),
   repository |-> ProjectUrl(headers.urls, {"source", "source code", "repository", "code"}),
   files |-> files]

\* Mutant: what a source says replaces what the package has.
TakeOnAnyway(p, info, source) ==
  LET Or(own, other) == IF other = None THEN own ELSE other
  IN  [p EXCEPT !.license = Or(@, info.license),
                !.licenseFrom = IF info.license # None THEN source ELSE @,
                !.files = IF info.files # {} THEN info.files ELSE @,
                !.filesFrom = IF info.files # {} THEN source ELSE @]

\* What a wheel and a conda package have in common: a license, files and the rest,
\* each only where the package has none.
TakeOn(p, info, source) ==
  LET learnsLicense == p.license = None /\ info.license # None
      learnsFiles == p.files = {} /\ info.files # {}
      Or(own, other) == IF own = None THEN other ELSE own
  IN  [p EXCEPT !.license = Or(@, info.license),
                !.licenseFrom = IF learnsLicense THEN source ELSE @,
                !.description = Or(@, info.description),
                !.homepage = Or(@, info.homepage),
                !.documentation = Or(@, info.documentation),
                !.repository = Or(@, info.repository),
                !.files = IF learnsFiles THEN info.files ELSE @,
                !.filesFrom = IF learnsFiles THEN source ELSE @]

\* apply of wheel.rs
ApplyWheel(p, info) ==
  [TakeOn(p, info, "wheel") EXCEPT
     !.repositoryFrom = IF p.repository = None /\ info.repository # None THEN "wheel" ELSE @]

\* apply of pkgcache.rs, of [license, family, description, homepage, documentation,
\* repository, files]: where the repository is from is not said.
ApplyConda(p, info, source) ==
  [TakeOn(p, info, source) EXCEPT !.family = IF @ = None THEN info.family ELSE @]

(***************************************************************************)
(* One lookup for several documents.                                        *)
(***************************************************************************)
LearnedFields ==
  {"license", "licenseFrom", "files", "filesFrom", "description", "homepage", "documentation",
   "repository", "repositoryFrom", "yanked", "extraPurls", "family"}

\* Learned::between: what a lookup changed.
Between(before, after) == [f \in {g \in LearnedFields : before[g] # after[g]} |-> after[f]]

\* Learned::apply: it is set, whatever the package has of its own.
Learn(p, learned) == learned ++ p

\* union: the first document's package of an id stands for all, without its edges.
Union(documents) ==
  LET Firsts(i) == {p \in documents[i].packages :
                      \A j \in 1..(i - 1) : p.id \notin Ids(documents[j].packages)}
      all == UNION {Firsts(i) : i \in DOMAIN documents}
  IN  [documents[1] EXCEPT !.packages = {[p EXCEPT !.deps = {}] : p \in all}, !.incomplete = {}]

ById(packages, id) == CHOOSE p \in packages : p.id = id

\* Shared::between
SharedBetween(before, after) ==
  LET Change(id) == Between(ById(before.packages, id), ById(after.packages, id))
      changed == {id \in Ids(after.packages) : Change(id) # <<>>}
  IN  [learned |-> [id \in changed |-> Change(id)], incomplete |-> after.incomplete]

\* Mutant: what could not be looked up for all is not said of each.
ApplySharedQuietly(shared, sbom) ==
  [sbom EXCEPT !.packages =
     {IF p.id \in DOMAIN shared.learned THEN Learn(p, shared.learned[p.id]) ELSE p : p \in @}]

\* Shared::apply: each document is told what it learned and what was not learned.
ApplyShared(shared, sbom) ==
  [sbom EXCEPT
     !.packages = {IF p.id \in DOMAIN shared.learned THEN Learn(p, shared.learned[p.id]) ELSE p : p \in @},
     !.incomplete = @ \cup {[n EXCEPT !.shared = TRUE] : n \in shared.incomplete}]
===============================================================================

------------------------------- MODULE Formats -------------------------------
(***************************************************************************)
(* Documents on disk: written as CycloneDX, SPDX 2.3, SPDX 3.0 or a GitHub  *)
(* dependency snapshot (format/), and read back (embedded.rs, fromsbom.rs,  *)
(* diff.rs).  A document is                                                 *)
(*   [format, root, environment, platform, notes, components, edges];       *)
(* a component has a reference and the facts of a package, an edge is       *)
(* [from, kind, to] between references, from None where it leaves the root. *)
(* A license is [form, of]: "spdx", an expression; "text", any other; "ref",*)
(* the name SPDX 2.3 gives a text it lists elsewhere.                       *)
(***************************************************************************)
EXTENDS Sboms

CONSTANT
  Fragments  \* the parts of a name with hyphens, or with what SPDX makes one of

\* What is not about one package: metadata properties; root_comment.
Notes(sbom) ==
  [excluded |-> sbom.excluded, interpreter |-> sbom.interpreter,
   incomplete |-> sbom.incomplete]

\* The properties of a package that are its own.
Facts(p) ==
  [name |-> p.name, version |-> p.version, purl |-> p.purl, license |-> p.license,
   hash |-> p.hash, direct |-> p.direct, declaredIn |-> p.declaredIn, extras |-> p.extras,
   via |-> p.via, inputs |-> p.inputs, conflict |-> p.conflict, installer |-> p.installer]

\* component of cyclonedx.rs: the reference is the id, and the scope is stated.
CycloneDXComponent(p, scopes) ==
  [ref |-> p.id, kind |-> p.kind, vendored |-> p.vendored, facts |-> Facts(p),
   scope |-> IF p.id \notin DOMAIN scopes THEN None
             ELSE IF scopes[p.id] = "required" THEN "required" ELSE "optional"]

\* document of cyclonedx.rs
WriteCycloneDX(sbom) ==
  [format |-> "cyclonedx", root |-> sbom.root, environment |-> sbom.environment,
   platform |-> sbom.platform, notes |-> Notes(sbom),
   components |-> {CycloneDXComponent(p, sbom.scopes) : p \in sbom.packages},
   edges |-> [from : {None}, kind : {"depends on"}, to : TopLevel(sbom)]
               \cup UNION {[from : {p.id}, kind : {"depends on"}, to : p.deps] :
                             p \in sbom.packages}]

\* An SPDX identifier is the sequence of its parts, which hyphens join, so that names
\* and versions that differ may give the same one.  id_fragment: one part of a
\* name may be empty, and other characters than hyphens separate them.
FragmentsOf(text) == IF text \in DOMAIN Fragments THEN Fragments[text] ELSE <<text>>

IdBase(p) ==
  FragmentsOf(p.kind) \o FragmentsOf(p.name)
    \o (IF p.version = None THEN <<>> ELSE FragmentsOf(ToString(p.version)))

Numbered(base, n) == IF n = 1 THEN base ELSE Append(base, ToString(n))

\* The id of the document's own package.
RootId == <<"root">>

\* Packages of one id share the last one's identifier.
OfLast(ids, s) ==
  [id \in {p.id : p \in ToSet(s)} |->
     ids[LastWith([i \in DOMAIN s |-> i], LAMBDA i : s[i].id = id)]]

\* Mutant: identifiers are numbered among those made of the same parts.
SpdxIdsCounted(packages) ==
  LET s == SetToSeq(packages)
  IN  OfLast([i \in DOMAIN s |->
                Numbered(IdBase(s[i]), Cardinality({j \in 1..i : IdBase(s[j]) = IdBase(s[i])}))], s)

\* assign_ids: a package gets the first identifier, numbered from two on, that is
\* not taken by one before it.
SpdxIds(packages) ==
  LET s == SetToSeq(packages)
      First(base, taken) ==
        Numbered(base, CHOOSE n \in 1..Len(s) + 1 :
                         /\ Numbered(base, n) \notin taken
                         /\ \A m \in 1..n - 1 : Numbered(base, m) \in taken)
      assigned[n \in 0..Len(s)] ==
        IF n = 0 THEN <<RootId>>
        ELSE Append(assigned[n - 1], First(IdBase(s[n]), ToSet(assigned[n - 1])))
  IN  OfLast(Tail(assigned[Len(s)]), s)

\* license_declared: a text becomes a reference to a list the document ends with.
DeclaredLicense(license) ==
  IF license # None /\ license.form = "text" THEN [license EXCEPT !.form = "ref"] ELSE license

\* spdx_package
SpdxComponent(p, ref) ==
  [ref |-> ref, kind |-> p.kind, vendored |-> p.vendored, scope |-> None,
   facts |-> [Facts(p) EXCEPT !.license = DeclaredLicense(@)]]

\* An edge of document of spdx.rs: one that leads into a scope is written from
\* the side of the dependency.
SpdxEdge(scopes, ids, from, to) ==
  LET ref == IF from = None THEN None ELSE ids[from]
  IN  CASE Crossing(scopes, from, to) = "development" ->
             [from |-> ids[to], kind |-> "dev dependency of", to |-> ref]
        [] Crossing(scopes, from, to) = "optional" ->
             [from |-> ids[to], kind |-> "optional dependency of", to |-> ref]
        [] OTHER -> [from |-> ref, kind |-> "depends on", to |-> ids[to]]

\* document of spdx.rs
WriteSpdx2(sbom) ==
  LET ids == SpdxIds(sbom.packages)
  IN  [format |-> "spdx2", root |-> sbom.root, environment |-> sbom.environment,
       platform |-> sbom.platform, notes |-> Notes(sbom),
       components |-> {SpdxComponent(p, ids[p.id]) : p \in sbom.packages},
       edges |-> {SpdxEdge(sbom.scopes, ids, None, id) : id \in TopLevel(sbom)}
                   \cup UNION {{SpdxEdge(sbom.scopes, ids, p.id, d) : d \in p.deps} :
                                 p \in sbom.packages}]

\* document of spdx3.rs: a scope is stated on the edge, but only development.
WriteSpdx3(sbom) ==
  LET ids == SpdxIds(sbom.packages)
      Edge(from, to) ==
        [from |-> IF from = None THEN None ELSE ids[from], to |-> ids[to],
         kind |-> IF Crossing(sbom.scopes, from, to) = "development"
                  THEN "depends on, for development" ELSE "depends on"]
  IN  [format |-> "spdx3", root |-> sbom.root, environment |-> sbom.environment,
       platform |-> sbom.platform, notes |-> Notes(sbom),
       components |-> {[SpdxComponent(p, ids[p.id]) EXCEPT !.facts = Facts(p)] :
                         p \in sbom.packages},
       edges |-> {Edge(None, id) : id \in TopLevel(sbom)}
                   \cup UNION {{Edge(p.id, d) : d \in p.deps} : p \in sbom.packages}]

\* submitted_purl and key: PyPI's purl if there is one, without qualifiers.
SnapshotKey(p) ==
  LET pypi == {u \in {p.purl} \cup p.extraPurls : u.type = "pypi"}
  IN  [(IF p.purl.type = "pypi" \/ pypi = {} THEN p.purl ELSE CHOOSE u \in pypi : TRUE)
         EXCEPT !.rest = None, !.copy = <<>>]

\* document of github.rs: the first package of a key stands for all of them.
WriteGithub(sbom) ==
  LET s == SetToSeq(sbom.packages)
      Of(key) == FirstWith(s, LAMBDA p : SnapshotKey(p) = key)
      KeyOf(id) == SnapshotKey(CHOOSE p \in sbom.packages : p.id = id)
      keys == {SnapshotKey(p) : p \in sbom.packages}
  IN  [format |-> "github", root |-> sbom.root, environment |-> sbom.environment,
       platform |-> sbom.platform, notes |-> None,
       components |-> {[ref |-> k, direct |-> Of(k).id \in TopLevel(sbom),
                        development |-> /\ Of(k).id \in DOMAIN sbom.scopes
                                        /\ sbom.scopes[Of(k).id] = "development"] : k \in keys},
       edges |-> UNION {[from : {k}, kind : {"depends on"},
                         to : {KeyOf(d) : d \in Of(k).deps \cap Ids(sbom.packages)}] : k \in keys}]

\* write
Write(format, sbom) ==
  CASE format = "cyclonedx" -> WriteCycloneDX(sbom)
    [] format = "spdx2" -> WriteSpdx2(sbom)
    [] format = "spdx3" -> WriteSpdx3(sbom)
    [] format = "github" -> WriteGithub(sbom)

(***************************************************************************)
(* Reading.                                                                 *)
(***************************************************************************)
\* parse_cyclonedx and parse_spdx: the edges a reader knows the kind of.
EdgesRead(document) == {e \in document.edges : e.kind = "depends on" /\ e.from # None}

\* kind_of
KindOf(purl) == CASE purl.type = "conda" -> "conda"
                  [] purl.type = "pypi" -> "pypi"
                  [] OTHER -> "external"

\* id_of
IdentityOf(component) ==
  LET f == component.facts
  IN  IF f.purl = None THEN StandIn(f.name, f.version) ELSE [f.purl EXCEPT !.copy = <<>>]

\* A package of packages_of: its id is its purl, whatever its reference was.
Restored(component, deps) ==
  LET f == component.facts
      id == IdentityOf(component)
      p == Package(KindOf(id), f.name, f.version, id)
  IN  [p EXCEPT !.deps = deps, !.license = f.license, !.hash = f.hash, !.direct = f.direct,
                !.declaredIn = f.declaredIn, !.extras = f.extras, !.via = f.via,
                !.inputs = f.inputs, !.conflict = f.conflict, !.installer = f.installer]

\* parse_spdx3: what is read of a package of SPDX 3.0.
Spdx3Restored(component) ==
  LET f == component.facts
  IN  [Package(KindOf(f.purl), f.name, f.version, [f.purl EXCEPT !.copy = <<>>])
         EXCEPT !.license = f.license]

\* root_of: what is asked for comes before what the document states.
RootOf(document, root) ==
  [name |-> IF root.name = None THEN document.root.name ELSE root.name,
   version |-> IF root.version = None THEN document.root.version ELSE root.version]

\* read of fromsbom.rs: neither scopes nor which roots were declared, nor what is
\* excluded or incomplete, is taken over.
ReadDocument(document, root, platform) ==
  LET IdOf(ref) == IdentityOf(CHOOSE c \in document.components : c.ref = ref)
      refs == {c.ref : c \in document.components}
      DepsOf(c) == {IdOf(e.to) : e \in {f \in EdgesRead(document) : f.from = c.ref /\ f.to \in refs}}
  IN  IF document.format = "github" THEN Failed("parse")
      ELSE [Empty EXCEPT
              !.root = RootOf(document, root), !.environment = document.environment,
              !.platform = IF platform = None THEN document.platform ELSE platform,
              !.packages = IF document.format = "spdx3"
                           THEN {Spdx3Restored(c) : c \in document.components}
                           ELSE {Restored(c, DepsOf(c)) : c \in document.components}]

\* parse_previous: the entries of a document that is compared with.  What
\* is_vendored tells by its reference, which SPDX 3.0 does not show, is left out.
PreviousEntries(document) ==
  LET Own(c) == CASE document.format = "cyclonedx" -> ~ c.vendored
                  [] document.format = "spdx2" -> c.kind # "embedded" \/ c.facts.purl.type # "pypi"
                  [] OTHER -> TRUE
  IN  {[type |-> c.facts.purl.type, name |-> c.facts.name, version |-> c.facts.version,
        license |-> c.facts.license, pip |-> FALSE,
        build |-> IF c.facts.purl.type = "conda" THEN c.facts.purl.rest.build ELSE None] :
          c \in {d \in document.components : Own(d)}}
===============================================================================

------------------------------ MODULE Manifests ------------------------------
(***************************************************************************)
(* The manifests beside a lock (manifest.rs): what the user declared, and   *)
(* what it makes of a document.  The files read are                         *)
(*   pixi         [name, version, declared, environments], with every table *)
(*                of dependencies, those of targets too, in declared;       *)
(*   pyproject    [name, version, pixi, groups, tools, needs, optional]:    *)
(*                groups by name, [requirements, includes]; tools are what  *)
(*                the tables of uv, PDM and Poetry declare;                 *)
(*   environment  [name, declared], of environment.yml;                     *)
(* None where a file is missing or does not parse.  A declaration is        *)
(* [name, pypi, feature, extras].                                           *)
(***************************************************************************)
EXTENDS Sboms

NoManifest ==
  [name |-> None, version |-> None, declared |-> {}, environments |-> <<>>,
   everyFeature |-> FALSE, extras |-> {}]

Or(a, b) == IF a = None THEN b ELSE a

\* declared_requirement
Requirement(r, feature) ==
  [name |-> r.name, pypi |-> TRUE, feature |-> feature, extras |-> r.extras]

\* manifest_from_pixi
FromPixi(file) ==
  [NoManifest EXCEPT !.name = file.name, !.version = file.version,
                     !.declared = file.declared, !.environments = file.environments]

\* expand_group: the requirements of a group and of the groups it includes,
\* which may include one another.
ExpandGroup(groups, group) ==
  LET includes == UNION {{g} \X groups[g].includes : g \in DOMAIN groups}
  IN  UNION {groups[g].requirements : g \in Reached({group}, includes) \cap DOMAIN groups}

\* read_pyproject: what is not under [tool.pixi] is declared for every
\* environment, and an extra of the project is optional only then.
FromPyproject(file) ==
  LET base == IF file.pixi = None THEN [NoManifest EXCEPT !.everyFeature = TRUE]
              ELSE FromPixi(file.pixi)
      groups == UNION {{Requirement(r, g) : r \in ExpandGroup(file.groups, g)} :
                         g \in DOMAIN file.groups}
      extras == UNION {{Requirement(r, x) : r \in file.optional[x]} : x \in DOMAIN file.optional}
  IN  [base EXCEPT
         !.name = Or(@, file.name), !.version = Or(@, file.version),
         !.declared = @ \cup groups \cup file.tools \cup extras
                        \cup {Requirement(r, "default") : r \in file.needs},
         !.extras = IF base.everyFeature THEN DOMAIN file.optional ELSE {}]

\* read: pixi.toml, then pyproject.toml unless the first has a name, then
\* environment.yml if nothing is declared, then the directory's name.
ReadManifest(files, directory) ==
  LET pixi == IF files.pixi = None THEN NoManifest ELSE FromPixi(files.pixi)
      python == IF files.pyproject = None THEN NoManifest ELSE FromPyproject(files.pyproject)
      both == IF pixi.name # None THEN pixi
              ELSE [python EXCEPT
                      !.declared = IF pixi.declared = {} THEN @ ELSE pixi.declared,
                      !.environments = IF DOMAIN pixi.environments = {} THEN @
                                       ELSE pixi.environments]
      named == IF both.declared # {} \/ files.environment = None THEN both
               ELSE [both EXCEPT !.name = Or(@, files.environment.name),
                                 !.declared = files.environment.declared,
                                 !.everyFeature = TRUE]
  IN  [named EXCEPT !.name = Or(@, directory)]

\* features_of, and the rule of its callers.
FeaturesOf(manifest, environment) ==
  IF manifest.everyFeature THEN {d.feature : d \in manifest.declared}
  ELSE IF environment \notin DOMAIN manifest.environments THEN {"default"}
  ELSE LET e == manifest.environments[environment]
       IN  e.features \cup (IF e.noDefault THEN {} ELSE {"default"})

DeclaredFor(manifest, environment) ==
  {d \in manifest.declared : d.feature \in FeaturesOf(manifest, environment)}

\* requested_extras: pairs of a name and an extra.
RequestedExtras(manifest, environment) ==
  UNION {{Normalized(d.name)} \X d.extras :
           d \in {e \in DeclaredFor(manifest, environment) : e.pypi}}

\* matching_key: a conda name is only put in lower case.
Key(name, pypi) == <<pypi, Normalized(name)>>

\* assign_scopes: what default features declare is required, what the project's
\* extras do is optional, and other groups are for development.
ManifestScopes(manifest, packages) ==
  LET In(Test(_)) == {p.id : p \in {q \in packages : \E f \in q.declaredIn : Test(f)}}
  IN  IF \A d \in manifest.declared : d.feature = "default" THEN <<>>
      ELSE AssignScopes(packages,
             In(LAMBDA f : f = "default"),
             In(LAMBDA f : f # "default" /\ f \in manifest.extras),
             In(LAMBDA f : f # "default" /\ f \notin manifest.extras))

\* apply
ApplyManifest(manifest, sbom) ==
  LET wanted == DeclaredFor(manifest, sbom.environment)
      Matching(p) == IF p.kind \notin {"pypi", "conda", "conda-source"} THEN {}
                     ELSE {d \in wanted : Key(d.name, d.pypi) = Key(p.name, p.kind = "pypi")}
      packages == {IF Matching(p) = {} THEN p
                   ELSE [p EXCEPT !.direct = TRUE,
                                  !.declaredIn = {d.feature : d \in Matching(p)},
                                  !.extras = @ \cup UNION {d.extras : d \in Matching(p)}] :
                     p \in sbom.packages}
      matched == UNION {Matching(p) : p \in sbom.packages}
      top == manifest.everyFeature /\ matched # {}
  IN  IF manifest.declared = {} THEN sbom
      ELSE [sbom EXCEPT
              !.packages = packages,
              !.missing = {Normalized(d.name) : d \in wanted \ matched},
              !.declaredRoots = top,
              !.scopes = IF top /\ DOMAIN sbom.scopes = {} THEN ManifestScopes(manifest, packages)
                         ELSE sbom.scopes]
=============================================================================

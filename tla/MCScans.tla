------------------------------- MODULE MCScans -------------------------------
(***************************************************************************)
(* Small locks of one project for Documents, with what is hard in each      *)
(* format; three smaller ones that share packages, about which the channels *)
(* and PyPI know more; and a tree they may be in.                           *)
(***************************************************************************)
EXTENDS Scans, TLC

MCSpelling == [Six |-> "six"]
MCKeyed == ("Six" :> "six") @@ ("typing_extensions" :> "typing-extensions")
MCFragments ==
  ("typing-extensions" :> <<"typing", "extensions">>) @@ ("typing_extensions" :> <<"typing", "extensions">>)
    @@ ("six-1" :> <<"six", "1">>) @@ ("conda-source" :> <<"conda", "source">>)

Linux == "linux-64"
Everywhere == KnownPlatforms
MIT == [form |-> "spdx", of |-> "MIT"]
Own == [form |-> "text", of |-> "own"]

PyPI == IndexSource
Dir(at) == [kind |-> "directory", at |-> at]

(***************************************************************************)
(* Manifests.                                                               *)
(***************************************************************************)
NoFiles == [pixi |-> None, pyproject |-> None, environment |-> None]
D(name, pypi, feature, extras) == [name |-> name, pypi |-> pypi, feature |-> feature, extras |-> extras]
Needs(name) == [name |-> name, extras |-> {}]

\* [project], with an extra and two groups, one of which includes the other.
MCPyproject ==
  [name |-> "app", version |-> 1, pixi |-> None,
   groups |-> [test |-> [requirements |-> {Needs("six")}, includes |-> {"lint"}],
               lint |-> [requirements |-> {Needs("tk")}, includes |-> {"test"}]],
   tools |-> {}, needs |-> {Needs("web")}, optional |-> [gui |-> {Needs("crypto")}]]

MCPixiToml ==
  [name |-> "app", version |-> None,
   declared |-> {D("python", FALSE, "default", {}), D("web", TRUE, "default", {"fast"}),
                 D("gone", TRUE, "test", {})},
   environments |-> [default |-> [features |-> {}, noDefault |-> FALSE],
                     test |-> [features |-> {"test"}, noDefault |-> FALSE]]]

WithPyproject == [NoFiles EXCEPT !.pyproject = MCPyproject]

(***************************************************************************)
(* uv.lock: extras that ask for one another, a release from two sources, a  *)
(* member that is not the project, and a package for another platform.      *)
(***************************************************************************)
To(name, extras) ==
  [name |-> name, version |-> None, source |-> None, extras |-> extras, on |-> Everywhere]
Locked(name, source, needs) ==
  [name |-> name, version |-> 1, source |-> source, wheels |-> <<>>,
   sdist |-> [hash |-> name], needs |-> needs, dev |-> {}, optional |-> <<>>]

Checkout == [kind |-> "github", at |-> None]
MCUv ==
  [python |-> "cp312", members |-> {"app", "lib"},
   packages |-> <<
     [Locked("app", [kind |-> "virtual", at |-> "."], {To("web", {}), To("lib", {})}) EXCEPT
        !.dev = {To("six", {})}, !.optional = [gui |-> {To("web", {"all"})}]],
     [Locked("web", PyPI, {[To("six", {}) EXCEPT !.on = {"win-64"}]}) EXCEPT
        !.optional = [all |-> {To("web", {"fast"}), To("crypto", {})},
                      fast |-> {To("ujson", {"all"}), [To("fork", {}) EXCEPT !.source = PyPI]}]],
     Locked("crypto", PyPI, {To("web", {})}),
     [Locked("ujson", PyPI, {}) EXCEPT !.optional = [all |-> {To("web", {"all"})}]],
     Locked("fork", PyPI, {}),
     Locked("fork", Checkout, {To("Six", {})}),
     Locked("lib", Dir("lib"), {[To("fork", {}) EXCEPT !.source = Checkout]}),
     Locked("six", PyPI, {})>>]

MCUvBadMarker == [MCUv EXCEPT !.packages[4].optional = [all |-> {[To("web", {}) EXCEPT !.on = None]}]]

(***************************************************************************)
(* pixi.lock: conda and PyPI packages that need one another, a package the  *)
(* name of which both have, and extras that are asked for and not.          *)
(***************************************************************************)
Wants(name, extras, gates) == [name |-> name, extras |-> extras, gates |-> gates]
Pixi(kind, name, needs) ==
  [kind |-> kind, name |-> name, version |-> 1, build |-> "h1", channel |-> "forge",
   license |-> MIT, hash |-> name, purls |-> None, source |-> PyPI, needs |-> needs]

MCPixi ==
  [default |-> (Linux :>
     <<Pixi("conda", "python", {}),
       [Pixi("conda", "six", {Wants("python", {}, {})}) EXCEPT
          !.purls = {[PypiPurl("six", 1) EXCEPT !.version = None]}, !.license = Own],
       Pixi("conda-source", "tool", {Wants("six", {}, {})}),
       [Pixi("pypi", "web", {Wants("Six", {}, {}), Wants("ujson", {}, {"fast"}),
                               Wants("crypto", {}, {"safe"})}) EXCEPT !.license = None],
       [Pixi("pypi", "ujson", {}) EXCEPT !.license = None],
       [Pixi("pypi", "crypto", {Wants("web", {}, {})}) EXCEPT
          !.license = None, !.source = [kind |-> "github", at |-> "c0ffee"]]>>),
   test |-> (Linux :> <<[Pixi("conda", "python", {}) EXCEPT !.version = 2],
                        [Pixi("pypi", "six", {}) EXCEPT !.license = None]>>)]

(***************************************************************************)
(* poetry.lock, pdm.lock and pylock.toml.                                   *)
(***************************************************************************)
Always == [on |-> Everywhere, anyOf |-> {}]
R(name, optional, extras, anyOf) ==
  [name |-> name, version |-> None, marker |-> [Always EXCEPT !.anyOf = anyOf],
   extras |-> extras, optional |-> optional]
P(name, marker, extras, needs) ==
  [name |-> name, version |-> 1, source |-> PyPI, sdist |-> None, marker |-> marker,
   wheels |-> <<[on |-> {Linux}, abi |-> "cp311", hash |-> "other"],
                [on |-> {Linux}, abi |-> "cp312", hash |-> name]>>,
   extras |-> extras, needs |-> needs]

MCPoetry ==
  [python |-> "cp312", extras |-> {"gui"}, groups |-> {},
   packages |-> <<P("web", Always, {"fast"}, {R("ujson", TRUE, {}, {"fast"}), R("six", FALSE, {}, {})}),
                  P("ujson", Always, {}, {}), P("six", Always, {}, {}),
                  P("crypto", [Always EXCEPT !.anyOf = {"gui"}], {}, {R("web", FALSE, {"fast"}, {})}),
                  P("win", [Always EXCEPT !.on = {"win-64"}], {}, {})>>]

MCPdm ==
  [python |-> "cp312", extras |-> {}, groups |-> {},
   packages |-> <<P("web", Always, {}, {R("six", FALSE, {}, {})}),
                  P("web", Always, {"fast"}, {R("ujson", FALSE, {}, {}), R("web", FALSE, {}, {})}),
                  P("ujson", Always, {}, {R("crypto", FALSE, {"all"}, {})}),
                  P("crypto", Always, {}, {}), P("six", Always, {}, {})>>]

MCPylock ==
  [python |-> "cp312", extras |-> {"gui"}, groups |-> {"test"},
   packages |-> <<[P("app", Always, {}, {}) EXCEPT !.source = Dir(".")],
                  P("web", Always, {}, {R("six", FALSE, {}, {})}),
                  P("six", [Always EXCEPT !.anyOf = {"gui", "test"}], {}, {}),
                  P("tk", [Always EXCEPT !.anyOf = {"gui"}], {}, {R("web", FALSE, {}, {})})>>]

(***************************************************************************)
(* conda-lock.yml, an explicit file, and requirements that include one      *)
(* another.                                                                 *)
(***************************************************************************)
C(manager, name, version, category, needs) ==
  [manager |-> manager, platform |-> Linux, category |-> category, name |-> name,
   version |-> version, build |-> "h0", channel |-> "forge", hash |-> name, needs |-> needs]
MCCondaLock ==
  [platforms |-> {Linux},
   packages |-> <<C("conda", "python", 1, "main", {}), C("conda", "six", 1, "dev", {"python"}),
                  C("conda", "typing-extensions", 1, "main", {"typing_extensions"}),
                  C("conda", "typing_extensions", 1, "main", {"python"}),
                  C("pip", "web", 2, "main", {"Six"}), C("pip", "tk", 1, "dev", {"web", "python"})>>]

Url(name, version, build) ==
  [pinned |-> TRUE, platform |-> Linux, name |-> name, version |-> version, build |-> build,
   channel |-> "forge", hash |-> name]
MCExplicit ==
  [platform |-> None, lines |-> <<[Url("python", 1, "h1") EXCEPT !.platform = "noarch"],
                                  Url("six", 1, "h2")>>]

Line(kind, name) ==
  [kind |-> kind, name |-> name, version |-> 1, marker |-> None, hash |-> name]
MCRequirements ==
  [path |-> "a", files |->
     [a |-> <<Line("comment", "web"), Line("include", "b"), Line("pin", "web"), Line("via", Declared),
              Line("pin", "Six"), Line("via", None), Line("comment", "web"), Line("comment", "crypto")>>,
      b |-> <<Line("pin", "crypto"), Line("option", None), Line("include", "a"), Line("comment", "six"),
              [Line("pin", "win") EXCEPT !.marker = [on |-> {"win-64"}, anyOf |-> {}]]>>]]
MCUnpinned == [MCRequirements EXCEPT !.files["b"] = <<Line("pin", "six"), Line("unpinned", "web")>>]

(***************************************************************************)
(* Documents of somebody else, some components of which have no purl, and   *)
(* one with names that give the same SPDX identifiers.                      *)
(***************************************************************************)
Part(ref, purl, name) ==
  [ref |-> ref, kind |-> "library", vendored |-> FALSE, scope |-> None,
   facts |-> [Facts(Package("external", name, 1, StandIn(name, 1))) EXCEPT !.purl = purl]]
DependsOn(from, to) == [from |-> from, kind |-> "depends on", to |-> to]
Vendor(name, parts) ==
  [format |-> "cyclonedx", root |-> [name |-> name, version |-> 1], environment |-> "default",
   platform |-> None, notes |-> None, components |-> parts,
   edges |-> {DependsOn(None, "r1"), DependsOn("r1", "r2"), DependsOn("r2", "r3")}]
MCVendor ==
  Vendor("vendor", {Part("r1", None, "blob"), Part("r2", PypiPurl("six", 1), "six"), Part("r3", None, "tk"),
                    Part("r4", Purl("npm", "six", 1, None), "six"), Part("r5", Purl("cargo", "six", 1, None), "six"),
                    [Part("r6", Purl("npm", "six-1", 2, None), "six-1") EXCEPT !.facts.version = 2]})
MCFirmware ==
  Vendor("firmware", {Part("r1", None, "blob"), Part("r2", None, "tk"), Part("r3", PypiPurl("six", 1), "six")})

(***************************************************************************)
(* The instance.                                                            *)
(***************************************************************************)
In(format, lock, files) ==
  [format |-> format, lock |-> lock, environment |-> "default", platform |-> Linux,
   files |-> files, directory |-> "app"]
MCGood ==
  {In("uv", MCUv, NoFiles), In("uv", MCUv, WithPyproject),
   In("pixi", MCPixi, [NoFiles EXCEPT !.pixi = MCPixiToml]),
   [In("pixi", MCPixi, [NoFiles EXCEPT !.pixi = MCPixiToml]) EXCEPT !.environment = "test"],
   In("poetry", MCPoetry, WithPyproject), In("pdm", MCPdm, WithPyproject),
   In("pylock", MCPylock, WithPyproject), In("conda-lock", MCCondaLock, NoFiles),
   In("requirements", MCRequirements, NoFiles), In("explicit", MCExplicit, NoFiles),
   [In("document", MCVendor, NoFiles) EXCEPT !.platform = None],
   [In("document", MCFirmware, NoFiles) EXCEPT !.platform = None]}
MCBad ==
  {In("uv", MCUvBadMarker, NoFiles), In("requirements", MCUnpinned, NoFiles),
   [In("pixi", MCPixi, NoFiles) EXCEPT !.platform = "osx-64"],
   [In("poetry", MCPoetry, NoFiles) EXCEPT !.platform = "noarch"]}
MCInputs == MCGood \cup MCBad
MCFilters ==
  {[NoFilter EXCEPT !.exclude = {"web"}], [NoFilter EXCEPT !.kinds = {"conda"}],
   [NoFilter EXCEPT !.include = {"web", "crypto", "lib"}], NoFilter}
MCFormats == {"cyclonedx", "spdx2", "spdx3", "github"}

(***************************************************************************)
(* The tables of this program.                                              *)
(***************************************************************************)
MCTable == [mit |-> "MIT", bsd |-> "BSD"]
MCHosted == {"https://github.com/six"}
MCCpeTable == {"libz"}

(***************************************************************************)
(* The locks: a pixi.lock and a conda-lock.yml with the same conda          *)
(* packages, one of which states a license in the first only, and a uv.lock *)
(* with a package of the others and one that is no wheel.                   *)
(***************************************************************************)
Tiny(kind, name, license, needs) ==
  [Pixi(kind, name, needs) EXCEPT !.build = "h0", !.license = license]
MCTinyPixi ==
  [default |-> (Linux :> <<Tiny("conda", "python", MIT, {}), Tiny("conda", "libz", None, {}),
                           Tiny("pypi", "web", None, {})>>)]
MCTinyCondaLock ==
  [platforms |-> {Linux},
   packages |-> <<C("conda", "python", 1, "main", {"libz"}), C("conda", "libz", 1, "main", {}),
                  C("pip", "web", 1, "main", {})>>]
MCTinyUv ==
  [python |-> "cp312", members |-> {"app"},
   packages |-> <<Locked("app", [kind |-> "virtual", at |-> "."], {To("web", {}), To("six", {})}),
                  Locked("web", PyPI, {}), Locked("six", PyPI, {To("web", {})})>>]
MCTiny ==
  {In("pixi", MCTinyPixi, NoFiles), In("conda-lock", MCTinyCondaLock, NoFiles), In("uv", MCTinyUv, NoFiles)}
MCAllInputs == MCInputs \cup MCTiny
MCAllLater == MCGood \cup MCTiny

(***************************************************************************)
(* What may be had.                                                         *)
(***************************************************************************)
Info(license, texts, repository) ==
  [license |-> license, family |-> "permissive", description |-> "words", homepage |-> None,
   documentation |-> None, repository |-> repository, files |-> texts]
Conda(name) == Purl("conda", name, 1, [build |-> "h0", channel |-> "forge"])
Long == [form |-> "long", of |-> "words"]
Under(label, url) == [label |-> label, url |-> url]
Json(license, classifiers, urls, yanked) ==
  [expression |-> None, license |-> license, classifiers |-> classifiers, urls |-> urls,
   home |-> None, yanked |-> yanked]
Wheel(license, urls, texts) ==
  WheelInfo([expression |-> None, license |-> license, summary |-> "words", home |-> None, urls |-> urls], texts)

MCUpstream ==
  (Conda("python") :> [Nothing EXCEPT !.extracted = Info([MIT EXCEPT !.of = "PSF"], {"COPYING"}, "https://python.org")])
    @@ (Conda("libz") :> [Nothing EXCEPT
          !.archive = [legacy |-> TRUE, size |-> "small", info |-> Info(Own, {}, None)]])
    @@ (PypiPurl("web", 1) :> [Nothing EXCEPT
          !.wheel = Wheel(MIT, <<Under("docs", "https://web")>>, {"LICENSE"}),
          !.index = Json(Long, <<"mit", "bsd">>, <<Under("repository", "https://web.git")>>, FALSE)])
    @@ (PypiPurl("six", 1) :> [Nothing EXCEPT
          !.index = Json(Long, <<"bsd", "mit">>, <<Under("news", "https://six"), Under("home", "https://github.com/six")>>, TRUE)])

Option(offline, embeddedSboms, mayRead, mayWrite) ==
  [offline |-> offline, embeddedSboms |-> embeddedSboms, mayRead |-> mayRead, mayWrite |-> mayWrite]
MCOptions ==
  {Option(FALSE, FALSE, TRUE, TRUE), Option(TRUE, FALSE, TRUE, TRUE), Option(FALSE, TRUE, FALSE, TRUE)}

(***************************************************************************)
(* A tree of projects: pixi beside uv, two named pylocks, and directories   *)
(* that a scan does not enter.                                              *)
(***************************************************************************)
EmptyDir == [files |-> {}, named |-> <<>>, manifests |-> <<>>, environments |-> <<>>, platforms |-> {},
          readable |-> TRUE, link |-> FALSE]
With(files) == [EmptyDir EXCEPT !.files = files]
Win64 == <<"win", "64">>
Linux64 == <<"linux", "64">>
MCTree ==
  (<<>> :> [EmptyDir EXCEPT !.manifests = "pyproject.toml" :> {"uv", "poetry"}])
    @@ (<<"a">> :> [With({"uv.lock", "pixi.lock"}) EXCEPT
          !.environments = (<<"default">> :> {Linux64, Win64}) @@ (<<"test", "linux">> :> {Linux64})])
    @@ (<<"a", "src">> :> EmptyDir)
    @@ (<<"a", "src", "b">> :> [With({"poetry.lock", "requirements.txt"}) EXCEPT !.named = <<"dev", "test">>])
    @@ (<<"b">> :> [With({"conda-lock.yml", "explicit.txt"}) EXCEPT !.platforms = {Linux64, Win64}])
    @@ (<<"b", "build">> :> With({"uv.lock"}))
    @@ (<<"b", "c">> :> [With({"pdm.lock"}) EXCEPT !.readable = FALSE])
    @@ (<<"b", "c", "d">> :> With({"pylock.toml"}))
    @@ (<<".git">> :> With({"pixi.lock"}))
    @@ (<<"l">> :> [With({"uv.lock"}) EXCEPT !.link = TRUE])
    @@ (<<"e">> :> [EmptyDir EXCEPT !.manifests = "environment.yml" :> {"export", "dependencies"}])
MCHidden == {".git"}

Plain ==
  [cwd |-> <<"a", "src">>, lockfile |-> None, scan |-> None, depth |-> None, document |-> FALSE,
   output |-> None, allEnvironments |-> FALSE, allPlatforms |-> FALSE, environment |-> <<"default">>,
   platform |-> None, merge |-> FALSE]
Outputs == {None, <<"-">>, <<"out">>}
Scanning ==
  {[Plain EXCEPT !.scan = s, !.depth = d, !.output = o, !.allEnvironments = e, !.allPlatforms = p, !.merge = m] :
     s \in {<<>>, <<"b">>, <<"l">>, <<"gone">>}, d \in {None, 1}, o \in Outputs, e \in BOOLEAN, p \in BOOLEAN,
     m \in BOOLEAN}
Searching ==
  {[Plain EXCEPT !.cwd = c, !.output = o, !.allEnvironments = e, !.allPlatforms = p] :
     c \in {<<>>, <<"a", "src">>, <<"a", "src", "b">>, <<"b">>, <<"e">>}, o \in Outputs, e \in BOOLEAN, p \in BOOLEAN}
Giving ==
  {[Plain EXCEPT !.lockfile = Lockfile(l[1], l[2], l[3]), !.allPlatforms = p] :
     l \in {<< <<"b">>, "explicit.txt", None>>, << <<"a", "src", "b">>, "requirements.txt", None>>,
            << <<"b", "c", "d">>, "pylock.toml", None>>, << <<"a", "src", "b">>, "pylock.toml", "test">>,
            << <<"a", "src", "b">>, "poetry.lock", None>>, << <<"b", "c">>, "pdm.lock", None>>,
            << <<"b", "build">>, "uv.lock", None>>, << <<"e">>, "uv.lock", None>>},
     p \in BOOLEAN}
MCArguments ==
  Scanning \cup Searching \cup Giving \cup {[Plain EXCEPT !.document = TRUE]}
    \cup {[Plain EXCEPT !.environment = <<"gone">>, !.allPlatforms = TRUE]}
===============================================================================

---------------------------- MODULE MCEnvironments ----------------------------
(***************************************************************************)
(* Environments for Environments: one of conda, in which pip installed over  *)
(* conda and a tool keeps a tree of npm packages; one of conda with compiled *)
(* tools and copies; a virtual environment and a plain installation of       *)
(* Python; a directory that is none, and a record nobody can read.           *)
(***************************************************************************)
EXTENDS Environments

MCSpelling == ("Six" :> "six") @@ ("Tool_Kit" :> "tool-kit")
MCCran == [renamed |-> "r-abcanalysis" :> "ABCanalysis", notCran |-> {"r-base"}]
MCStdlib == {"os", "json"}
MCSkipped == {"build", ".git"}
MCUnspeakable == {"my-script"}
MCImportable == "tool-kit" :> "tool_kit"
MCPieces == "share/a, b" :> {"share/a", "b"}

(***************************************************************************)
(* Records and distributions.                                               *)
(***************************************************************************)
Py(minor, patch) == [minor |-> <<3, minor>>, patch |-> patch]
Path(at, type, hash, prefixHash, bytecode) ==
  [at |-> at, type |-> type, hash |-> hash, prefixHash |-> prefixHash, bytecode |-> bytecode]

Record(name, version) ==
  [name |-> name, version |-> version, build |-> "h0", subdir |-> "linux-64", channel |-> "conda-forge",
   license |-> None, extracted |-> [name |-> name, cache |-> "cache"], needs |-> {}, dists |-> <<>>,
   tops |-> {}, modules |-> {}, binaries |-> {}, paths |-> {}, readable |-> TRUE]
Dist(at, name, version, installer) ==
  [at |-> at, name |-> name, version |-> version, installer |-> installer, readable |-> TRUE,
   asked |-> FALSE, direct |-> None, needs |-> {}, optional |-> <<>>, tops |-> {}, topLevel |-> {},
   provides |-> {name}, tags |-> {}, requiresPython |-> None, license |-> None]

Clause1(op, minor, patch) ==
  [op |-> op, major |-> IF minor = None THEN 4 ELSE 3, minor |-> minor, patch |-> patch]

NoEnvironment ==
  [condaMeta |-> FALSE, venv |-> FALSE, site |-> FALSE, history |-> <<>>, records |-> <<>>,
   dists |-> <<>>, python |-> [config |-> None, lib |-> None, patch |-> None], objects |-> None,
   windows |-> FALSE, given |-> "absolute", npm |-> <<>>, binaries |-> <<>>, vendored |-> <<>>,
   files |-> <<>>]

(***************************************************************************)
(* npm brings tar, chownr and a chownr for tar alone; jslint brings another  *)
(* tar; two packages need each other; app is the workspace's own.            *)
(***************************************************************************)
Npm(name, version, needs) ==
  [name |-> name, version |-> version, private |-> FALSE, license |-> "ISC", needs |-> needs]
NpmTree ==
  (<<"lib", "npm">> :> Npm("npm", 10, {"tar", "chownr"}))
    @@ (<<"lib", "npm", "tar">> :> Npm("tar", 6, {"chownr", "jslint", "lost"}))
    @@ (<<"lib", "npm", "chownr">> :> Npm("chownr", 1, {}))
    @@ (<<"lib", "npm", "tar", "chownr">> :> Npm("chownr", 2, {}))
    @@ (<<"lib", "jslint">> :> Npm("jslint", 3, {"tar"}))
    @@ (<<"lib", "tar">> :> Npm("tar", 7, {"ring"}))
    @@ (<<"lib", "ring">> :> Npm("ring", 1, {"gnir"}))
    @@ (<<"lib", "gnir">> :> Npm("gnir", 1, {"ring"}))
    @@ (<<"lib", "app">> :> [Npm("app", 0, {"tar"}) EXCEPT !.private = TRUE])

\* pip put six 2 in the place of conda's six 1; numpy's second directory is its own.
CondaEnvironment ==
  [NoEnvironment EXCEPT
     !.condaMeta = TRUE, !.site = TRUE,
     !.history = <<[add |-> TRUE, names |-> {"python", "nodejs", "numpy"}],
                   [add |-> FALSE, names |-> {"numpy"}]>>,
     !.records =
       <<[Record("python", <<<<3, 9>>, 7>>) EXCEPT
            !.paths = {Path("bin/python", "file", "p", None, FALSE), Path("bin/python3", "softlink", None, None, FALSE),
                       Path("lib/os.pyc", "file", "c", None, TRUE), Path("lib/site.py", "file", "s", "s2", FALSE)}],
         [Record("numpy", 1) EXCEPT !.needs = {"python"}, !.dists = <<"numpy-1">>, !.tops = {"numpy"},
            !.subdir = "noarch",
            !.paths = {Path("lib/numpy.py", "file", "n", "n2", FALSE), Path("lib/gone.py", "file", "g", None, FALSE),
                       Path("lib/unhashed", "file", None, None, FALSE), Path("share/a, b", "file", "a", None, FALSE)}],
         [Record("six", 1) EXCEPT !.needs = {"python", "nothing"}, !.dists = <<"six-1">>],
         [Record("nodejs", 20) EXCEPT !.modules = {<<"lib", "npm">>, <<"lib", "npm", "tar">>,
                                                   <<"lib", "npm", "chownr">>, <<"lib", "npm", "tar", "chownr">>}]>>,
     !.dists =
       <<[Dist("numpy-1", "numpy", 1, "conda") EXCEPT
            !.requiresPython = <<Clause1(">=", 8, None), Clause1("<", 12, None)>>],
         [Dist("six-2", "Six", 2, "pip") EXCEPT !.requiresPython = <<Clause1("==", 9, None)>>,
            !.license = "MIT"],
         [Dist("web-1", "web", 1, "pip") EXCEPT
            !.asked = TRUE, !.needs = {"six"},
            !.optional = [fast |-> {"numpy"}, full |-> {"numpy", "absent"}, nil |-> {}],
            !.topLevel = {"web", "web_helpers"},
            !.requiresPython = <<Clause1(">=", 7, None), Clause1("<=", 11, 4)>>],
         [Dist("half-1", "half", 1, "pip") EXCEPT !.readable = FALSE]>>,
     !.npm = NpmTree,
     !.files = ("bin/python" :> "p") @@ ("bin/python3" :> "p") @@ ("lib/os.pyc" :> "c2")
                 @@ ("lib/site.py" :> "s2") @@ ("lib/numpy.py" :> "n") @@ ("lib/unhashed" :> "u")]

(***************************************************************************)
(* Compiled tools: rg is of crates, hugo of Go modules of a source checkout, *)
(* gh of a released one; pip keeps a copy of urllib3, and so does another.   *)
(***************************************************************************)
Crate(name, runtime, root, needs) ==
  [name |-> name, version |-> 1, runtime |-> runtime, root |-> root, needs |-> needs]
Module(name, version) == [name |-> name, version |-> version]
ToolsEnvironment ==
  [NoEnvironment EXCEPT
     !.condaMeta = TRUE,
     !.records =
       <<[Record("ripgrep", 14) EXCEPT !.binaries = {"bin/rg", "bin/none"}],
         [Record("gh", 2) EXCEPT !.binaries = {"bin/gh", "bin/hugo"}],
         [Record("pip", 24) EXCEPT !.tops = {"pip"}, !.dists = <<"pip-24", "wheel-1">>],
         [Record("r-abcanalysis", 1) EXCEPT !.tops = {"pip"}, !.subdir = "osx-64"]>>,
     !.dists = <<Dist("pip-24", "pip", 24, "conda"), Dist("wheel-1", "wheel", 1, "conda"),
                 [Dist("req-2", "req", 2, "uv") EXCEPT
                    !.tops = {"req"}, !.needs = {"wheel"}, !.direct = [vcs |-> FALSE, commit |-> None, kind |-> "file", at |-> "project"]]>>,
     !.binaries =
       ("bin/rg" :> [crates |-> <<Crate("rg", TRUE, TRUE, {2, 3}), Crate("regex", TRUE, FALSE, {}),
                                  Crate("cc", FALSE, FALSE, {}), Crate("alone", TRUE, TRUE, {1})>>, go |-> None])
         @@ ("bin/hugo" :> [crates |-> <<Crate("regex", TRUE, TRUE, {})>>,
                            go |-> [main |-> [name |-> "hugo", version |-> None],
                                    modules |-> {Module("x/net", 1)}, version |-> 22]])
         @@ ("bin/gh" :> [crates |-> None, go |-> [main |-> Module("gh", 2), modules |-> {Module("x/net", 2), Module("gh", 2)},
                                                   version |-> 22]]),
     !.vendored = ("pip" :> {Module("urllib3", 1), Module("six", 1)}) @@ ("req" :> {Module("urllib3", 1)})
                    @@ ("stray" :> {Module("orphan", 1)})]

(***************************************************************************)
(* Environments of Python alone.                                            *)
(***************************************************************************)
Direct(vcs, kind, at) == [vcs |-> vcs, commit |-> IF vcs THEN "c0ffee" ELSE None, kind |-> kind, at |-> at]
PythonDists ==
  <<[Dist("app-1", "app", 1, "pip") EXCEPT
       !.direct = Direct(FALSE, "file", "project"), !.asked = TRUE, !.needs = {"lib", "Six"}, !.provides = {"app"}],
    [Dist("lib-1", "lib", 1, "pip") EXCEPT
       !.direct = Direct(FALSE, "file", "elsewhere"), !.provides = {"lib", "lib_extra"},
       !.tags = {[os |-> "linux", arch |-> "x86"]}],
    [Dist("six-1", "six", 1, "conda") EXCEPT
       !.requiresPython = <<Clause1(">", 7, None), Clause1("<", 10, None), Clause1("!=", 9, None)>>,
       !.tags = {[os |-> "macosx", arch |-> "universal"], [os |-> "linux", arch |-> "x86"]}],
    [Dist("tool-3", "Tool_Kit", 3, None) EXCEPT
       !.direct = Direct(TRUE, "https", "forge"), !.requiresPython = <<Clause1("~=", 9, None), Clause1("<", None, None)>>,
       !.optional = [cli |-> {"six"}], !.provides = {}],
    [Dist("hub-1", "hub", 1, "uv") EXCEPT
       !.direct = Direct(TRUE, "github", "forge"), !.requiresPython = <<Clause1("!=", 9, 7)>>],
    [Dist("fork-1", "fork", 1, "uv") EXCEPT !.direct = Direct(TRUE, "file", "project")],
    [Dist("file-1", "file", 1, "uv") EXCEPT !.direct = Direct(FALSE, "https", "forge")]>>

Venv == [NoEnvironment EXCEPT !.venv = TRUE, !.site = TRUE, !.dists = PythonDists,
                              !.python = [config |-> Py(9, 2), lib |-> <<3, 9>>, patch |-> None],
                              !.vendored = "lib" :> {Module("six", 0)}]
Plain == [Venv EXCEPT !.venv = FALSE, !.windows = TRUE,
                      !.python = [config |-> None, lib |-> <<3, 8>>, patch |-> Py(8, 19)]]
Torn == [ToolsEnvironment EXCEPT !.records = Append(SubSeq(@, 1, 2), [Record("gone", 1) EXCEPT !.readable = FALSE])]

(***************************************************************************)
(* The project: a package and a script of its own, a test that imports under *)
(* a string, and what a build left behind.                                  *)
(***************************************************************************)
Line(imports) == [quote |-> None, quotes |-> {}, comment |-> FALSE, continued |-> FALSE, imports |-> imports]
Quote(open) == [Line({"ghost"}) EXCEPT !.quote = IF open THEN "dq" ELSE None, !.quotes = {"dq"}]
Source(dir, stem, lines) == [dir |-> dir, stem |-> stem, readable |-> TRUE, lines |-> lines]
MCSources ==
  {Source(<<"own">>, "__init__", <<>>),
   Source(<<"own">>, "core", <<Quote(TRUE), Line({"lib"}), Quote(FALSE), Line({"os", "own", "tool_kit"}), Line({"web_helpers", "six"})>>),
   Source(<<>>, "app", <<[Line({"numpy"}) EXCEPT !.comment = TRUE], [Line({"app"}) EXCEPT !.continued = TRUE], Line({"urllib3"})>>),
   Source(<<"build">>, "left", <<Line({"lib_extra"})>>),
   [Source(<<>>, "broken", <<Line({"lib_extra"})>>) EXCEPT !.readable = FALSE]}

(***************************************************************************)
(* A wheel's SBOMs: one without a root, whose file is no component, and one  *)
(* that lists a package of the environment again.                           *)
(***************************************************************************)
Listed(ref, name, purl, needs) ==
  [ref |-> ref, name |-> name, version |-> 1, purl |-> purl, license |-> "MIT", needs |-> needs, file |-> FALSE]
MCWheels ==
  PypiPurl("six", 2) :>
    {[components |-> {Listed("a", "blas", Purl("generic", "blas", 1, None), {"b"}), Listed("b", "fortran", None, {}),
                      [Listed("c", "so", None, {}) EXCEPT !.file = TRUE]}, top |-> None],
     [components |-> {Listed("d", "web", PypiPurl("web", 1), {})}, top |-> {"d"}]}
MCR ==
  [bare |-> ("r-abcanalysis" :> "abcanalysis") @@ ("r-base" :> "base"), library |-> <<>>, extracted |-> <<>>]

Job ==
  [env |-> NoEnvironment, platform |-> None, filter |-> NoFilter, inferExtras |-> TRUE, verify |-> FALSE,
   embedded |-> FALSE, wheels |-> MCWheels, r |-> MCR, sources |-> MCSources, assumed |-> {},
   report |-> None, depth |-> None]
Asks(envs, filters, reports) ==
  {[Job EXCEPT !.env = e, !.filter = f, !.report = r, !.verify = (r = "files"), !.embedded = b, !.assumed = a,
               !.depth = IF a = {} THEN None ELSE 1] :
     e \in envs, f \in filters, r \in reports, b \in BOOLEAN, a \in {{}, {"lib"}}}
MCJobs ==
  Asks({CondaEnvironment}, {NoFilter, [NoFilter EXCEPT !.exclude = {"nodejs"}]}, {"packages", "files"})
    \cup Asks({ToolsEnvironment}, {NoFilter, [NoFilter EXCEPT !.exclude = {"pip"}]}, {None, "packages"})
    \cup Asks({CondaEnvironment, Venv, Plain}, {NoFilter}, {"python", "phantom"})
    \cup Asks({Venv, Plain, Torn, NoEnvironment, [Venv EXCEPT !.given = "relative"]}, {NoFilter}, {None})
===============================================================================

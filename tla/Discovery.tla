------------------------------ MODULE Discovery ------------------------------
(***************************************************************************)
(* Which lockfiles a run reads, and to which files its documents go          *)
(* (discover.rs; main.rs:78, 274 and 2488).                                 *)
(*                                                                         *)
(* A directory is the sequence of the names on the way to it.  A tree gives *)
(* for each [files, named, manifests, environments, platforms, readable,    *)
(* link]: the lockfiles in it by kind, the name of each pylock.<name>.toml   *)
(* in their order, what each manifest in it says, the platforms of each     *)
(* environment of its pixi.lock and those of its conda-lock.yml.            *)
(*                                                                         *)
(* The arguments are [cwd, lockfile, scan, depth, document, output,          *)
(* allEnvironments, allPlatforms, environment, platform, merge], document    *)
(* for --from-sbom.  A name that is joined of others with dashes, as an     *)
(* environment's, a platform's or a document's may be, is a sequence.       *)
(***************************************************************************)
EXTENDS Sboms

CONSTANT Hidden   \* the names of directories that begin with a dot

LockfileKinds == <<"pixi.lock", "uv.lock", "pylock.toml", "poetry.lock", "pdm.lock", "conda-lock.yml">>
ScanSkippedDirs == {"node_modules", "target", "build", "dist", "venv", "__pycache__"}

Lockfile(dir, kind, name) == [dir |-> dir, kind |-> kind, named |-> name]

\* lockfiles_in: the kinds there are, a pylock.toml before the named ones.
NamedIn(tree, dir) == IF tree[dir].readable THEN tree[dir].named ELSE <<>>
KindsIn(tree, dir) ==
  {n \in DOMAIN LockfileKinds :
     LET kind == LockfileKinds[n]
     IN  kind \in tree[dir].files \/ (kind = "pylock.toml" /\ NamedIn(tree, dir) # <<>>)}

\* lockfile_in: the first of them.
LockfileIn(tree, dir) ==
  LET kind == LockfileKinds[Min(KindsIn(tree, dir))]
  IN  IF KindsIn(tree, dir) = {} THEN None
      ELSE Lockfile(dir, kind, IF kind \in tree[dir].files THEN None ELSE Head(NamedIn(tree, dir)))

\* walk: the directories it gets to, dir itself whatever its name.
Walked(tree, dir, depth) ==
  {d \in DOMAIN tree :
     /\ IsPrefix(dir, d)
     /\ depth # None => Len(d) <= Len(dir) + depth
     /\ \A n \in (Len(dir) + 1)..Len(d) :
          /\ d[n] \notin Hidden \cup ScanSkippedDirs
          /\ tree[SubSeq(d, 1, n - 1)].readable /\ ~ tree[SubSeq(d, 1, n)].link}

\* scan: a set, where the code sorts.
ScanTree(tree, dir, depth) ==
  {LockfileIn(tree, d) : d \in Walked(tree, dir, depth)} \ {None}

\* find_upward
Ancestors(dir) == {SubSeq(dir, 1, n) : n \in 0..Len(dir)}
Nearest(dirs) == CHOOSE d \in dirs : \A e \in dirs : Len(e) <= Len(d)
FindUpward(tree, start) ==
  LET holding == {d \in Ancestors(start) : LockfileIn(tree, d) # None}
  IN  IF holding = {} THEN None ELSE LockfileIn(tree, Nearest(holding))

(***************************************************************************)
(* What to do where there is no lock (unlocked.rs): which lock to write     *)
(* beside the manifest there is.  A pyproject.toml says the set of its      *)
(* tools, an environment file what it is.                                   *)
(***************************************************************************)
Manifests == <<"pixi.toml", "pyproject.toml", "environment.yml", "Pipfile", "setup.py">>

\* pyproject
PyprojectAdvice(tools) ==
  CASE "pixi" \in tools -> {"pixi.lock"}
    [] "pixi" \notin tools /\ "poetry" \in tools -> {"poetry.lock"}
    [] tools \cap {"pixi", "poetry"} = {} /\ "pdm" \in tools -> {"pdm.lock"}
    [] tools \cap {"pixi", "poetry", "pdm"} = {} /\ "uv" \in tools -> {"uv.lock"}
    [] OTHER -> {"uv.lock", "poetry.lock", "pdm.lock"}

\* diagnose: None of a file that is no manifest.
Advice(name, says) ==
  CASE name = "pixi.toml" -> {"pixi.lock"}
    [] name = "pyproject.toml" -> PyprojectAdvice(says)
    [] name \in {"Pipfile", "setup.py"} -> {"pylock.toml"}
    [] name = "environment.yml" /\ "export" \in says -> {"explicit.txt"}
    [] name = "environment.yml" /\ "export" \notin says /\ "dependencies" \in says -> {"conda-lock.yml"}
    [] OTHER -> None

\* nearest_manifest
Hint(tree, start) ==
  LET Known(d) == SelectSeq(Manifests, LAMBDA m : /\ m \in DOMAIN tree[d].manifests
                                                  /\ Advice(m, tree[d].manifests[m]) # None)
      holding == {d \in Ancestors(start) : Known(d) # <<>>}
      d == Nearest(holding)
  IN  IF holding = {} THEN None
      ELSE [dir |-> d, write |-> Advice(Head(Known(d)), tree[d].manifests[Head(Known(d))])]

(***************************************************************************)
(* Where documents go: a file is [dir, name].                               *)
(***************************************************************************)
Stdout == <<"-">>
FileAt(path) == [dir |-> Front(path), name |-> <<Last(path)>>]

\* default_file_name, batch_file_name: joined with dashes, without the extension.
FileName(labels) == <<"sbom">> \o labels
FileIn(dir, labels) == [dir |-> dir, name |-> FileName(labels)]

\* resolve_output, resolve_batch_output
ResolveOutput(args, dir) == IF args.output # None THEN FileAt(args.output) ELSE FileIn(dir, <<>>)
ResolveBatchOutput(args, dir, labels) ==
  FileIn(IF args.output # None THEN args.output ELSE dir, labels)

Target(environment, platform, output) ==
  [environment |-> environment, platform |-> platform, output |-> output]

Default == <<"default">>
Failure(error) == [error |-> error, locks |-> {}, workspaces |-> {}, hint |-> None]
Workspace(lockfile, targets) == [lockfile |-> lockfile, targets |-> targets]

\* resolve_targets: of a pixi.lock, into a directory or None.
ResolveTargets(args, environments, lockfile, dir) ==
  LET batch == args.allEnvironments \/ args.allPlatforms
      chosen == IF args.allEnvironments THEN DOMAIN environments ELSE {args.environment}
      Platforms(e) == IF args.allPlatforms THEN environments[e] ELSE {args.platform}
      Labels(e, p) == (IF args.allEnvironments THEN e ELSE <<>>)
                         \o (IF args.allPlatforms THEN p ELSE <<>>)
      Output(e, p) ==
        CASE dir # None -> FileIn(dir, IF batch THEN Labels(e, p) ELSE <<>>)
          [] dir = None /\ batch -> ResolveBatchOutput(args, lockfile.dir, Labels(e, p))
          [] OTHER -> ResolveOutput(args, lockfile.dir)
  IN  UNION {{Target(e, p, Output(e, p)) : p \in Platforms(e)} : e \in chosen}

\* Whether resolve_targets refuses.
Unresolvable(args, environments) ==
  \/ (args.allEnvironments \/ args.allPlatforms) /\ args.output = Stdout
  \/ args.allPlatforms /\ ~ args.allEnvironments /\ args.environment \notin DOMAIN environments

\* pylock.rs, environment_name
EnvironmentName(lockfile) == IF lockfile.named = None THEN Default ELSE <<lockfile.named>>

\* The documents of a lock of a scan, which go into a directory.
ScannedInto(tree, args, lockfile, into) ==
  Workspace(lockfile,
    IF lockfile.kind = "pixi.lock"
    THEN ResolveTargets(args, tree[lockfile.dir].environments, lockfile, into)
    ELSE {Target(EnvironmentName(lockfile), args.platform, FileIn(into, <<>>))})

\* Mutant: every document of a scan goes right into the directory asked for.
ScannedWorkspaceFlat(tree, args, lockfile) ==
  ScannedInto(tree, args, lockfile, IF args.output # None THEN args.output ELSE lockfile.dir)

\* scanned_workspace
ScannedWorkspace(tree, args, lockfile) ==
  LET relative == SubSeq(lockfile.dir, Len(args.scan) + 1, Len(lockfile.dir))
  IN  ScannedInto(tree, args, lockfile,
                  IF args.output # None THEN args.output \o relative ELSE lockfile.dir)

\* main, with --scan: with --merge one document for all of them.
FindAll(tree, args) ==
  LET locks == IF args.scan \in DOMAIN tree THEN ScanTree(tree, args.scan, args.depth) ELSE {}
      merged == Workspace(Lockfile(args.scan, "pixi.lock", None),
                          {Target(Default, args.platform, ResolveOutput(args, args.scan))})
  IN  CASE ~ args.merge /\ args.output = Stdout -> Failure("usage")
        [] (args.merge \/ args.output # Stdout) /\ args.scan \notin DOMAIN tree -> Failure("not a directory")
        [] (args.merge \/ args.output # Stdout) /\ args.scan \in DOMAIN tree /\ locks = {} -> Failure("none found")
        [] \E l \in locks : l.kind = "pixi.lock" /\ Unresolvable(args, tree[l.dir].environments) ->
             Failure("usage")
        [] OTHER -> [error |-> None, locks |-> locks, hint |-> None,
                     workspaces |-> IF args.merge THEN {merged} ELSE {ScannedWorkspace(tree, args, l) : l \in locks}]

\* condalock_targets, refuse_workspace_flags: whether the flags do for a lock that
\* is no pixi.lock.
FlagsDo(args, lockfile) ==
  /\ ~ args.allEnvironments /\ args.environment = Default
  /\ args.allPlatforms => lockfile.kind = "conda-lock.yml" /\ args.output # Stdout

\* main, for one input.
TargetsOf(tree, args, lockfile) ==
  CASE lockfile.kind = "pixi.lock" ->
         ResolveTargets(args, tree[lockfile.dir].environments, lockfile, None)
    [] lockfile.kind = "conda-lock.yml" /\ args.allPlatforms ->
         {Target(Default, p, ResolveBatchOutput(args, lockfile.dir, p)) : p \in tree[lockfile.dir].platforms}
    [] OTHER -> {Target(EnvironmentName(lockfile), args.platform, ResolveOutput(args, lockfile.dir))}

\* resolve_lockfile, and what becomes of the one lock.
FindOne(tree, args) ==
  LET Exists(l) == IF l.named = None THEN l.kind \in tree[l.dir].files ELSE l.named \in Values(tree[l.dir].named)
      lockfile == CASE args.document -> Lockfile(args.cwd, "document", None)
                    [] ~ args.document /\ args.lockfile # None -> args.lockfile
                    [] OTHER -> FindUpward(tree, args.cwd)
      refused == IF args.document THEN args.allEnvironments \/ args.allPlatforms
                 ELSE IF lockfile.kind = "pixi.lock" THEN Unresolvable(args, tree[lockfile.dir].environments)
                 ELSE ~ FlagsDo(args, lockfile)
  IN  CASE lockfile = None -> [Failure("not found") EXCEPT !.hint = Hint(tree, args.cwd)]
        [] lockfile # None /\ ~ args.document /\ ~ Exists(lockfile) -> Failure("missing")
        [] lockfile # None /\ (args.document \/ Exists(lockfile)) /\ refused -> Failure("usage")
        [] OTHER -> [error |-> None, locks |-> {lockfile}, hint |-> None,
                     workspaces |-> {Workspace(lockfile, TargetsOf(tree, args, lockfile))}]

Find(tree, args) == IF args.scan # None THEN FindAll(tree, args) ELSE FindOne(tree, args)
==============================================================================

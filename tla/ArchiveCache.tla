---------------------------- MODULE ArchiveCache ----------------------------
(***************************************************************************)
(* The two caches that are directories of files pulled out of an archive:   *)
(* wheel-info/<sha256>/ (wheel.rs) and conda-info/<sha256>/info/            *)
(* (condaarchive.rs, read back by pkgcache.rs).  A miss extracts the        *)
(* archive into a staging directory, <sha256>.partial, removes the old      *)
(* directory and renames the staging directory into its place; under        *)
(* --no-cache the same code runs in a scratch directory of its own          *)
(* (cache.rs, extract_into_where).                                          *)
(*                                                                          *)
(* The model follows one archive.  A directory is Absent or the set of      *)
(* members of the archive that are in it, complete; a member whose file is  *)
(* still being written counts as missing.  The processes share the cache    *)
(* directory, and so the staging directory, which is named after the        *)
(* archive and not after the process.                                       *)
(***************************************************************************)
EXTENDS FiniteSets

CONSTANTS
  Procs,       \* invocations of pixi-sbom
  Writers,     \* those that may run without --no-cache; the others never do
  Allowed,     \* the cache policies the writers may run under
  Layouts,     \* which of the two caches this instance may be about
  Members,     \* the files of the archive the cache keeps
  Marker,      \* METADATA of a wheel, info/index.json of a conda package
  Sbom,        \* the SBOM a wheel may carry under dist-info/sboms/
  Absent       \* no such directory

ASSUME ArchiveCacheAssumption ==
  /\ Writers \subseteq Procs
  /\ Allowed \subseteq {"default", "refresh", "noCache"}
  /\ Layouts \subseteq {"wheel", "conda"}
  /\ Marker \in Members
  /\ Sbom \in Members
  /\ Marker # Sbom
  /\ \A d \in SUBSET Members : d # Absent
  /\ "cache" \notin Procs

Places == {"cache"} \cup Procs
Dirs == {Absent} \cup SUBSET Members

VARIABLES
  layout,      \* the cache this behaviour is about
  staging,     \* the .partial directory of each place
  final,       \* the directory of each place
  pc,          \* where each process is
  policy,      \* its cache::Policy
  written,     \* the members it has written to the staging directory
  how,         \* how info_for got its answer
  got,         \* the members the answer was read from
  embedded     \* what embedded::enrich found in the directory

disk == <<layout, staging, final>>
vars == <<layout, staging, final, pc, policy, written, how, got, embedded>>

MayRead(p) == policy[p] = "default"
MayWrite(p) == policy[p] # "noCache"

\* Mutant: --no-cache extracts into the cache all the same.
SharedPlace(p) == "cache"

\* Where extract_into_where lets this process extract: the cache itself, or a
\* scratch directory only this call knows.
Place(p) == IF MayWrite(p) THEN "cache" ELSE p

Contents(d) == IF d = Absent THEN {} ELSE d

Init ==
  /\ layout \in Layouts
  /\ staging = [d \in Places |-> Absent]
  /\ final = [d \in Places |-> Absent]
  /\ pc = [p \in Procs |-> "idle"]
  /\ policy = [p \in Procs |-> "noCache"]
  /\ written = [p \in Procs |-> {}]
  /\ how = [p \in Procs |-> "none"]
  /\ got = [p \in Procs |-> {}]
  /\ embedded = [p \in Procs |-> "none"]

\* A run begins.  scratch_dir names a scratch directory after the process id, the
\* cache and a counter, and the id may be that of a process long gone, which was
\* killed or could not remove what it had made.
Start(p) ==
  /\ pc[p] = "idle"
  /\ \E c \in IF p \in Writers THEN Allowed ELSE {"noCache"} :
       /\ policy' = [policy EXCEPT ![p] = c]
       /\ \E d, s \in IF c = "noCache" THEN Dirs ELSE {Absent} :
            /\ final' = [final EXCEPT ![p] = d]
            /\ staging' = [staging EXCEPT ![p] = s]
  /\ pc' = [pc EXCEPT ![p] = "look"]
  /\ UNCHANGED <<layout, written, how, got, embedded>>

\* Mutant: the directory is read without looking for its marker.
HitUnmarked(p) ==
  /\ pc[p] = "look"
  /\ MayRead(p)
  /\ pc' = [pc EXCEPT ![p] = "list"]
  /\ how' = [how EXCEPT ![p] = "hit"]
  /\ UNCHANGED <<disk, policy, written, got, embedded>>

\* read_cached / read_extracted find the marker: a hit.
Hit(p) ==
  /\ pc[p] = "look"
  /\ MayRead(p) /\ Marker \in Contents(final["cache"])
  /\ pc' = [pc EXCEPT ![p] = "list"]
  /\ how' = [how EXCEPT ![p] = "hit"]
  /\ UNCHANGED <<disk, policy, written, got, embedded>>

Miss(p) ==
  /\ pc[p] = "look"
  /\ ~(MayRead(p) /\ Marker \in Contents(final["cache"]))
  /\ pc' = [pc EXCEPT ![p] = "open"]
  /\ UNCHANGED <<disk, policy, written, how, got, embedded>>

\* What remove_dir_all may leave of a directory: nothing, or what it had not come
\* to when it gave up.  No caller looks at its result.
Leavings(d) == IF d = Absent THEN {Absent} ELSE {Absent} \cup SUBSET d

\* The archive's members are read, and what an earlier, interrupted extraction
\* left in the staging directory is removed.
ClearStaging(p) ==
  /\ pc[p] = "open"
  /\ \E d \in Leavings(staging[Place(p)]) :
       staging' = [staging EXCEPT ![Place(p)] = d]
  /\ pc' = [pc EXCEPT ![p] = "create"]
  /\ UNCHANGED <<layout, final, policy, written, how, got, embedded>>

\* create_dir_all: there is a staging directory, whoever made it.
CreateStaging(p) ==
  /\ pc[p] = "create"
  /\ staging' = [staging EXCEPT ![Place(p)] = Contents(@)]
  /\ pc' = [pc EXCEPT ![p] = "write"]
  /\ UNCHANGED <<layout, final, policy, written, how, got, embedded>>

\* Mutant: a member whose write fails counts as written.
WriteMemberOrNot(p, m) ==
  /\ pc[p] = "write"
  /\ m \notin written[p]
  /\ \/ staging' = [staging EXCEPT ![Place(p)] = Contents(@) \cup {m}]
     \/ UNCHANGED staging
  /\ written' = [written EXCEPT ![p] = @ \cup {m}]
  /\ UNCHANGED <<layout, final, pc, policy, how, got, embedded>>

\* One member is written.  A wheel's METADATA is the first, and the only one
\* whose directory is not created again right before it.
WriteMember(p, m) ==
  /\ pc[p] = "write"
  /\ m \notin written[p]
  /\ layout = "wheel" =>
       /\ written[p] = {} <=> m = Marker
       /\ m = Marker => staging[Place(p)] # Absent
  /\ staging' = [staging EXCEPT ![Place(p)] = Contents(@) \cup {m}]
  /\ written' = [written EXCEPT ![p] = @ \cup {m}]
  /\ UNCHANGED <<layout, final, pc, policy, how, got, embedded>>

\* Mutant: the directory is replaced once the marker is written.
StartEvictingEarly(p) ==
  /\ pc[p] = "write"
  /\ Marker \in written[p]
  /\ pc' = [pc EXCEPT ![p] = "evict"]
  /\ UNCHANGED <<disk, policy, written, how, got, embedded>>

\* Every member is written; the old directory goes, file by file.
StartEvicting(p) ==
  /\ pc[p] = "write"
  /\ written[p] = Members
  /\ pc' = [pc EXCEPT ![p] = "evict"]
  /\ UNCHANGED <<disk, policy, written, how, got, embedded>>

EvictMember(p, m) ==
  /\ pc[p] = "evict"
  /\ m \in Contents(final[Place(p)])
  /\ final' = [final EXCEPT ![Place(p)] = @ \ {m}]
  /\ UNCHANGED <<layout, staging, pc, policy, written, how, got, embedded>>

Evicted(p) ==
  /\ pc[p] = "evict"
  /\ Contents(final[Place(p)]) = {}
  /\ final' = [final EXCEPT ![Place(p)] = Absent]
  /\ pc' = [pc EXCEPT ![p] = "rename"]
  /\ UNCHANGED <<layout, staging, policy, written, how, got, embedded>>

\* remove_dir_all gave up on a file.
EvictionFails(p) ==
  /\ pc[p] = "evict"
  /\ Contents(final[Place(p)]) # {}
  /\ pc' = [pc EXCEPT ![p] = "rename"]
  /\ UNCHANGED <<disk, policy, written, how, got, embedded>>

\* The staging directory becomes the directory.  A directory is renamed over
\* none or an empty one only.
Publishable(p) ==
  staging[Place(p)] # Absent /\ Contents(final[Place(p)]) = {}

Publish(p) ==
  /\ pc[p] = "rename"
  /\ Publishable(p)
  /\ final' = [final EXCEPT ![Place(p)] = staging[Place(p)]]
  /\ staging' = [staging EXCEPT ![Place(p)] = Absent]
  /\ pc' = [pc EXCEPT ![p] = IF layout = "conda" THEN "tidy" ELSE "reread"]
  /\ UNCHANGED <<layout, policy, written, how, got, embedded>>

\* write_info_files renames staging/info and then removes what is around it.
Tidy(p) ==
  /\ pc[p] = "tidy"
  /\ \E d \in Leavings(staging[Place(p)]) :
       staging' = [staging EXCEPT ![Place(p)] = d]
  /\ pc' = [pc EXCEPT ![p] = "reread"]
  /\ UNCHANGED <<layout, final, policy, written, how, got, embedded>>

\* `work`: the extracted directory is read like a cached one.
Reread(p) ==
  /\ pc[p] = "reread"
  /\ Marker \in Contents(final[Place(p)])
  /\ pc' = [pc EXCEPT ![p] = "list"]
  /\ how' = [how EXCEPT ![p] = "extracted"]
  /\ UNCHANGED <<disk, policy, written, got, embedded>>

After(p) == IF MayWrite(p) THEN "embed" ELSE "cleanup"

\* Mutant: the directory is collected, and not what is in it.
ListItself(p) ==
  /\ pc[p] = "list"
  /\ got' = [got EXCEPT ![p] = {final[Place(p)]}]
  /\ pc' = [pc EXCEPT ![p] = After(p)]
  /\ UNCHANGED <<disk, policy, written, how, embedded>>

\* The licenses beside the marker are listed and read.
List(p) ==
  /\ pc[p] = "list"
  /\ got' = [got EXCEPT ![p] = Contents(final[Place(p)]) \cup {Marker}]
  /\ pc' = [pc EXCEPT ![p] = After(p)]
  /\ UNCHANGED <<disk, policy, written, how, embedded>>

\* An I/O error ends the call: the download, a write, a rename onto a directory
\* that is back or from one that is gone, a directory without its marker.
Fail(p) ==
  /\ \/ pc[p] \in {"open", "create", "write"}
     \/ pc[p] = "rename" /\ ~Publishable(p)
     \/ pc[p] = "reread" /\ Marker \notin Contents(final[Place(p)])
  /\ how' = [how EXCEPT ![p] = "failed"]
  /\ pc' = [pc EXCEPT ![p] = After(p)]
  /\ UNCHANGED <<disk, policy, written, got, embedded>>

\* extract_into_where removes the scratch directory and its staging directory,
\* as far as they can be removed.
Cleanup(p) ==
  /\ pc[p] = "cleanup"
  /\ \E d \in Leavings(final[p]) : final' = [final EXCEPT ![p] = d]
  /\ \E d \in Leavings(staging[p]) : staging' = [staging EXCEPT ![p] = d]
  /\ pc' = [pc EXCEPT ![p] = "embed"]
  /\ UNCHANGED <<layout, policy, written, how, got, embedded>>

\* embedded::enrich reads the SBOMs of every wheel from the cache, if the
\* policy lets it read that cache.
Embed(p) ==
  /\ pc[p] = "embed"
  /\ embedded' =
       [embedded EXCEPT ![p] =
          IF layout = "conda" \/ ~MayRead(p) THEN "skipped"
          ELSE IF Sbom \in Contents(final["cache"]) THEN "attached"
          ELSE "missing"]
  /\ pc' = [pc EXCEPT ![p] = "done"]
  /\ UNCHANGED <<disk, policy, written, how, got>>

\* The process is gone; what it had in the cache stays, and what it left of a
\* scratch directory is for Start to find.
Forget(p) ==
  /\ pc' = [pc EXCEPT ![p] = "idle"]
  /\ policy' = [policy EXCEPT ![p] = "noCache"]
  /\ written' = [written EXCEPT ![p] = {}]
  /\ how' = [how EXCEPT ![p] = "none"]
  /\ got' = [got EXCEPT ![p] = {}]
  /\ embedded' = [embedded EXCEPT ![p] = "none"]
  /\ staging' = [staging EXCEPT ![p] = Absent]
  /\ final' = [final EXCEPT ![p] = Absent]
  /\ UNCHANGED layout

Finish(p) == pc[p] = "done" /\ Forget(p)

Crash(p) == pc[p] \notin {"idle", "done"} /\ Forget(p)

Step(p) ==
  \/ Start(p) \/ Hit(p) \/ Miss(p) \/ ClearStaging(p) \/ CreateStaging(p)
  \/ \E m \in Members : WriteMember(p, m) \/ EvictMember(p, m)
  \/ StartEvicting(p) \/ Evicted(p) \/ EvictionFails(p) \/ Publish(p)
  \/ Tidy(p) \/ Reread(p) \/ List(p) \/ Fail(p) \/ Cleanup(p) \/ Embed(p)
  \/ Finish(p) \/ Crash(p)

Next == \E p \in Procs : Step(p)

Spec == Init /\ [][Next]_vars

-----------------------------------------------------------------------------
\* Every variable has its type.
TypeOK ==
  /\ layout \in Layouts
  /\ staging \in [Places -> Dirs]
  /\ final \in [Places -> Dirs]
  /\ pc \in [Procs -> {"idle", "look", "open", "create", "write", "evict",
                       "rename", "tidy", "reread", "list", "cleanup", "embed",
                       "done"}]
  /\ policy \in [Procs -> {"default", "refresh", "noCache"}]
  /\ written \in [Procs -> SUBSET Members]
  /\ how \in [Procs -> {"none", "hit", "extracted", "failed"}]
  /\ got \in [Procs -> SUBSET Members]
  /\ embedded \in [Procs -> {"none", "attached", "missing", "skipped"}]

Answered(p) == pc[p] \in {"embed", "done"} /\ how[p] \in {"hit", "extracted"}

\* Staging and renaming keep the cache whole: its directory is not there or
\* holds every member, whenever a run is interrupted, as long as one run at a
\* time writes it and nothing is refreshed.
PublishedIsComplete == final["cache"] \in {Absent, Members}

\* A call that answers has read every license file the archive ships, as
\* docs/cli.md:72 has it ("plus the names of the license files it ships"), and
\* fails otherwise.  Two runs that extract one archive at a time break it.
AnswerIsComplete == \A p \in Procs : Answered(p) => got[p] = Members

\* A --no-cache run answers with every license file whatever the runs that
\* share the cache do to it, and whatever an earlier run of its process id left
\* in the scratch directory.
NoCacheAnswerIsComplete ==
  \A p \in Procs : Answered(p) /\ policy[p] = "noCache" => got[p] = Members

\* No step of a --no-cache run, from the first look to a kill in the middle of a
\* removal, changes anything in the cache, whoever else is at work there.
NoCacheLeavesTheCache ==
  [][\A p \in Procs :
       Step(p) /\ policy[p] = "noCache" =>
         /\ final'["cache"] = final["cache"]
         /\ staging'["cache"] = staging["cache"]]_vars

\* The promise ArchiveStore states, kept by one writer that refreshes nothing:
\* the staging directory, the eviction and the rename are one step.
Said(p) ==
  IF pc[p] \notin {"cleanup", "embed", "done"} \/ how[p] = "none" THEN "nothing"
  ELSE IF how[p] = "failed" THEN "failed"
  ELSE IF got[p] = Members THEN "whole" ELSE "incomplete"

Store == INSTANCE ArchiveStore WITH
  store <- IF final["cache"] = Members THEN "whole" ELSE "absent",
  said <- [p \in Procs |-> Said(p)]

ImplementsStore == Store!Spec

-----------------------------------------------------------------------------
\* How far a process has come, as long as nobody else touches the directories
\* it extracts into: nothing is written before the staging directory is there,
\* what was written is in it, and it holds every member before the rename, as
\* the directory does after it.
Staged(p) ==
  /\ pc[p] \in {"look", "open", "create"} => written[p] = {}
  /\ pc[p] = "write" =>
       staging[Place(p)] # Absent /\ written[p] \subseteq staging[Place(p)]
  /\ pc[p] \in {"evict", "rename"} => staging[Place(p)] = Members
  /\ pc[p] \in {"tidy", "reread", "list"} => final[Place(p)] = Members
  /\ pc[p] \in {"cleanup", "embed", "done"} /\ how[p] \in {"hit", "extracted"} =>
       got[p] = Members

\* Whatever the runs that share the cache do, and whatever a scratch directory
\* held before, a --no-cache run has what it staged.
ScratchInv ==
  \A p \in Procs : policy[p] = "noCache" /\ pc[p] # "idle" => Staged(p)

\* With one writer that refreshes nothing, so does the writer, and it extracts
\* into a directory that is not there.
WriterIsAlone(p) ==
  /\ policy[p] \in {"default", "noCache"}
  /\ policy[p] # "noCache" =>
       /\ p \in Writers
       /\ Staged(p)
       /\ pc[p] \in {"open", "create", "write", "evict", "rename"} =>
            final["cache"] = Absent

\* Nothing is written by a process that has not begun.
IdleInv == \A p \in Procs : pc[p] = "idle" => written[p] = {}

OneWriterInv ==
  /\ PublishedIsComplete
  /\ \A p \in Procs : WriterIsAlone(p)
=============================================================================

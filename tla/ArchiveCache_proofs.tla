------------------------- MODULE ArchiveCache_proofs -------------------------
(***************************************************************************)
(* Proofs about ArchiveCache: for any number of processes a --no-cache run  *)
(* extracts undisturbed and leaves the cache alone, and with one writer     *)
(* that refreshes nothing the cache implements ArchiveStore.                *)
(***************************************************************************)
EXTENDS ArchiveCache, TLAPS

\* What a directory can become is a directory.
LEMMA DirsAreClosed ==
  /\ Absent \in Dirs /\ Members \in Dirs
  /\ \A d \in Dirs : Contents(d) \in Dirs /\ Contents(d) \subseteq Members
  /\ \A d \in Dirs, m \in Members :
       Contents(d) \cup {m} \in Dirs /\ (m \in Contents(d) => d \ {m} \in Dirs)
  /\ \A d \in Dirs : Leavings(d) \subseteq Dirs
BY DEF Dirs, Contents, Leavings

\* The directories keep their type through every step of the extraction.
LEMMA DisksAreDirs ==
  ASSUME TypeOK, NEW p \in Procs, Step(p)
  PROVE  staging' \in [Places -> Dirs] /\ final' \in [Places -> Dirs]
<1> USE DirsAreClosed DEF TypeOK, disk
<1>0. Place(p) \in Places
  BY DEF Place, Places
<1>1. CASE Hit(p) \/ Miss(p) \/ StartEvicting(p) \/ EvictionFails(p)
             \/ Reread(p) \/ List(p) \/ Fail(p) \/ Embed(p)
  BY <1>1 DEF Hit, Miss, StartEvicting, EvictionFails, Reread, List, Fail, Embed
<1>10. CASE Start(p)
  <2>1. \E d, s \in Dirs : /\ final' = [final EXCEPT ![p] = d]
                          /\ staging' = [staging EXCEPT ![p] = s]
    BY <1>10 DEF Start
  <2> QED
    BY <2>1
<1>2. CASE ClearStaging(p) \/ Tidy(p)
  <2>1. staging[Place(p)] \in Dirs
    BY <1>0
  <2> QED
    BY <1>2, <2>1 DEF ClearStaging, Tidy
<1>3. CASE CreateStaging(p)
  BY <1>0, <1>3 DEF CreateStaging
<1>4. ASSUME NEW m \in Members, WriteMember(p, m)
      PROVE  staging' \in [Places -> Dirs] /\ final' \in [Places -> Dirs]
  BY <1>0, <1>4 DEF WriteMember
<1>5. ASSUME NEW m \in Members, EvictMember(p, m)
      PROVE  staging' \in [Places -> Dirs] /\ final' \in [Places -> Dirs]
  BY <1>0, <1>5 DEF EvictMember
<1>6. CASE Evicted(p)
  BY <1>6 DEF Evicted
<1>7. CASE Publish(p)
  BY <1>0, <1>7 DEF Publish
<1>8. CASE Cleanup(p)
  <2>1. staging[p] \in Dirs /\ final[p] \in Dirs
    BY DEF Places
  <2> QED
    BY <1>8, <2>1 DEF Cleanup
<1>9. CASE Finish(p) \/ Crash(p)
  BY <1>9 DEF Finish, Crash, Forget
<1> QED
  BY <1>1, <1>2, <1>3, <1>4, <1>5, <1>6, <1>7, <1>8, <1>9, <1>10 DEF Step

\* So do the frames of the processes.
LEMMA FramesAreTyped ==
  ASSUME TypeOK, NEW p \in Procs, Step(p)
  PROVE  TypeOK'
<1> USE ArchiveCacheAssumption, DisksAreDirs DEF TypeOK, disk
<1>1. CASE Start(p)
  BY <1>1 DEF Start
<1>2. CASE Hit(p) \/ Miss(p) \/ ClearStaging(p) \/ Tidy(p) \/ CreateStaging(p)
  BY <1>2 DEF Hit, Miss, ClearStaging, Tidy, CreateStaging
<1>3. ASSUME NEW m \in Members, WriteMember(p, m) \/ EvictMember(p, m)
      PROVE  TypeOK'
  BY <1>3 DEF WriteMember, EvictMember
<1>4. CASE StartEvicting(p) \/ Evicted(p) \/ EvictionFails(p) \/ Publish(p)
             \/ Reread(p)
  BY <1>4 DEF StartEvicting, Evicted, EvictionFails, Publish, Reread
<1>5. CASE List(p)
  <2>1. final["cache"] \in Dirs /\ final[Place(p)] \in Dirs
    BY DEF Place, Places
  <2>2. Contents(final[Place(p)]) \cup {Marker} \subseteq Members
    BY <2>1, DirsAreClosed
  <2> QED
    BY <1>5, <2>2 DEF List, After
<1>6. CASE Fail(p) \/ Cleanup(p) \/ Embed(p)
  BY <1>6 DEF Fail, Cleanup, Embed, After
<1>7. CASE Finish(p) \/ Crash(p)
  BY <1>7 DEF Finish, Crash, Forget
<1> QED
  BY <1>1, <1>2, <1>3, <1>4, <1>5, <1>6, <1>7 DEF Step

\* Every variable keeps its type (wheel.rs, condaarchive.rs, cache.rs).
THEOREM TypeCorrect == Spec => []TypeOK
<1>1. Init => TypeOK
  BY ArchiveCacheAssumption DEF Init, TypeOK, Places, Dirs
<1>2. TypeOK /\ [Next]_vars => TypeOK'
  <2> SUFFICES ASSUME TypeOK, [Next]_vars PROVE TypeOK'
    OBVIOUS
  <2>1. CASE Next
    BY <2>1, FramesAreTyped DEF Next
  <2>2. CASE UNCHANGED vars
    BY <2>2 DEF vars, disk, TypeOK
  <2> QED
    BY <2>1, <2>2
<1> QED
  BY <1>1, <1>2, PTL DEF Spec

-----------------------------------------------------------------------------
\* A step of one process leaves the frame and the scratch directories of the
\* others alone.
LEMMA OtherFrames ==
  ASSUME TypeOK, NEW k \in Procs, Step(k), NEW l \in Procs, l # k
  PROVE  /\ pc'[l] = pc[l] /\ policy'[l] = policy[l]
         /\ written'[l] = written[l] /\ how'[l] = how[l] /\ got'[l] = got[l]
         /\ staging'[l] = staging[l] /\ final'[l] = final[l]
<1>0. Place(k) # l /\ Place(k) \in Places /\ l \in Places
  BY ArchiveCacheAssumption DEF Place, Places
<1> USE <1>0 DEF TypeOK, disk
<1>1. CASE Hit(k) \/ Miss(k) \/ StartEvicting(k) \/ EvictionFails(k)
             \/ Reread(k) \/ List(k) \/ Fail(k) \/ Embed(k)
  BY <1>1 DEF Hit, Miss, StartEvicting, EvictionFails, Reread, List, Fail, Embed
<1>5. CASE Start(k)
  BY <1>5 DEF Start
<1>2. CASE ClearStaging(k) \/ CreateStaging(k) \/ Evicted(k) \/ Publish(k)
             \/ Tidy(k) \/ Cleanup(k)
  <2>1. CASE ClearStaging(k) \/ CreateStaging(k)
    BY <2>1 DEF ClearStaging, CreateStaging
  <2>2. CASE Evicted(k) \/ Publish(k)
    BY <2>2 DEF Evicted, Publish
  <2>3. CASE Tidy(k) \/ Cleanup(k)
    BY <2>3 DEF Tidy, Cleanup
  <2> QED BY <1>2, <2>1, <2>2, <2>3
<1>3. CASE \E m \in Members : WriteMember(k, m) \/ EvictMember(k, m)
  BY <1>3 DEF WriteMember, EvictMember
<1>4. CASE Finish(k) \/ Crash(k)
  BY <1>4 DEF Finish, Crash, Forget
<1> QED
  BY <1>1, <1>2, <1>3, <1>4, <1>5 DEF Step

\* A step of a --no-cache process leaves the cache alone.
LEMMA NoCacheStep ==
  ASSUME TypeOK, NEW k \in Procs, Step(k), policy[k] = "noCache"
  PROVE  staging'["cache"] = staging["cache"] /\ final'["cache"] = final["cache"]
<1> USE ArchiveCacheAssumption DEF TypeOK, Places, Place, MayWrite, disk
<1>1. CASE Hit(k) \/ Miss(k) \/ StartEvicting(k) \/ EvictionFails(k)
             \/ Reread(k) \/ List(k) \/ Fail(k) \/ Embed(k)
  BY <1>1 DEF Hit, Miss, StartEvicting, EvictionFails, Reread, List, Fail, Embed
<1>5. CASE Start(k)
  BY <1>5 DEF Start
<1>2. CASE ClearStaging(k) \/ CreateStaging(k) \/ Evicted(k) \/ Publish(k)
             \/ Tidy(k) \/ Cleanup(k)
  <2>1. CASE ClearStaging(k) \/ CreateStaging(k)
    BY <2>1 DEF ClearStaging, CreateStaging
  <2>2. CASE Evicted(k) \/ Publish(k)
    BY <2>2 DEF Evicted, Publish
  <2>3. CASE Tidy(k) \/ Cleanup(k)
    BY <2>3 DEF Tidy, Cleanup
  <2> QED BY <1>2, <2>1, <2>2, <2>3
<1>3. CASE \E m \in Members : WriteMember(k, m) \/ EvictMember(k, m)
  BY <1>3 DEF WriteMember, EvictMember
<1>4. CASE Finish(k) \/ Crash(k)
  BY <1>4 DEF Finish, Crash, Forget
<1> QED
  BY <1>1, <1>2, <1>3, <1>4, <1>5 DEF Step

\* The steps of a process, but for its first and its last, keep its policy.
LEMMA PolicyStays ==
  ASSUME NEW p \in Procs, Step(p), pc[p] # "idle", pc'[p] # "idle", TypeOK
  PROVE  /\ policy'[p] = policy[p] /\ Place(p)' = Place(p) /\ Place(p) \in Places
         /\ pc'[p] # "look"
<1> USE DEF TypeOK
<1>1. policy'[p] = policy[p] /\ pc'[p] # "look"
  BY DEF Step, Start, Hit, Miss, ClearStaging, CreateStaging, WriteMember,
         EvictMember, StartEvicting, Evicted, EvictionFails, Publish, Tidy,
         Reread, List, Fail, After, Cleanup, Embed, Finish, Crash, Forget
<1> QED
  BY <1>1 DEF Place, Places, MayWrite

\* The extraction itself, in a directory nobody else touches.  Of what an
\* extraction before it left there nothing is taken for its own.
LEMMA OwnStep ==
  ASSUME TypeOK, NEW p \in Procs, Step(p), pc[p] # "idle", pc'[p] # "idle",
         Staged(p),
         policy[p] \in {"default", "noCache"},
         pc[p] = "look" /\ policy[p] = "default" =>
           final["cache"] \in {Absent, Members}
  PROVE  Staged(p)'
<1> USE ArchiveCacheAssumption DEF TypeOK, Places, Dirs, Staged, disk
<1>0. policy'[p] = policy[p] /\ Place(p)' = Place(p) /\ Place(p) \in Places
  BY PolicyStays
<1>1. CASE Start(p)
  BY <1>1 DEF Start
<1>2. CASE Hit(p)
  BY <1>0, <1>2 DEF Hit, Contents, MayRead, Place, MayWrite
<1>3. CASE Miss(p)
  BY <1>0, <1>3 DEF Miss
<1>4. CASE ClearStaging(p)
  BY <1>0, <1>4 DEF ClearStaging
<1>5. CASE CreateStaging(p)
  BY <1>0, <1>5 DEF CreateStaging, Contents
<1>6. ASSUME NEW m \in Members, WriteMember(p, m) PROVE Staged(p)'
  BY <1>0, <1>6 DEF WriteMember, Contents
<1>7. ASSUME NEW m \in Members, EvictMember(p, m) PROVE Staged(p)'
  BY <1>0, <1>7 DEF EvictMember
<1>8. CASE StartEvicting(p)
  <2>1. staging[Place(p)] \in SUBSET Members /\ Members \subseteq staging[Place(p)]
    BY <1>0, <1>8 DEF StartEvicting
  <2>2. staging[Place(p)] = Members
    BY <2>1
  <2> QED
    BY <1>0, <1>8, <2>2 DEF StartEvicting
<1>18. CASE EvictionFails(p)
  BY <1>0, <1>18 DEF EvictionFails
<1>9. CASE Evicted(p)
  BY <1>0, <1>9 DEF Evicted
<1>10. CASE Publish(p)
  BY <1>0, <1>10 DEF Publish
<1>11. CASE Tidy(p)
  BY <1>0, <1>11 DEF Tidy
<1>12. CASE Reread(p)
  BY <1>0, <1>12 DEF Reread
<1>13. CASE List(p)
  BY <1>0, <1>13 DEF List, Contents, After
<1>14. CASE Fail(p)
  BY <1>0, <1>14 DEF Fail, After
<1>15. CASE Cleanup(p)
  BY <1>0, <1>15 DEF Cleanup
<1>16. CASE Embed(p)
  BY <1>0, <1>16 DEF Embed
<1>17. CASE Finish(p) \/ Crash(p)
  BY <1>17 DEF Finish, Crash, Forget
<1> QED
  BY <1>1, <1>2, <1>3, <1>4, <1>5, <1>6, <1>7, <1>8, <1>9, <1>10, <1>11, <1>12,
     <1>13, <1>14, <1>15, <1>16, <1>17, <1>18 DEF Step

-----------------------------------------------------------------------------
\* A process begins and ends with nothing written.
LEMMA EndsAreEmpty ==
  ASSUME TypeOK, NEW p \in Procs, Step(p), pc[p] = "idle" => written[p] = {}
  PROVE  /\ pc'[p] = "idle" => written'[p] = {} /\ Forget(p)
         /\ pc[p] = "idle" => Start(p) /\ Staged(p)'
<1> USE DEF TypeOK
<1>1. pc'[p] = "idle" => Forget(p)
  BY DEF Step, Start, Hit, Miss, ClearStaging, CreateStaging, WriteMember,
     EvictMember, StartEvicting, Evicted, EvictionFails, Publish, Tidy, Reread,
     List, Fail, After, Cleanup, Embed, Finish, Crash
<1>2. Forget(p) => written'[p] = {}
  BY DEF Forget
<1>3. pc[p] = "idle" => Start(p)
  BY DEF Step, Hit, Miss, ClearStaging, CreateStaging, WriteMember, EvictMember,
     StartEvicting, Evicted, EvictionFails, Publish, Tidy, Reread, List, Fail,
     Cleanup, Embed, Finish, Crash
<1>4. Start(p) => Staged(p)'
  BY DEF Start, Staged
<1> QED
  BY <1>1, <1>2, <1>3, <1>4

\* Every process begins with nothing written, also the one after a kill
\* (wheel.rs, extract).
THEOREM IdleHolds == Spec => []IdleInv
<1>1. Init => IdleInv
  BY DEF Init, IdleInv
<1>2. TypeOK /\ IdleInv /\ [Next]_vars => IdleInv'
  <2> SUFFICES ASSUME TypeOK, IdleInv, [Next]_vars, NEW l \in Procs,
                      pc'[l] = "idle"
               PROVE  written'[l] = {}
    BY DEF IdleInv
  <2>1. ASSUME NEW k \in Procs, Step(k) PROVE written'[l] = {}
    BY <2>1, OtherFrames, EndsAreEmpty DEF IdleInv
  <2>2. CASE UNCHANGED vars
    BY <2>2 DEF vars, IdleInv
  <2> QED
    BY <2>1, <2>2 DEF Next
<1> QED
  BY <1>1, <1>2, TypeCorrect, PTL DEF Spec

\* Whatever the processes that share the cache do, the scratch directory of a
\* --no-cache run (cache.rs, extract_into_where) holds what the run extracted,
\* also where an earlier run of its process id left its own there.
THEOREM ScratchHolds == Spec => []ScratchInv
<1>1. Init => ScratchInv
  BY DEF Init, ScratchInv
<1>2. TypeOK /\ IdleInv /\ ScratchInv /\ [Next]_vars => ScratchInv'
  <2> SUFFICES ASSUME TypeOK, IdleInv, ScratchInv, [Next]_vars, NEW l \in Procs,
                      policy'[l] = "noCache", pc'[l] # "idle"
               PROVE  Staged(l)'
    BY DEF ScratchInv
  <2>1. ASSUME NEW k \in Procs, Step(k) PROVE Staged(l)'
    <3>1. CASE k = l /\ pc[l] = "idle"
      BY <2>1, <3>1, EndsAreEmpty DEF IdleInv
    <3>2. CASE k = l /\ pc[l] # "idle"
      <4>1. policy[l] = "noCache"
        BY <2>1, <3>2, PolicyStays
      <4> QED
        BY <2>1, <3>2, <4>1, OwnStep DEF ScratchInv
    <3>3. CASE k # l
      BY <2>1, <3>3, OtherFrames DEF ScratchInv, Staged, Place, MayWrite
    <3> QED
      BY <3>1, <3>2, <3>3
  <2>2. CASE UNCHANGED vars
    BY <2>2 DEF vars, disk, ScratchInv, Staged, Place, MayWrite
  <2> QED
    BY <2>1, <2>2 DEF Next
<1> QED
  BY <1>1, <1>2, TypeCorrect, IdleHolds, PTL DEF Spec

\* A --no-cache run that answers has read every license file, although other
\* runs write, evict and abandon the cache's directories meanwhile.
THEOREM NoCacheIsComplete == Spec => []NoCacheAnswerIsComplete
<1>1. ScratchInv => NoCacheAnswerIsComplete
  BY DEF ScratchInv, Staged, NoCacheAnswerIsComplete, Answered
<1> QED
  BY <1>1, ScratchHolds, PTL

\* And none of its steps changes anything in the cache, whether it extracts, fails,
\* cleans up or is killed.
THEOREM NoCacheWritesNothing == Spec => NoCacheLeavesTheCache
<1>1. TypeOK /\ [Next]_vars =>
        [\A p \in Procs :
           Step(p) /\ policy[p] = "noCache" =>
             /\ final'["cache"] = final["cache"]
             /\ staging'["cache"] = staging["cache"]]_vars
  BY NoCacheStep
<1> QED
  BY <1>1, TypeCorrect, PTL DEF Spec, NoCacheLeavesTheCache

-----------------------------------------------------------------------------
\* One writer, which refreshes nothing.
OneWriter == "refresh" \notin Allowed /\ \A p, q \in Writers : p = q

\* A step of the only process that may write.
LEMMA WriterStep ==
  ASSUME OneWriter, TypeOK, IdleInv, OneWriterInv, NEW k \in Procs, Step(k)
  PROVE  WriterIsAlone(k)' /\ PublishedIsComplete'
<1> USE ArchiveCacheAssumption DEF TypeOK, Places
<1>0. WriterIsAlone(k) /\ PublishedIsComplete
  BY DEF OneWriterInv
<1>1. CASE pc[k] = "idle"
  <2>1. Start(k) /\ Staged(k)'
    BY <1>1, EndsAreEmpty DEF IdleInv
  <2>2. policy'[k] \in {"default", "noCache"}
          /\ (policy'[k] # "noCache" => k \in Writers)
    BY <2>1 DEF Start, OneWriter
  <2> QED
    BY <1>0, <2>1, <2>2 DEF Start, WriterIsAlone, PublishedIsComplete
<1>2. CASE pc[k] # "idle" /\ pc'[k] = "idle"
  <2>1. Forget(k)
    BY <1>2, EndsAreEmpty
  <2> QED
    BY <1>0, <2>1 DEF Forget, WriterIsAlone, PublishedIsComplete
<1>3. CASE pc[k] # "idle" /\ pc'[k] # "idle" /\ policy[k] = "noCache"
  <2>1. policy'[k] = policy[k]
    BY <1>3, PolicyStays
  <2> QED
    BY <1>0, <1>3, <2>1, NoCacheStep DEF WriterIsAlone, PublishedIsComplete
<1>4. CASE pc[k] # "idle" /\ pc'[k] # "idle" /\ policy[k] # "noCache"
  <2>1. policy'[k] = policy[k]
    BY <1>4, PolicyStays
  <2>2. Staged(k) /\ policy[k] = "default" /\ Place(k) = "cache"
    BY <1>0, <1>4 DEF WriterIsAlone, Place, MayWrite
  <2>3. Staged(k)'
    BY <1>0, <1>4, <2>2, OwnStep DEF PublishedIsComplete
  <2>4. ASSUME NEW m \in Members, EvictMember(k, m) PROVE FALSE
    BY <1>0, <2>2, <2>4 DEF EvictMember, WriterIsAlone, Contents
  <2>5. CASE Publish(k)
    BY <1>0, <1>4, <2>1, <2>2, <2>3, <2>5
    DEF Publish, Staged, PublishedIsComplete, WriterIsAlone
  <2>6. CASE Evicted(k)
    BY <1>0, <1>4, <2>1, <2>2, <2>3, <2>6
    DEF Evicted, PublishedIsComplete, WriterIsAlone
  <2>7. CASE Cleanup(k)
    BY <1>0, <1>4, <2>1, <2>3, <2>7 DEF Cleanup, PublishedIsComplete, WriterIsAlone
  <2>8. CASE Miss(k)
    BY <1>0, <1>4, <2>1, <2>2, <2>3, <2>8
    DEF Miss, MayRead, Contents, PublishedIsComplete, WriterIsAlone, disk
  <2>9. CASE ~(Publish(k) \/ Evicted(k) \/ Cleanup(k) \/ Miss(k))
    <3>1. /\ final'["cache"] = final["cache"]
          /\ pc'[k] \in {"open", "create", "write", "evict", "rename"} =>
               pc[k] \in {"open", "create", "write", "evict", "rename"}
      BY <1>4, <2>4, <2>9 DEF Step, Start, Hit, ClearStaging,
         CreateStaging, WriteMember, StartEvicting, EvictionFails, Tidy, Reread,
         List, Fail, After, Embed, Finish, Crash, Forget, disk
    <3> QED
      BY <1>0, <1>4, <2>1, <2>3, <3>1 DEF PublishedIsComplete, WriterIsAlone
  <2> QED
    BY <2>5, <2>6, <2>7, <2>8, <2>9
<1> QED
  BY <1>1, <1>2, <1>3, <1>4

\* With one writer that refreshes nothing, the cached directory is absent or
\* whole, however often the writer is killed.
THEOREM OneWriterHolds == ASSUME OneWriter PROVE Spec => []OneWriterInv
<1>1. Init => OneWriterInv
  BY ArchiveCacheAssumption
  DEF Init, OneWriterInv, PublishedIsComplete, WriterIsAlone, Places
<1>2. TypeOK /\ IdleInv /\ OneWriterInv /\ [Next]_vars => OneWriterInv'
  <2> SUFFICES ASSUME TypeOK, IdleInv, OneWriterInv, [Next]_vars
               PROVE  OneWriterInv'
    OBVIOUS
  <2>1. ASSUME NEW k \in Procs, Step(k) PROVE OneWriterInv'
    <3>1. WriterIsAlone(k)' /\ PublishedIsComplete'
      BY <2>1, WriterStep
    <3>2. ASSUME NEW l \in Procs, l # k PROVE WriterIsAlone(l)'
      <4>1. WriterIsAlone(l) /\ WriterIsAlone(k)
        BY DEF OneWriterInv
      <4>2. CASE policy[l] = "noCache"
        BY <2>1, <3>2, <4>1, <4>2, OtherFrames DEF WriterIsAlone
      <4>3. CASE policy[l] # "noCache"
        <5>1. policy[k] = "noCache"
          BY <3>2, <4>1, <4>3 DEF WriterIsAlone, OneWriter
        <5> QED
          BY <2>1, <3>2, <4>1, <4>3, <5>1, OtherFrames, NoCacheStep
          DEF WriterIsAlone, Staged, Place, MayWrite
      <4> QED
        BY <4>2, <4>3
    <3> QED
      BY <3>1, <3>2 DEF OneWriterInv
  <2>2. CASE UNCHANGED vars
    BY <2>2 DEF vars, disk, OneWriterInv, PublishedIsComplete, WriterIsAlone,
       Staged, Place, MayWrite
  <2> QED
    BY <2>1, <2>2 DEF Next
<1> QED
  BY <1>1, <1>2, TypeCorrect, IdleHolds, PTL DEF Spec

\* No interrupted extraction is ever taken for a complete one.
THEOREM CacheIsWhole == ASSUME OneWriter PROVE Spec => []PublishedIsComplete
<1>1. OneWriterInv => PublishedIsComplete
  BY DEF OneWriterInv
<1> QED
  BY <1>1, OneWriterHolds, PTL

\* Every call that answers has read every license file of the archive.
THEOREM AnswersAreComplete == ASSUME OneWriter PROVE Spec => []AnswerIsComplete
<1>1. ScratchInv /\ OneWriterInv => AnswerIsComplete
  BY DEF ScratchInv, OneWriterInv, WriterIsAlone, Staged, AnswerIsComplete,
     Answered
<1> QED
  BY <1>1, ScratchHolds, OneWriterHolds, PTL

-----------------------------------------------------------------------------
\* What the caller of a process has heard changes when the process answers,
\* fails or ends, and at no other step.
LEMMA StepSays ==
  ASSUME OneWriter, TypeOK, OneWriterInv, ScratchInv, NEW p \in Procs, Step(p)
  PROVE  \/ Said(p)' = Said(p)
         \/ Said(p) = "nothing" /\ Said(p)' \in {"whole", "failed"}
         \/ Forget(p) /\ Said(p)' = "nothing"
<1> USE ArchiveCacheAssumption DEF TypeOK, Said
<1>0. policy[p] \in {"default", "noCache"}
        /\ (policy[p] # "noCache" \/ pc[p] # "idle" => Staged(p))
  BY DEF OneWriterInv, WriterIsAlone, ScratchInv
<1>1. CASE Finish(p) \/ Crash(p)
  BY <1>1 DEF Finish, Crash, Forget
<1>2. CASE List(p)
  <2>1. final[Place(p)] = Members
    BY <1>0, <1>2 DEF List, Staged
  <2> QED
    BY <1>2, <2>1 DEF List, After, Contents, disk
<1>3. CASE Fail(p)
  BY <1>3 DEF Fail, After
<1>4. CASE ~(Finish(p) \/ Crash(p) \/ List(p) \/ Fail(p))
  <2>1. CASE Cleanup(p) \/ Embed(p)
    BY <2>1 DEF Cleanup, Embed
  <2>2. CASE ~(Cleanup(p) \/ Embed(p))
    BY <1>4, <2>2 DEF Step, Start, Hit, Miss, ClearStaging, CreateStaging,
       WriteMember, EvictMember, StartEvicting, Evicted, EvictionFails, Publish,
       Tidy, Reread, disk
  <2> QED
    BY <2>1, <2>2
<1> QED
  BY <1>1, <1>2, <1>3, <1>4

\* The cache's directory changes when the staging directory is renamed to it,
\* and at no other step of a run that refreshes nothing.
LEMMA StepStores ==
  ASSUME OneWriter, TypeOK, OneWriterInv, ScratchInv, NEW p \in Procs, Step(p),
         final'["cache"] # final["cache"]
  PROVE  /\ final["cache"] = Absent /\ final'["cache"] = Members
         /\ Publish(p)
<1> USE ArchiveCacheAssumption DEF TypeOK, Places
<1>1. policy[p] # "noCache"
  BY NoCacheStep
<1>2. /\ policy[p] = "default" /\ Staged(p) /\ Place(p) = "cache"
      /\ pc[p] \in {"open", "create", "write", "evict", "rename"} =>
           final["cache"] = Absent
  BY <1>1 DEF OneWriterInv, WriterIsAlone, Place, MayWrite
<1>3. CASE Publish(p)
  BY <1>2, <1>3 DEF Publish, Staged
<1>4. CASE ~Publish(p)
  <2>1. ~Evicted(p)
    BY <1>2 DEF Evicted
  <2>2. \A m \in Members : ~EvictMember(p, m)
    BY <1>2 DEF EvictMember, Contents
  <2> QED
    BY <1>4, <2>1, <2>2 DEF Step, Start, Hit, Miss, ClearStaging, CreateStaging,
       WriteMember, StartEvicting, EvictionFails, Tidy, Reread, List, Fail,
       Cleanup, Embed, Finish, Crash, Forget, disk
<1> QED
  BY <1>3, <1>4

\* With one writer that refreshes nothing the cache keeps the promise of
\* ArchiveStore: staging, eviction and rename are seen as one step.
THEOREM Implementation == ASSUME OneWriter PROVE Spec => ImplementsStore
<1>1. Init => Store!Init
  BY ArchiveCacheAssumption DEF Init, Store!Init, Said, Places
<1>2. TypeOK /\ ScratchInv /\ OneWriterInv /\ PublishedIsComplete' /\ [Next]_vars
        => [Store!Next]_(Store!storeVars)
  <2> SUFFICES ASSUME TypeOK, ScratchInv, OneWriterInv, PublishedIsComplete',
                      [Next]_vars
               PROVE  [Store!Next]_(Store!storeVars)
    OBVIOUS
  <2> DEFINE stored == IF final["cache"] = Members THEN "whole" ELSE "absent"
             spoken == [p \in Procs |-> Said(p)]
  <2>1. ASSUME NEW p \in Procs, Step(p) PROVE [Store!Next]_(Store!storeVars)
    <3>1. \A l \in Procs : l # p => Said(l)' = Said(l)
      BY <2>1, OtherFrames DEF Said
    <3>2. spoken' = [spoken EXCEPT ![p] = Said(p)']
      BY <3>1
    <3>3. CASE final'["cache"] # final["cache"]
      <4>1. stored = "absent" /\ stored' = "whole" /\ Publish(p)
        BY <2>1, <3>3, StepStores, ArchiveCacheAssumption
      <4>2. Said(p)' = Said(p)
        BY <4>1 DEF Publish, Said, TypeOK
      <4>3. spoken' = spoken
        BY <3>1, <4>2
      <4> QED
        BY <4>1, <4>3 DEF Store!Next, Store!Keep
    <3>4. CASE final'["cache"] = final["cache"]
      <4>1. stored' = stored
        BY <3>4
      <4>2. CASE Said(p)' = Said(p)
        BY <3>1, <4>1, <4>2 DEF Store!storeVars
      <4>3. CASE Said(p) = "nothing" /\ Said(p)' = "whole"
        BY <3>2, <4>1, <4>3 DEF Store!Next, Store!Answer
      <4>4. CASE Said(p) = "nothing" /\ Said(p)' = "failed"
        BY <3>2, <4>1, <4>4 DEF Store!Next, Store!Refuse
      <4>5. CASE Said(p)' = "nothing"
        BY <3>2, <4>1, <4>5 DEF Store!Next, Store!Restart
      <4> QED
        BY <2>1, <4>2, <4>3, <4>4, <4>5, StepSays
    <3> QED
      BY <3>3, <3>4
  <2>2. CASE UNCHANGED vars
    BY <2>2 DEF vars, disk, Store!storeVars, Said
  <2> QED
    BY <2>1, <2>2 DEF Next
<1> QED
  BY <1>1, <1>2, TypeCorrect, ScratchHolds, OneWriterHolds, CacheIsWhole, PTL
  DEF Spec, ImplementsStore, Store!Spec
=============================================================================

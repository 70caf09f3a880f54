--------------------------- MODULE DocCache_proofs ---------------------------
(***************************************************************************)
(* Proofs about DocCache, for any number of loaders, any lifetime and any   *)
(* write lag: the file's modification time dates its text, so a copy that   *)
(* passes for fresh is fresh, and no caller is handed an expired document   *)
(* it was not told about.                                                   *)
(***************************************************************************)
EXTENDS DocCache, TLAPS

\* Every variable keeps its type (the loaders of mapping.rs, kev.rs and
\* scorecard.rs, and the file they share).
THEOREM TypeCorrect == Spec => []TypeOK
<1>1. Init => TypeOK
  BY DocCacheAssumption DEF Init, TypeOK, Time, Texts, Policies
<1>2. TypeOK /\ [Next]_vars => TypeOK'
  <2> SUFFICES ASSUME TypeOK, [Next]_vars PROVE TypeOK'
    OBVIOUS
  <2> USE DocCacheAssumption DEF TypeOK, Texts, Policies
  <2>1. CASE Tick
    BY <2>1 DEF Tick, Time
  <2>2. ASSUME NEW l \in Loaders, Step(l) PROVE TypeOK'
    <3>1. CASE Start(l)
      BY <3>1 DEF Start, disk
    <3>2. CASE ReadText(l)
      BY <3>2 DEF ReadText, disk
    <3>3. CASE Hit(l)
      BY <3>3 DEF Hit, Conclude, Parses, disk
    <3>4. CASE Miss(l)
      BY <3>4 DEF Miss, disk
    <3>5. ASSUME NEW b \in {clock, Bad}, Fetch(l, b) PROVE TypeOK'
      BY <3>5 DEF Fetch, Conclude, Parses, disk
    <3>6. CASE FetchFails(l)
      BY <3>6 DEF FetchFails, Conclude, Parses, SaysStale, disk
    <3>7. CASE Open(l)
      BY <3>7 DEF Open
    <3>8. CASE OpenFails(l)
      BY <3>8 DEF OpenFails, Conclude, Parses, disk
    <3>9. CASE Fill(l)
      BY <3>9 DEF Fill, Conclude, Parses
    <3>10. CASE FillFails(l)
      BY <3>10 DEF FillFails, Conclude, Parses
    <3>11. CASE Finish(l)
      BY <3>11 DEF Finish, Forget, disk, Time
    <3>12. CASE Crash(l)
      BY <3>12 DEF Crash, Forget, disk, Time
    <3> QED
      BY <2>2, <3>1, <3>2, <3>3, <3>4, <3>5, <3>6, <3>7, <3>8, <3>9, <3>10,
         <3>11, <3>12 DEF Step
  <2>3. CASE UNCHANGED vars
    BY <2>3 DEF vars, disk
  <2> QED
    BY <2>1, <2>2, <2>3 DEF Next
<1> QED
  BY <1>1, <1>2, PTL DEF Spec

-----------------------------------------------------------------------------
\* A step of one loader leaves the frames of the others alone.
LEMMA OtherFrames ==
  ASSUME TypeOK, NEW k \in Loaders, Step(k), NEW l \in Loaders, l # k
  PROVE  /\ clock' = clock /\ service' = service
         /\ pc'[l] = pc[l] /\ policy'[l] = policy[l] /\ offline'[l] = offline[l]
         /\ now'[l] = now[l] /\ text'[l] = text[l] /\ aged'[l] = aged[l]
         /\ body'[l] = body[l] /\ how'[l] = how[l] /\ answer'[l] = answer[l]
         /\ marked'[l] = marked[l]
<1> USE DEF TypeOK, disk
<1>1. CASE Start(k) \/ ReadText(k) \/ Hit(k) \/ Miss(k)
  BY <1>1 DEF Start, ReadText, Hit, Miss, Conclude
<1>2. CASE \E b \in {clock, Bad} : Fetch(k, b)
  BY <1>2 DEF Fetch, Conclude
<1>3. CASE FetchFails(k) \/ Open(k) \/ OpenFails(k)
  BY <1>3 DEF FetchFails, Open, OpenFails, Conclude
<1>4. CASE Fill(k) \/ FillFails(k)
  BY <1>4 DEF Fill, FillFails, Conclude
<1>5. CASE Finish(k) \/ Crash(k)
  BY <1>5 DEF Finish, Crash, Forget
<1> QED
  BY <1>1, <1>2, <1>3, <1>4, <1>5 DEF Step

\* Only a writer touches the file, and it leaves a dated text or none.
LEMMA FileStaysDated ==
  ASSUME TypeOK, DatesInv, NEW k \in Loaders, Step(k)
  PROVE  FileIsDated' /\ OnlyParsedBodiesKept'
<1> USE DocCacheAssumption
    DEF TypeOK, DatesInv, FileIsDated, OnlyParsedBodiesKept, Time, disk
<1>1. CASE Open(k) \/ FillFails(k)
  BY <1>1 DEF Open, FillFails
<1>2. CASE Fill(k)
  <2>1. file'.mtime = clock /\ file'.text \in {Torn, body[k]} /\ service' = service
    BY <1>2 DEF Fill
  <2>2. WriterIsCurrent(k) /\ pc[k] = "fill"
    BY <1>2 DEF Fill
  <2>3. CASE file'.text = Torn
    BY <2>1, <2>3
  <2>4. CASE file'.text = body[k]
    BY <2>1, <2>2, <2>4 DEF WriterIsCurrent, Keeps, Parses
  <2> QED
    BY <2>1, <2>3, <2>4
<1>3. CASE ~(Open(k) \/ FillFails(k) \/ Fill(k))
  <2>1. file' = file /\ service' = service
    BY <1>3 DEF Step, Start, ReadText, Hit, Miss, Fetch, FetchFails, OpenFails,
                Finish, Crash, Forget
  <2> QED
    BY <2>1
<1> QED
  BY <1>1, <1>2, <1>3

\* What a loader's own step makes of its dates.
LEMMA OwnDates ==
  ASSUME TypeOK, DatesInv, NEW l \in Loaders, Step(l)
  PROVE  (now[l] <= clock /\ WriterIsCurrent(l) /\ AnswerIsDated(l))'
<1> USE DocCacheAssumption DEF TypeOK, DatesInv, Time, Texts, disk
<1> USE DEF WriterIsCurrent, AnswerIsDated, Answered
<1>1. CASE Start(l)
  BY <1>1 DEF Start
<1>2. CASE ReadText(l)
  BY <1>2 DEF ReadText
<1>3. CASE Hit(l)
  <2>1. /\ pc'[l] = "done" /\ now'[l] = now[l] /\ clock' = clock
        /\ offline'[l] = offline[l] /\ text'[l] = text[l]
        /\ aged'[l] = file.text
        /\ how'[l] \in {"hit", "failed"}
        /\ how'[l] = "failed" => answer'[l] = None
        /\ how'[l] = "hit" => text[l] \in Time /\ answer'[l] = text[l]
    BY <1>3 DEF Hit, Conclude, Parses
  <2>2. ASSUME how'[l] = "hit", ~offline[l], text[l] = file.text
        PROVE  now[l] - text[l] <= MaxAge + WriteLag
    <3>1. now[l] - file.mtime <= MaxAge /\ file.mtime \in Time
      BY <1>3, <2>2 DEF Hit, Young
    <3>2. file.mtime - file.text <= WriteLag /\ file.text \in Time
      BY <2>1, <2>2 DEF FileIsDated
    <3> QED
      BY <3>1, <3>2, <2>2
  <2> QED
    BY <2>1, <2>2 DEF Raced, Expired
<1>4. CASE Miss(l)
  BY <1>4 DEF Miss
<1>5. ASSUME NEW b \in {clock, Bad}, Fetch(l, b)
      PROVE  (now[l] <= clock /\ WriterIsCurrent(l) /\ AnswerIsDated(l))'
  BY <1>5 DEF Fetch, Conclude, Parses, Keeps, MayWrite
<1>6. CASE FetchFails(l)
  BY <1>6 DEF FetchFails, Conclude, Parses, SaysStale
<1>7. CASE Open(l)
  BY <1>7 DEF Open, MayWrite, Keeps, Parses
<1>8. CASE OpenFails(l) \/ Fill(l) \/ FillFails(l)
  BY <1>8 DEF OpenFails, Fill, FillFails, Conclude, Parses
<1>9. CASE Finish(l) \/ Crash(l)
  BY <1>9 DEF Finish, Crash, Forget
<1> QED
  BY <1>1, <1>2, <1>3, <1>4, <1>5, <1>6, <1>7, <1>8, <1>9 DEF Step

\* DatesInv is inductive.
LEMMA DatesStep == TypeOK /\ DatesInv /\ [Next]_vars => DatesInv'
<1> SUFFICES ASSUME TypeOK, DatesInv, [Next]_vars PROVE DatesInv'
  OBVIOUS
<1>1. CASE Tick
  <2> USE DocCacheAssumption DEF TypeOK, Time
  <2>1. clock' = clock + 1 /\ UNCHANGED <<service, file, pc, policy, offline,
          now, text, aged, body, how, answer, marked>>
    BY <1>1 DEF Tick
  <2>2. FileIsDated' /\ OnlyParsedBodiesKept'
    BY <2>1 DEF DatesInv, FileIsDated, OnlyParsedBodiesKept
  <2>3. ASSUME NEW l \in Loaders
        PROVE  (now[l] <= clock /\ WriterIsCurrent(l) /\ AnswerIsDated(l))'
    <3>1. now[l] <= clock /\ WriterIsCurrent(l) /\ AnswerIsDated(l)
      BY DEF DatesInv
    <3>2. pc[l] \in {"open", "fill"} /\ body[l] \in Time
            => clock - body[l] < WriteLag
      BY <1>1 DEF Tick, Parses
    <3>3. AnswerIsDated(l)'
      BY <2>1, <3>1 DEF AnswerIsDated, Answered, Expired, Raced, SaysStale
    <3>4. WriterIsCurrent(l)'
      BY <2>1, <3>1, <3>2 DEF WriterIsCurrent, MayWrite, Keeps, Parses
    <3> QED
      BY <2>1, <3>1, <3>3, <3>4
  <2> QED
    BY <2>2, <2>3 DEF DatesInv
<1>2. ASSUME NEW k \in Loaders, Step(k) PROVE DatesInv'
  <2>1. FileIsDated' /\ OnlyParsedBodiesKept'
    BY <1>2, FileStaysDated
  <2>2. ASSUME NEW l \in Loaders
        PROVE  (now[l] <= clock /\ WriterIsCurrent(l) /\ AnswerIsDated(l))'
    <3>1. CASE l = k
      BY <1>2, <3>1, OwnDates
    <3>2. CASE l # k
      <4>1. now[l] <= clock /\ WriterIsCurrent(l) /\ AnswerIsDated(l)
        BY DEF DatesInv
      <4> QED
        BY <1>2, <3>2, <4>1, OtherFrames
        DEF WriterIsCurrent, AnswerIsDated, Answered, Expired, Raced, SaysStale,
            MayWrite, Keeps, Parses
    <3> QED
      BY <3>1, <3>2
  <2> QED
    BY <2>1, <2>2 DEF DatesInv
<1>3. CASE UNCHANGED vars
  BY <1>3 DEF vars, disk, DatesInv, FileIsDated, OnlyParsedBodiesKept,
     WriterIsCurrent, AnswerIsDated, Answered, Expired, Raced, SaysStale, MayWrite, Keeps, Parses
<1> QED
  BY <1>1, <1>2, <1>3 DEF Next

\* The modification time of the cache file bounds the age of what it holds, a
\* writer never writes what its policy or its parser forbids, and every answer
\* is as young as the way it was found promises.
THEOREM DatesHold == Spec => []DatesInv
<1>1. Init => DatesInv
  BY DocCacheAssumption DEF Init, DatesInv, FileIsDated, OnlyParsedBodiesKept,
     WriterIsCurrent, AnswerIsDated, Answered, Time
<1> QED
  BY <1>1, TypeCorrect, DatesStep, PTL DEF Spec

\* What young() lets through is young: a hit that did not race with a writer is
\* within the lifetime, for all three services.
THEOREM HitsAreYoung == Spec => []HitIsYoung
<1>1. DatesInv => HitIsYoung
  BY DEF DatesInv, AnswerIsDated, HitIsYoung
<1> QED
  BY <1>1, DatesHold, PTL

\* The mapping and the catalog never answer silently with an expired document,
\* unless another process replaced the file between the two reads.
THEOREM NothingSilentlyStale == Spec => []NoSilentStaleness
<1>1. TypeOK /\ DatesInv => NoSilentStaleness
  <2> SUFFICES ASSUME TypeOK, DatesInv, service # "scorecard", NEW l \in Loaders,
                      Answered(l), ~marked[l], ~offline[l], ~Raced(l)
               PROVE  ~Expired(l)
    BY DEF NoSilentStaleness
  <2> USE DocCacheAssumption DEF TypeOK, Time
  <2>1. AnswerIsDated(l) /\ SaysStale
    BY DEF DatesInv, SaysStale
  <2>2. CASE how[l] = "fetched"
    BY <2>1, <2>2 DEF AnswerIsDated, Answered, Expired
  <2>3. CASE how[l] = "hit"
    BY <2>1, <2>3 DEF AnswerIsDated
  <2> QED
    BY <2>1, <2>2, <2>3 DEF AnswerIsDated
<1> QED
  BY <1>1, TypeCorrect, DatesHold, PTL

\* Parsing before writing keeps a page that is not the document off the disk.
THEOREM OnlyParsedBodies == Spec => []OnlyParsedBodiesKept
<1>1. DatesInv => OnlyParsedBodiesKept
  BY DEF DatesInv
<1> QED
  BY <1>1, DatesHold, PTL

\* No step of a --no-cache run changes the cache file, whoever shares it.
THEOREM NoCacheWritesNothing == Spec => NoCacheLeavesTheFile
<1>1. TypeOK /\ DatesInv /\ [Next]_vars =>
        [\A l \in Loaders :
           policy[l] = "noCache" /\ pc'[l] # pc[l] => file' = file]_vars
  <2> SUFFICES ASSUME TypeOK, DatesInv, Next, NEW l \in Loaders,
                      policy[l] = "noCache", pc'[l] # pc[l]
               PROVE  file' = file
    OBVIOUS
  <2>1. ~Tick
    BY DEF Tick
  <2>2. PICK k \in Loaders : Step(k)
    BY <2>1 DEF Next
  <2>3. k = l
    BY <2>2, OtherFrames
  <2>4. pc[l] \notin {"open", "fill"}
    BY DEF DatesInv, WriterIsCurrent, MayWrite
  <2> QED
    BY <2>2, <2>3, <2>4 DEF Step, Start, ReadText, Hit, Miss, Fetch, FetchFails,
       Open, OpenFails, Fill, FillFails, Finish, Crash, Forget, disk
<1> QED
  BY <1>1, TypeCorrect, DatesHold, PTL DEF Spec, NoCacheLeavesTheFile
=============================================================================

--------------------------- MODULE EpssCache_proofs ---------------------------
(***************************************************************************)
(* What holds of the scores of a document, for any number of runs over one  *)
(* cache file, any batches and policies, and whatever requests and writes   *)
(* fail: every CVE is answered, none with an old score that is not called   *)
(* out, and a run that nobody overlaps forgets no score.                    *)
(***************************************************************************)
EXTENDS EpssCache, TLAPS

-----------------------------------------------------------------------------
(* Types. *)

\* A cache: CVEs with the time of their score.
Scores == UNION {[S -> Nat] : S \in SUBSET Cves}

TypeOK ==
  /\ clock \in Nat
  /\ file \in Scores
  /\ pc \in [Procs -> {"idle", "document", "ask", "write", "done", "failed"}]
  /\ policy \in [Procs -> {"default", "refresh", "noCache"}]
  /\ offline \in [Procs -> BOOLEAN]
  /\ now \in [Procs -> Nat]
  /\ wanted \in [Procs -> SUBSET Cves]
  /\ cache \in [Procs -> Scores]
  /\ missing \in [Procs -> SUBSET Cves]
  /\ asked \in [Procs -> BOOLEAN]
  /\ marked \in [Procs -> BOOLEAN]
  /\ overtaken \in [Procs -> BOOLEAN]

\* A cache maps some CVEs to times, and whatever does is one.
LEMMA ScoresAre ==
  /\ \A f \in Scores : DOMAIN f \subseteq Cves /\ \A c \in DOMAIN f : f[c] \in Nat
  /\ Empty \in Scores
<1>1. ASSUME NEW f \in Scores
      PROVE  DOMAIN f \subseteq Cves /\ \A c \in DOMAIN f : f[c] \in Nat
  <2>1. PICK S \in SUBSET Cves : f \in [S -> Nat]
    BY DEF Scores
  <2> QED BY <2>1
<1>2. Empty \in [{} -> Nat]
  BY DEF Empty
<1> QED BY <1>1, <1>2 DEF Scores

\* An answer to a batch leaves a cache a cache.
LEMMA AnsweredScores ==
  ASSUME NEW f \in Scores, NEW b \in SUBSET Cves, NEW t \in Nat
  PROVE  [c \in DOMAIN f \cup b |-> IF c \in b THEN t ELSE f[c]] \in Scores
<1>1. DOMAIN f \cup b \in SUBSET Cves
  BY ScoresAre
<1>2. [c \in DOMAIN f \cup b |-> IF c \in b THEN t ELSE f[c]] \in [DOMAIN f \cup b -> Nat]
  BY ScoresAre
<1> QED BY <1>1, <1>2 DEF Scores

\* What a run reads of the file is in it, or nothing.
LEMMA ReadsAre ==
  ASSUME NEW p \in Procs,
         NEW m \in IF MayRead(p) THEN Readable(p) ELSE {Empty}
  PROVE  m \in {file, Empty}
  BY DEF Readable

\* The other runs may be overtaken.
LEMMA OvertakesTypes ==
  ASSUME NEW p \in Procs, Overtakes(p)
  PROVE  overtaken' \in [Procs -> BOOLEAN]
<1>1. \A q \in Procs : (q # p /\ pc[q] \in {"ask", "write"}) \in BOOLEAN
  OBVIOUS
<1> QED BY <1>1, Zenon DEF Overtakes

\* Every variable keeps its type.
THEOREM TypeCorrect == Spec => []TypeOK
<1>1. Init => TypeOK
  BY ScoresAre DEF Init, TypeOK
<1>2. ASSUME TypeOK, [Next]_vars PROVE TypeOK'
  <2>1. CASE Tick
    BY <2>1, <1>2 DEF TypeOK, Tick, lookup
  <2>2. ASSUME NEW p \in Procs, Step(p) PROVE TypeOK'
    <3>1. CASE Start(p)
      BY <3>1, <1>2, EpssAssumption DEF TypeOK, Start, lookup
    <3>2. CASE Begin(p)
      BY <3>2, <1>2, ScoresAre, ReadsAre DEF TypeOK, Begin
    <3>3. ASSUME NEW b \in SUBSET Cves, Answered(p, b) PROVE TypeOK'
      <4> DEFINE f == [c \in DOMAIN cache[p] \cup b |-> IF c \in b THEN now[p] ELSE cache[p][c]]
      <4>1. f \in Scores
        <5>1. cache[p] \in Scores /\ now[p] \in Nat
          BY <1>2 DEF TypeOK
        <5> QED BY <5>1, AnsweredScores
      <4>2. cache' = [cache EXCEPT ![p] = f]
        BY <3>3 DEF Answered
      <4> HIDE DEF f
      <4> QED BY <3>3, <4>1, <4>2, <1>2 DEF TypeOK, Answered
    <3>4. ASSUME NEW b \in SUBSET Cves, StandIn(p, b) PROVE TypeOK'
      BY <3>4, <1>2 DEF TypeOK, StandIn
    <3>5. ASSUME NEW b \in SUBSET Cves, Fails(p, b) PROVE TypeOK'
      BY <3>5, <1>2 DEF TypeOK, Fails, lookup
    <3>6. CASE Close(p)
      BY <3>6, <1>2 DEF TypeOK, Close, lookup
    <3>7. CASE Write(p) \/ WriteFails(p)
      BY <3>7, <1>2, ScoresAre, OvertakesTypes DEF TypeOK, Write, WriteFails, lookup
    <3>8. CASE NextDocument(p)
      BY <3>8, <1>2, ScoresAre DEF TypeOK, NextDocument
    <3>9. CASE Exit(p)
      <4>1. overtaken' \in [Procs -> BOOLEAN]
        BY <3>9, <1>2, OvertakesTypes DEF TypeOK, Exit
      <4> QED BY <3>9, <4>1, <1>2, ScoresAre DEF TypeOK, Exit
    <3> QED BY <2>2, <3>1, <3>2, <3>3, <3>4, <3>5, <3>6, <3>7, <3>8, <3>9 DEF Step
  <2>3. CASE UNCHANGED vars
    BY <2>3, <1>2 DEF TypeOK, vars, lookup
  <2> QED BY <1>2, <2>1, <2>2, <2>3 DEF Next
<1> QED BY <1>1, <1>2, PTL DEF Spec

\* No score is from after the last tick, nor is a lookup.
NoneFromTheFuture ==
  /\ \A c \in DOMAIN file : file[c] <= clock
  /\ \A p \in Procs : now[p] <= clock /\ \A c \in DOMAIN cache[p] : cache[p][c] <= clock

\* No score of the file or of a run is younger than the last tick.
THEOREM ClockHolds == Spec => []NoneFromTheFuture
<1>1. Init => NoneFromTheFuture
  BY DEF Init, NoneFromTheFuture, Empty
<1>2. ASSUME TypeOK, NoneFromTheFuture, [Next]_vars PROVE NoneFromTheFuture'
  <2>1. CASE Tick
    <3>1. /\ clock' = clock + 1 /\ clock \in Nat
          /\ UNCHANGED <<file, now, cache>>
          /\ \A c \in DOMAIN file : file[c] \in Nat
          /\ \A p \in Procs : now[p] \in Nat /\ \A c \in DOMAIN cache[p] : cache[p][c] \in Nat
      BY <2>1, <1>2, ScoresAre DEF Tick, lookup, TypeOK
    <3> QED BY <3>1, <1>2 DEF NoneFromTheFuture
  <2>2. ASSUME NEW p \in Procs, Step(p) PROVE NoneFromTheFuture'
    <3>1. CASE Start(p) \/ Close(p) \/ \E b \in SUBSET Cves : StandIn(p, b) \/ Fails(p, b)
      <4>1. UNCHANGED <<clock, file, now, cache>>
        BY <3>1 DEF Start, Close, StandIn, Fails, lookup
      <4> QED BY <4>1, <1>2 DEF NoneFromTheFuture
    <3>2. CASE Begin(p)
      <4>1. PICK m \in {file, Empty} : cache' = [cache EXCEPT ![p] = m]
        BY <3>2, ReadsAre DEF Begin
      <4>2. /\ now' = [now EXCEPT ![p] = clock] /\ UNCHANGED <<clock, file>>
            /\ clock \in Nat
        BY <3>2, <1>2 DEF Begin, TypeOK
      <4> QED BY <4>1, <4>2, <1>2 DEF NoneFromTheFuture, TypeOK, Empty
    <3>3. ASSUME NEW b \in SUBSET Cves, Answered(p, b) PROVE NoneFromTheFuture'
      BY <3>3, <1>2 DEF Answered, NoneFromTheFuture, TypeOK
    <3>4. CASE Write(p) \/ WriteFails(p)
      BY <3>4, <1>2 DEF Write, WriteFails, NoneFromTheFuture, TypeOK, lookup, Empty
    <3>5. CASE NextDocument(p) \/ Exit(p)
      <4>1. /\ cache' = [cache EXCEPT ![p] = Empty] /\ now' = [now EXCEPT ![p] = 0]
            /\ file' \in {file, Empty} /\ UNCHANGED clock
        BY <3>5 DEF NextDocument, Exit
      <4>2. clock \in Nat
        BY <1>2 DEF TypeOK
      <4> QED BY <4>1, <4>2, <1>2 DEF NoneFromTheFuture, TypeOK, Empty
    <3> QED BY <2>2, <3>1, <3>2, <3>3, <3>4, <3>5 DEF Step
  <2>3. CASE UNCHANGED vars
    BY <2>3, <1>2 DEF NoneFromTheFuture, vars, lookup
  <2> QED BY <1>2, <2>1, <2>2, <2>3 DEF Next
<1> QED BY <1>1, <1>2, TypeCorrect, PTL DEF Spec

-----------------------------------------------------------------------------
(* Every CVE is answered. *)

\* What is settled of a lookup: the CVEs that are not to be asked for (again)
\* have an entry, of today unless the lookup is offline or has said otherwise.
Settled(p) == wanted[p] \ missing[p]

IsSettled(p) ==
  /\ pc[p] \in {"ask", "write", "done"} =>
       /\ Settled(p) \subseteq DOMAIN cache[p]
       /\ offline[p] \/ marked[p] \/ \A c \in Settled(p) : now[p] - cache[p][c] <= MaxAge
  /\ pc[p] \in {"write", "done"} => missing[p] = {}

SettledInv == \A p \in Procs : IsSettled(p)

\* What is settled stays settled while a lookup lasts, and all is when it ends.
THEOREM SettledHolds == Spec => []SettledInv
<1>1. Init => SettledInv
  BY DEF Init, SettledInv, IsSettled
<1>2. ASSUME TypeOK, SettledInv, [Next]_vars PROVE SettledInv'
  <2>1. CASE Tick \/ UNCHANGED vars
    BY <2>1, <1>2 DEF Tick, vars, lookup, SettledInv, IsSettled, Settled
  <2>2. ASSUME NEW p \in Procs, Step(p) PROVE SettledInv'
    \* A step is one of p, and another run's lookup stays what it is.
    <3> SUFFICES ASSUME NEW q \in Procs
                 PROVE  IsSettled(q)'
      BY DEF SettledInv
    <3>0. ASSUME q # p,
                 pc'[q] = pc[q], offline'[q] = offline[q], now'[q] = now[q],
                 wanted'[q] = wanted[q], cache'[q] = cache[q], missing'[q] = missing[q],
                 marked'[q] = marked[q]
          PROVE  IsSettled(q)'
      BY <3>0, <1>2 DEF SettledInv, IsSettled, Settled
    <3>1. CASE Start(p)
      BY <3>1, <3>0, <1>2 DEF Start, lookup, TypeOK, SettledInv, IsSettled, Settled
    <3>2. CASE Begin(p)
      <4>1. CASE q # p
        BY <4>1, <3>0, <3>2, <1>2 DEF Begin, TypeOK
      <4>2. CASE q = p
        <5>1. PICK w \in SUBSET Cves \ {{}}, m \in IF MayRead(p) THEN Readable(p) ELSE {Empty} :
                /\ wanted' = [wanted EXCEPT ![p] = w]
                /\ cache' = [cache EXCEPT ![p] = m]
                /\ missing' = [missing EXCEPT ![p] = {c \in w : ~(c \in DOMAIN m /\ Fresh(p, m, c))}]
          BY <3>2 DEF Begin
        <5>2. \A c \in Settled(p)' : c \in DOMAIN cache'[p] /\ Fresh(p, cache'[p], c)
          BY <5>1, <1>2 DEF TypeOK, Settled
        <5>3. pc'[p] = "ask" /\ offline' = offline
          BY <3>2, <1>2 DEF Begin, TypeOK
        <5> QED BY <4>2, <5>2, <5>3 DEF Fresh, IsSettled
      <4> QED BY <4>1, <4>2
    <3>3. ASSUME NEW b \in SUBSET Cves, Answered(p, b)
          PROVE  IsSettled(q)'
      <4>1. CASE q # p
        BY <4>1, <3>0, <3>3, <1>2 DEF Answered, TypeOK
      <4>2. CASE q = p
        <5>1. /\ DOMAIN cache'[p] = DOMAIN cache[p] \cup b
              /\ \A c \in DOMAIN cache'[p] :
                   cache'[p][c] = IF c \in b THEN now[p] ELSE cache[p][c]
              /\ missing'[p] = missing[p] \ b
              /\ UNCHANGED <<pc, offline, now, wanted, marked>> /\ pc[p] = "ask"
          BY <3>3, <1>2 DEF Answered, TypeOK
        <5>2. Settled(p)' \subseteq Settled(p) \cup b
          BY <5>1 DEF Settled
        <5>3. Settled(p)' \subseteq DOMAIN cache'[p]
          BY <5>1, <5>2, <1>2 DEF SettledInv, IsSettled
        <5>4. ASSUME NEW c \in Settled(p)', ~offline[p], ~marked[p]
              PROVE  now[p] - cache'[p][c] <= MaxAge
          <6>1. CASE c \in b
            BY <6>1, <5>1, <5>3, <5>4, <1>2, EpssAssumption DEF TypeOK
          <6>2. CASE c \notin b
            BY <6>2, <5>1, <5>2, <5>3, <5>4, <1>2 DEF SettledInv, IsSettled
          <6> QED BY <6>1, <6>2
        <5> QED BY <4>2, <5>1, <5>3, <5>4 DEF IsSettled
      <4> QED BY <4>1, <4>2
    <3>4. ASSUME NEW b \in SUBSET Cves, StandIn(p, b)
          PROVE  IsSettled(q)'
      <4>1. CASE q # p
        BY <4>1, <3>0, <3>4, <1>2 DEF StandIn, TypeOK
      <4>2. CASE q = p
        BY <4>2, <3>4, <1>2 DEF StandIn, TypeOK, SettledInv, IsSettled, Settled
      <4> QED BY <4>1, <4>2
    <3>5. CASE \E b \in SUBSET Cves : Fails(p, b)
      BY <3>5, <3>0, <1>2 DEF Fails, TypeOK, lookup, IsSettled
    <3>6. CASE Close(p)
      BY <3>6, <1>2 DEF Close, TypeOK, lookup, SettledInv, IsSettled, Settled
    <3>7. CASE Write(p) \/ WriteFails(p)
      BY <3>7, <1>2 DEF Write, WriteFails, TypeOK, lookup, SettledInv, IsSettled, Settled
    <3>8. CASE NextDocument(p) \/ Exit(p)
      BY <3>8, <3>0, <1>2 DEF NextDocument, Exit, TypeOK, IsSettled
    <3> QED BY <2>2, <3>1, <3>2, <3>3, <3>4, <3>5, <3>6, <3>7, <3>8 DEF Step
  <2> QED BY <1>2, <2>1, <2>2 DEF Next
<1> QED BY <1>1, <1>2, TypeCorrect, PTL DEF Spec

\* A lookup that succeeds answers for every CVE of the document, and says so when
\* an answer is older than a day and younger ones could have been had.
THEOREM EveryCveAnswered == Spec => []EveryCveIsAnswered
<1>1. SettledInv => EveryCveIsAnswered
  BY DEF SettledInv, EveryCveIsAnswered, IsSettled, Settled
<1> QED BY <1>1, SettledHolds, PTL

-----------------------------------------------------------------------------
(* No score is forgotten. *)

\* What a lookup works on holds all that is in the file, as young or younger,
\* and nothing in the file is younger than the lookup, until another run writes.
Covers(p) ==
  \A c \in DOMAIN file :
    /\ file[c] <= now[p]
    /\ c \in DOMAIN cache[p] /\ cache[p][c] >= file[c]

CoversInv ==
  \A p \in Procs :
    pc[p] \in {"ask", "write"} /\ policy[p] = "default" /\ ~overtaken[p] => Covers(p)

\* Whoever rewrites the file, the others have been overtaken since they read it.
LEMMA OthersAreOvertaken ==
  ASSUME NEW p \in Procs, NEW q \in Procs, Overtakes(p), q # p, pc[q] \in {"ask", "write"}
  PROVE  overtaken'[q]
  BY DEF Overtakes

\* Until another run writes, a lookup that may read the cache covers the file.
THEOREM CoversHolds == Spec => []CoversInv
<1>1. Init => CoversInv
  BY DEF Init, CoversInv
<1>2. ASSUME TypeOK, NoneFromTheFuture, CoversInv, [Next]_vars PROVE CoversInv'
  <2>1. CASE Tick \/ UNCHANGED vars
    BY <2>1, <1>2 DEF Tick, vars, lookup, CoversInv, Covers
  <2>2. ASSUME NEW p \in Procs, Step(p) PROVE CoversInv'
    <3> SUFFICES ASSUME NEW q \in Procs, pc'[q] \in {"ask", "write"},
                        policy'[q] = "default", ~overtaken'[q]
                 PROVE  Covers(q)'
      BY DEF CoversInv
    \* A step that leaves the file alone leaves the others covered.
    <3>0. ASSUME q # p,
                 file' = file, pc'[q] = pc[q], policy'[q] = policy[q], now'[q] = now[q],
                 cache'[q] = cache[q], overtaken'[q] = overtaken[q]
          PROVE  Covers(q)'
      BY <3>0, <1>2 DEF CoversInv, Covers
    <3>1. CASE Start(p)
      BY <3>1, <3>0, <1>2 DEF Start, lookup, TypeOK
    <3>2. CASE Begin(p)
      <4>1. CASE q # p
        BY <4>1, <3>0, <3>2, <1>2 DEF Begin, TypeOK
      <4>2. CASE q = p
        <5>1. Readable(p) = {file} /\ MayRead(p) /\ file' = file /\ now'[p] = clock
          BY <4>2, <3>2, <1>2, Zenon DEF Begin, TypeOK, MayRead
        <5>2. cache'[p] = file
          BY <5>1, <3>2, <1>2 DEF Begin, TypeOK
        <5>3. \A c \in DOMAIN file : file[c] \in Nat /\ file[c] <= clock
          BY <1>2, ScoresAre DEF TypeOK, NoneFromTheFuture
        <5> QED BY <4>2, <5>1, <5>2, <5>3 DEF Covers
      <4> QED BY <4>1, <4>2
    <3>3. ASSUME NEW b \in SUBSET Cves, Answered(p, b) PROVE Covers(q)'
      <4>1. CASE q # p
        BY <4>1, <3>0, <3>3, <1>2 DEF Answered, TypeOK
      <4>2. CASE q = p
        <5>1. /\ DOMAIN cache'[p] = DOMAIN cache[p] \cup b
              /\ \A c \in DOMAIN cache'[p] :
                   cache'[p][c] = IF c \in b THEN now[p] ELSE cache[p][c]
              /\ UNCHANGED <<file, now>>
          BY <3>3, <1>2 DEF Answered, TypeOK
        <5>2. Covers(p)
          BY <4>2, <3>3, <1>2 DEF Answered, CoversInv
        <5> QED BY <4>2, <5>1, <5>2 DEF Covers
      <4> QED BY <4>1, <4>2
    <3>4. CASE Close(p) \/ \E b \in SUBSET Cves : StandIn(p, b) \/ Fails(p, b)
      <4>1. UNCHANGED <<file, policy, now, cache, overtaken>> /\ pc[p] = "ask"
        BY <3>4 DEF Close, StandIn, Fails, lookup
      <4>2. q = p \/ pc'[q] = pc[q]
        BY <3>4, <1>2 DEF Close, StandIn, Fails, TypeOK
      <4> QED BY <4>1, <4>2, <1>2 DEF CoversInv, Covers
    <3>5. CASE Write(p) \/ WriteFails(p)
      <4>1. Overtakes(p) /\ pc' = [pc EXCEPT ![p] = "done"]
        BY <3>5 DEF Write, WriteFails
      <4> QED BY <4>1, OthersAreOvertaken, <1>2 DEF TypeOK
    <3>6. CASE NextDocument(p)
      BY <3>6, <3>0, <1>2 DEF NextDocument, TypeOK
    <3>7. CASE Exit(p)
      <4>1. q # p /\ pc'[q] = pc[q] /\ policy'[q] = policy[q] /\ now'[q] = now[q] /\ cache'[q] = cache[q]
        BY <3>7, <1>2 DEF Exit, TypeOK
      <4>2. pc[p] # "write"
        BY <4>1, <3>7, OthersAreOvertaken DEF Exit
      <4> QED BY <4>1, <4>2, <3>7, <3>0 DEF Exit
    <3> QED BY <2>2, <3>1, <3>2, <3>3, <3>4, <3>5, <3>6, <3>7 DEF Step
  <2> QED BY <1>2, <2>1, <2>2 DEF Next
<1> QED BY <1>1, <1>2, TypeCorrect, ClockHolds, PTL DEF Spec

\* A run that nobody overlapped, and that may read the cache, keeps every score of
\* the file it rewrites, or has a younger one.
THEOREM NoScoreForgotten == Spec => NoScoreIsForgotten
<1>1. ASSUME TypeOK, CoversInv, [Next]_vars
      PROVE  [\A p \in Procs :
                /\ pc[p] = "write" /\ pc'[p] = "done" /\ file' # Empty
                /\ policy[p] = "default" /\ ~overtaken[p]
                => \A c \in DOMAIN file : c \in DOMAIN file' /\ file'[c] >= file[c]]_vars
  <2> SUFFICES ASSUME Next, NEW p \in Procs, pc[p] = "write", pc'[p] = "done", file' # Empty,
                      policy[p] = "default", ~overtaken[p]
               PROVE  \A c \in DOMAIN file : c \in DOMAIN file' /\ file'[c] >= file[c]
    BY <1>1
  \* It is p that writes.
  <2>1. Write(p)
    <3>1. PICK q \in Procs : Step(q)
      BY DEF Next, Tick
    <3>2. q = p
      BY <3>1, <1>1 DEF TypeOK, Step, Start, Begin, Answered, StandIn, Fails, Close, Write,
                        WriteFails, NextDocument, Exit
    <3> QED BY <3>1, <3>2, <1>1 DEF TypeOK, Step, Start, Begin, Answered, StandIn, Fails, Close,
                                    Write, WriteFails, NextDocument, Exit
  <2> QED BY <2>1, <1>1 DEF Write, CoversInv, Covers
<1> QED BY <1>1, TypeCorrect, CoversHolds, PTL DEF Spec, NoScoreIsForgotten
===============================================================================

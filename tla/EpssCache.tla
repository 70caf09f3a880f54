------------------------------ MODULE EpssCache ------------------------------
(***************************************************************************)
(* --epss (epss.rs, lookup_with): the scores of every CVE of a document,     *)
(* from one cache file that all runs share and rewrite as a whole, and from *)
(* FIRST, a batch of CVEs per request.  A run that writes several documents *)
(* looks the CVEs of each of them up in turn (main.rs).                     *)
(*                                                                          *)
(* The file is a function from CVEs to the time their score was fetched: a  *)
(* score, or its absence, is represented by that time.  A file that is not  *)
(* there, is being truncated, or was left half written reads as empty.      *)
(***************************************************************************)
EXTENDS Integers, FiniteSets, Functions

CONSTANTS
  Procs,       \* invocations of pixi-sbom
  Cves,        \* CVE ids among the findings of their documents
  Batch,       \* BATCH, the CVEs of one request
  MaxAge,      \* CACHE_MAX_AGE, in ticks
  Policies,    \* the cache policies the runs may have
  MaxTime      \* bound on the clock

ASSUME EpssAssumption ==
  /\ Batch \in Nat \ {0}
  /\ MaxAge \in Nat /\ MaxTime \in Nat
  /\ Policies \subseteq {"default", "refresh", "noCache"}
  /\ IsFiniteSet(Cves)

Time == 0..MaxTime
Empty == [c \in {} |-> 0]

VARIABLES
  clock,
  file,        \* the cache file
  pc,          \* where each process is
  policy,      \* its cache::Policy
  offline,     \* its http::offline()
  now,         \* SystemTime::now() at the start of the lookup
  wanted,      \* the CVEs of the document
  cache,       \* the map the lookup works on
  missing,     \* the CVEs still to be asked for
  asked,       \* whether a batch was answered
  marked,      \* whether cache::stale was called
  overtaken    \* history: another process has been writing the file since
               \* this one began to read it

lookup == <<now, wanted, cache, missing, asked, marked>>
vars == <<clock, file, pc, policy, offline, lookup, overtaken>>

MayRead(p) == policy[p] = "default"
MayWrite(p) == policy[p] # "noCache"

\* The entry is a day old at most, or nothing younger can be had.  A score
\* fetched after the lookup's clock was read counts as new.
Fresh(p, m, c) == offline[p] \/ now'[p] - m[c] <= MaxAge

Init ==
  /\ clock = 0
  /\ file = Empty
  /\ pc = [p \in Procs |-> "idle"]
  /\ policy = [p \in Procs |-> "default"]
  /\ offline = [p \in Procs |-> FALSE]
  /\ now = [p \in Procs |-> 0]
  /\ wanted = [p \in Procs |-> {}]
  /\ cache = [p \in Procs |-> Empty]
  /\ missing = [p \in Procs |-> {}]
  /\ asked = [p \in Procs |-> FALSE]
  /\ marked = [p \in Procs |-> FALSE]
  /\ overtaken = [p \in Procs |-> FALSE]

Start(p) ==
  /\ pc[p] = "idle"
  /\ pc' = [pc EXCEPT ![p] = "document"]
  /\ \E c \in Policies : policy' = [policy EXCEPT ![p] = c]
  /\ \E o \in BOOLEAN : offline' = [offline EXCEPT ![p] = o]
  /\ UNCHANGED <<clock, file, lookup, overtaken>>

\* What read_cache returns: while another process writes the file, it may find
\* it truncated and start over.
Readable(p) ==
  {file} \cup (IF \E q \in Procs \ {p} : pc[q] = "write" THEN {Empty} ELSE {})

\* Mutant: the map keeps only the entries the document needs.
BeginWithWanted(p) ==
  /\ pc[p] = "document"
  /\ now' = [now EXCEPT ![p] = clock]
  /\ \E w \in SUBSET Cves \ {{}}, m \in IF MayRead(p) THEN Readable(p) ELSE {Empty} :
       /\ wanted' = [wanted EXCEPT ![p] = w]
       /\ cache' = [cache EXCEPT ![p] = Restrict(m, w \cap DOMAIN m)]
       /\ missing' = [missing EXCEPT ![p] =
                        {c \in w : ~(c \in DOMAIN m /\ Fresh(p, m, c))}]
  /\ asked' = [asked EXCEPT ![p] = FALSE]
  /\ marked' = [marked EXCEPT ![p] = FALSE]
  /\ overtaken' = [overtaken EXCEPT ![p] = Readable(p) # {file}]
  /\ pc' = [pc EXCEPT ![p] = "ask"]
  /\ UNCHANGED <<clock, file, policy, offline>>

\* The lookup of a document begins: the cache is read, and what is missing from
\* it or too old is to be asked for.
Begin(p) ==
  /\ pc[p] = "document"
  /\ now' = [now EXCEPT ![p] = clock]
  /\ \E w \in SUBSET Cves \ {{}}, m \in IF MayRead(p) THEN Readable(p) ELSE {Empty} :
       /\ wanted' = [wanted EXCEPT ![p] = w]
       /\ cache' = [cache EXCEPT ![p] = m]
       /\ missing' = [missing EXCEPT ![p] =
                        {c \in w : ~(c \in DOMAIN m /\ Fresh(p, m, c))}]
  /\ asked' = [asked EXCEPT ![p] = FALSE]
  /\ marked' = [marked EXCEPT ![p] = FALSE]
  /\ overtaken' = [overtaken EXCEPT ![p] = Readable(p) # {file}]
  /\ pc' = [pc EXCEPT ![p] = "ask"]
  /\ UNCHANGED <<clock, file, policy, offline>>

\* The next batch: a full one unless it is the last.
IsBatch(p, b) ==
  /\ b \subseteq missing[p] /\ b # {}
  /\ Cardinality(b) = Batch \/ (b = missing[p] /\ Cardinality(b) < Batch)

\* FIRST answers: every CVE of the batch gets an entry, scored or not.
Answered(p, b) ==
  /\ pc[p] = "ask"
  /\ ~offline[p]
  /\ IsBatch(p, b)
  /\ cache' = [cache EXCEPT ![p] =
                 [c \in DOMAIN @ \cup b |-> IF c \in b THEN now[p] ELSE @[c]]]
  /\ missing' = [missing EXCEPT ![p] = @ \ b]
  /\ asked' = [asked EXCEPT ![p] = TRUE]
  /\ UNCHANGED <<clock, file, pc, policy, offline, now, wanted, marked,
                 overtaken>>

\* Mutant: nothing is said about the stale scores.
StandInUnsaid(p, b) ==
  /\ pc[p] = "ask"
  /\ IsBatch(p, b)
  /\ b \subseteq DOMAIN cache[p]
  /\ missing' = [missing EXCEPT ![p] = @ \ b]
  /\ UNCHANGED <<clock, file, pc, policy, offline, now, wanted, cache, asked,
                 marked, overtaken>>

\* The request fails, as every one does offline, and the map has an entry for
\* every CVE of the batch.
StandIn(p, b) ==
  /\ pc[p] = "ask"
  /\ IsBatch(p, b)
  /\ b \subseteq DOMAIN cache[p]
  /\ missing' = [missing EXCEPT ![p] = @ \ b]
  /\ marked' = [marked EXCEPT ![p] = TRUE]
  /\ UNCHANGED <<clock, file, pc, policy, offline, now, wanted, cache, asked,
                 overtaken>>

\* The request fails with a CVE of the batch unknown, or its answer does not
\* parse: the lookup fails, and what earlier batches fetched is dropped.
Fails(p, b) ==
  /\ pc[p] = "ask"
  /\ IsBatch(p, b)
  /\ ~(b \subseteq DOMAIN cache[p]) \/ ~offline[p]
  /\ pc' = [pc EXCEPT ![p] = "failed"]
  /\ UNCHANGED <<clock, file, policy, offline, lookup, overtaken>>

\* The last batch is done: the map is written if something was fetched.
Close(p) ==
  /\ pc[p] = "ask"
  /\ missing[p] = {}
  /\ pc' = [pc EXCEPT ![p] = IF asked[p] /\ MayWrite(p) THEN "write" ELSE "done"]
  /\ UNCHANGED <<clock, file, policy, offline, lookup, overtaken>>

\* What another process read of the file is no longer what is in it.
Overtakes(p) ==
  overtaken' = [q \in Procs |-> q # p /\ pc[q] \in {"ask", "write"}]

\* write_cache replaces the file with the map.
Write(p) ==
  /\ pc[p] = "write"
  /\ file' = cache[p]
  /\ Overtakes(p)
  /\ pc' = [pc EXCEPT ![p] = "done"]
  /\ UNCHANGED <<clock, policy, offline, lookup>>

\* The disk is full, or two processes write at once: what is left of the file
\* does not parse.
WriteFails(p) ==
  /\ pc[p] = "write"
  /\ file' = Empty
  /\ Overtakes(p)
  /\ pc' = [pc EXCEPT ![p] = "done"]
  /\ UNCHANGED <<clock, policy, offline, lookup>>

\* The scores are in the document; the run goes on to the next one.
NextDocument(p) ==
  /\ pc[p] = "done"
  /\ pc' = [pc EXCEPT ![p] = "document"]
  /\ now' = [now EXCEPT ![p] = 0]
  /\ wanted' = [wanted EXCEPT ![p] = {}]
  /\ cache' = [cache EXCEPT ![p] = Empty]
  /\ asked' = [asked EXCEPT ![p] = FALSE]
  /\ marked' = [marked EXCEPT ![p] = FALSE]
  /\ UNCHANGED <<clock, file, policy, offline, missing, overtaken>>

\* The run ends or is killed, perhaps with half of the file written.
Exit(p) ==
  /\ pc[p] # "idle"
  /\ pc' = [pc EXCEPT ![p] = "idle"]
  /\ policy' = [policy EXCEPT ![p] = "default"]
  /\ offline' = [offline EXCEPT ![p] = FALSE]
  /\ now' = [now EXCEPT ![p] = 0]
  /\ wanted' = [wanted EXCEPT ![p] = {}]
  /\ cache' = [cache EXCEPT ![p] = Empty]
  /\ missing' = [missing EXCEPT ![p] = {}]
  /\ asked' = [asked EXCEPT ![p] = FALSE]
  /\ marked' = [marked EXCEPT ![p] = FALSE]
  /\ IF pc[p] = "write" THEN Overtakes(p) ELSE UNCHANGED overtaken
  /\ file' \in {file} \cup (IF pc[p] = "write" THEN {Empty} ELSE {})
  /\ UNCHANGED clock

Tick ==
  /\ clock < MaxTime
  /\ clock' = clock + 1
  /\ UNCHANGED <<file, pc, policy, offline, lookup, overtaken>>

Step(p) ==
  \/ Start(p) \/ Begin(p)
  \/ \E b \in SUBSET Cves : Answered(p, b) \/ StandIn(p, b) \/ Fails(p, b)
  \/ Close(p) \/ Write(p) \/ WriteFails(p) \/ NextDocument(p) \/ Exit(p)

Next == Tick \/ \E p \in Procs : Step(p)

Spec == Init /\ [][Next]_vars

-----------------------------------------------------------------------------
\* A lookup that succeeds has an entry for every CVE of the document, whichever
\* of its batches were answered and which fell back on the cache; and no score it
\* could have asked for again is older than a day without a call of cache::stale,
\* whatever other runs write, overwrite or leave half written.
EveryCveIsAnswered ==
  \A p \in Procs : pc[p] \in {"write", "done"} =>
    /\ wanted[p] \subseteq DOMAIN cache[p]
    /\ offline[p] \/ marked[p] \/ \A c \in wanted[p] : now[p] - cache[p][c] <= MaxAge

\* A run that nobody else's write has overlapped since it read the file neither
\* drops a score when it rewrites the file nor replaces one by an older one,
\* whatever batches failed, unless it refreshes.
NoScoreIsForgotten ==
  [][\A p \in Procs :
       /\ pc[p] = "write" /\ pc'[p] = "done" /\ file' # Empty
       /\ policy[p] = "default" /\ ~overtaken[p]
       => \A c \in DOMAIN file : c \in DOMAIN file' /\ file'[c] >= file[c]]_vars
=============================================================================

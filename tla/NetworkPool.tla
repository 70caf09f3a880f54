----------------------------- MODULE NetworkPool -----------------------------
(***************************************************************************)
(* How many requests are in flight (concurrency.rs) and how often each one  *)
(* is tried (http.rs, with_retries).  A run gives the packages of one       *)
(* document after the other to a pool of threads that is built once, when   *)
(* the first batch of jobs needs it; a thread makes the request of one job, *)
(* sleeps and tries again while the upstream asks it to, and takes the next *)
(* job.                                                                     *)
(***************************************************************************)
EXTENDS Integers, FiniteSets, Sequences, Functions

CONSTANTS
  Runs,         \* the runs: the packages of each document, in order
  Sharing,      \* whether the documents are looked up together first
  Configs,      \* requests in flight asked for by flag, variable or file; 0: none
  Grants,       \* the most threads the operating system gives
  MaxAttempts,  \* MAX_ATTEMPTS
  FirstBackoff, \* FIRST_BACKOFF, in milliseconds
  MaxBackoff,   \* MAX_BACKOFF, in milliseconds
  DefaultNetwork, \* MAX_NETWORK
  SaneNetwork,  \* MAX_SANE_NETWORK
  Cores,        \* the threads rayon takes when it is asked for none
  Unset         \* a OnceLock nobody has set

ASSUME NetworkPoolAssumption ==
  /\ Runs \subseteq Seq(Nat)
  /\ Sharing \subseteq BOOLEAN
  /\ Configs \subseteq Nat /\ Grants \subseteq Nat
  /\ MaxAttempts \in Nat \ {0}
  /\ FirstBackoff \in Nat \ {0} /\ MaxBackoff \in Nat
  /\ DefaultNetwork \in Nat \ {0} /\ SaneNetwork \in Nat \ {0}
  /\ Cores \in Nat \ {0}
  /\ Unset \notin Int

Lesser(a, b) == IF a <= b THEN a ELSE b
Greater(a, b) == IF a <= b THEN b ELSE a
Total(packages) == FoldFunction(+, 0, packages)

VARIABLES
  documents,   \* the packages of each document of this run
  shared,      \* the shared lookup is still to come
  configured,  \* LIMITS.network
  granted,     \* the largest pool the system lets this process build
  doc,         \* the documents begun
  work,        \* WORK
  pool,        \* NETWORK_POOL: its threads, 0 when there is no pool
  queue,       \* jobs no thread has taken yet
  busy,        \* jobs whose request is in flight
  asleep,      \* jobs whose thread waits to try again
  attempt,     \* the attempts each job has made
  spent,       \* the milliseconds its thread has slept
  result       \* the outcomes: "settled" or "busy"

run == <<documents, configured, granted>>
vars == <<run, shared, doc, work, pool, queue, busy, asleep, attempt, spent, result>>

Jobs == 1..Total(documents)

\* Limits::with.
Network(requested) ==
  IF requested > 0 THEN Lesser(requested, SaneNetwork) ELSE DefaultNetwork

\* Mutant: no work asks for no thread.
CappedAtNone(n, w) == IF w = Unset THEN n ELSE Lesser(n, w)

\* capped: never more than there is work to do, never fewer than one.
Capped(n, w) == Greater(1, IF w = Unset THEN n ELSE Lesser(n, w))

\* What rayon makes of num_threads(n): zero asks for a thread per core.
Built(n) == IF n = 0 THEN Cores ELSE n

\* network_pool tries three sizes and keeps the first the system grants; 0 is
\* no pool.
PoolSize(wanted) ==
  LET sizes   == <<wanted, Lesser(DefaultNetwork, wanted), 1>>
      granting == {i \in 1..3 : Built(sizes[i]) <= granted}
  IN  IF granting = {} THEN 0
      ELSE Built(sizes[CHOOSE i \in granting : \A k \in granting : i <= k])

\* Mutant: without a pool nobody makes the requests.
PoolThreads == IF pool = Unset THEN 0 ELSE pool

\* The threads that make requests: without a pool, the caller's.
Threads == IF pool = Unset THEN 0 ELSE Greater(1, pool)

\* backoff, for the attempt that has just failed and a jitter from the clock.
\* `attempt.min(8)` keeps the shift within an i32.
Backoff(n, jitter) ==
  LET base == Lesser(FirstBackoff * 2 ^ (Greater(1, Lesser(n, 8)) - 1), MaxBackoff)
  IN  base + (jitter % Greater(1, base \div 4))

Init ==
  /\ documents \in Runs
  /\ shared \in Sharing
  /\ configured \in {Network(c) : c \in Configs}
  /\ granted \in Grants
  /\ doc = 0
  /\ work = Unset
  /\ pool = Unset
  /\ queue = {} /\ busy = {} /\ asleep = {}
  /\ attempt = [j \in Jobs |-> 0]
  /\ spent = [j \in Jobs |-> 0]
  /\ result = [j \in {} |-> "settled"]

\* No batch of jobs is being worked on.
Free == queue \cup busy \cup asleep = {}

\* concurrency::map over n jobs: the pool is built if it is not there, and the
\* jobs are handed out.  An empty batch returns at once.
Map(n) ==
  IF n = 0 THEN UNCHANGED <<pool, queue, attempt, spent, result>>
  ELSE /\ pool' = IF pool = Unset THEN PoolSize(Capped(configured, work')) ELSE pool
       /\ queue' = 1..n
       /\ attempt' = [j \in Jobs |-> 0]
       /\ spent' = [j \in Jobs |-> 0]
       /\ result' = [j \in {} |-> "settled"]

\* shared_enrichment looks the packages of every document up before the loop;
\* documents may have packages in common.
SharedLookup ==
  /\ shared /\ Free
  /\ shared' = FALSE
  /\ work' = work
  /\ \E n \in Jobs : (\A d \in DOMAIN documents : documents[d] <= n) /\ Map(n)
  /\ UNCHANGED <<run, doc, busy, asleep>>

\* The loop's next document: limit_to_work, whose first call counts, and a map.
NextDocument ==
  /\ ~shared /\ Free
  /\ doc < Len(documents)
  /\ doc' = doc + 1
  /\ work' = IF work = Unset THEN documents[doc'] ELSE work
  /\ Map(documents[doc'])
  /\ UNCHANGED <<run, shared, busy, asleep>>

\* A thread with nothing to do takes a job and sends its request.
Take(j) ==
  /\ j \in queue
  /\ Cardinality(busy \cup asleep) < Threads
  /\ queue' = queue \ {j}
  /\ busy' = busy \cup {j}
  /\ attempt' = [attempt EXCEPT ![j] = 1]
  /\ UNCHANGED <<run, shared, doc, work, pool, asleep, spent, result>>

Returns(j, outcome) ==
  /\ busy' = busy \ {j}
  /\ result' = [k \in DOMAIN result \cup {j} |->
                  IF k = j THEN outcome ELSE result[k]]
  /\ UNCHANGED <<run, shared, doc, work, pool, queue, asleep, attempt, spent>>

\* The request succeeds, or fails in a way that waiting does not change.
Settles(j) == j \in busy /\ Returns(j, "settled")

\* Whether with_retries tries once more after a 429, 502, 503 or 504.
MayRetry(j, pause) == attempt[j] < MaxAttempts /\ spent[j] + pause <= MaxBackoff

Busy(j, pause) ==
  /\ j \in busy
  /\ IF MayRetry(j, pause)
       THEN /\ busy' = busy \ {j}
            /\ asleep' = asleep \cup {j}
            /\ spent' = [spent EXCEPT ![j] = @ + pause]
            /\ UNCHANGED <<run, shared, doc, work, pool, queue, attempt, result>>
       ELSE Returns(j, "busy")

Wakes(j) ==
  /\ j \in asleep
  /\ asleep' = asleep \ {j}
  /\ busy' = busy \cup {j}
  /\ attempt' = [attempt EXCEPT ![j] = @ + 1]
  /\ UNCHANGED <<run, shared, doc, work, pool, queue, spent, result>>

\* The least and the most the jitter adds.
Pauses(n) == {Backoff(n, 0), Backoff(n, Greater(1, Backoff(n, 0) \div 4) - 1)}

JobStep(j) ==
  \/ Take(j) \/ Settles(j) \/ Wakes(j)
  \/ \E pause \in Pauses(attempt[j]) : Busy(j, pause)

Next == SharedLookup \/ NextDocument \/ \E j \in Jobs : JobStep(j)

\* A thread whose request was answered or whose sleep is over goes on, and one
\* with nothing to do takes the next job.
Spec == Init /\ [][Next]_vars /\ WF_vars(Next)

-----------------------------------------------------------------------------
\* However many documents share the pool, and whatever the system refuses, no
\* more requests are in flight than the configuration allows; and no request adds
\* more to the run than MAX_BACKOFF by sleeping, nor is it sent more often than
\* MAX_ATTEMPTS, whatever the jitter.
NeverMoreThanConfigured ==
  /\ Cardinality(busy \cup asleep) <= configured
  /\ \A j \in Jobs : attempt[j] <= MaxAttempts /\ spent[j] <= MaxBackoff

\* Every document is worked through, however often its upstreams are busy and
\* with however few threads.
EveryDocumentIsFinished == <>(doc = Len(documents) /\ Free)
=============================================================================

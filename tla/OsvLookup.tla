------------------------------ MODULE OsvLookup ------------------------------
(***************************************************************************)
(* --vulnerabilities osv (osv.rs, Lookup::run_with): which advisories each   *)
(* queryable purl has, from the query cache or from paginated querybatch    *)
(* requests, and the record of each advisory, from the record cache or      *)
(* fetched by a pool of workers.                                            *)
(*                                                                          *)
(* One run at a time uses the two caches; it may be killed at any step and  *)
(* run again.  The database OSV serves is the environment: which advisories *)
(* a purl has is fixed, and an advisory may be modified at any time, which  *)
(* moves its `modified` stamp.                                              *)
(***************************************************************************)
EXTENDS Integers, Sequences, FiniteSets, SequencesExt

CONSTANTS
  PurlOrder,    \* the queryable purls of the document, in the order of a BTreeMap
  Advisories,   \* OSV's answer for each purl, in the order it is served
  CacheName,    \* query_cache_name: the cache file of each purl
  PageSize,     \* advisories OSV puts on a page
  BatchSize,    \* BATCH_SIZE
  MaxAge,       \* QUERY_MAX_AGE, in ticks
  Unstamped,    \* the advisories OSV names without a `modified`
  MaxTime,      \* bound on the clock
  Unmodified,   \* bound: the advisories OSV does not modify; it modifies others once
  None          \* no file, no answer

Purls == ToSet(PurlOrder)
Ids == UNION {ToSet(Advisories[p]) : p \in Purls}
Files == {CacheName[p] : p \in Purls}

\* Stamp 0 is an advisory served without a `modified`.
Versions == {1, 2}
Stamps == {0} \cup Versions
Refs == [id : Ids, stamp : Stamps]

ASSUME OsvAssumption ==
  /\ PurlOrder \in Seq(Purls) /\ IsInjective(PurlOrder)
  /\ Advisories \in [Purls -> Seq(Ids)]
  /\ PageSize \in Nat \ {0} /\ BatchSize \in Nat \ {0}
  /\ MaxAge \in Nat \ {0} /\ MaxTime \in Nat
  /\ None \notin Versions

VARIABLES
  clock,
  stamp,        \* the version of each advisory OSV serves now
  queries,      \* the query cache: per file, whose answer, of when, and the refs
  records,      \* the record cache: the version of each advisory it holds
  pc,
  offline,      \* http::offline()
  policy,       \* cache::Policy for the osv cache
  now,          \* SystemTime::now() at the start of the run
  out,          \* `out` of query: the refs of each purl, None when not yet known
  unanswered,   \* the purls counted in Outcome::unanswered
  pending,      \* the purls still to be asked about, and
  chunk,        \* those being asked about
  page,         \* the next page of each purl in the chunk
  done,         \* the purls of the chunk whose pages are all in
  collected,    \* what those pages held
  toStore,      \* the purls of the chunk whose answer is still to be cached
  record,       \* the version of each advisory's record, None when not obtained
  toFetch,      \* the advisories the workers have not come to
  turn,         \* flips with every request, so that each one is a step
  shorted,      \* history: OSV once answered fewer queries than it was asked
  changed       \* history: when OSV modified each advisory, None if it has not

world == <<clock, stamp, changed>>
cache == <<queries, records>>
setup == <<offline, policy, now>>
asking == <<page, done, collected>>
vars == <<world, cache, pc, setup, out, unanswered, pending, chunk, asking,
          toStore, record, toFetch, turn, shorted>>

MayRead == policy = "default"
MayWrite == policy # "noCache"

Min2(a, b) == IF a < b THEN a ELSE b

\* The pages OSV serves for a purl, numbered from 0; an empty answer has one.
LastPage(p) ==
  IF Advisories[p] = <<>> THEN 0 ELSE (Len(Advisories[p]) - 1) \div PageSize
PageIds(p, k) ==
  ToSet(SubSeq(Advisories[p], k * PageSize + 1,
               Min2((k + 1) * PageSize, Len(Advisories[p]))))

RefIds(refs) == {r.id : r \in refs}

\* The members of a sequence that are in S, in their order.
Those(s, S) ==
  LET those[n \in 0..Len(s)] ==
        IF n = 0 THEN <<>>
        ELSE IF s[n] \in S THEN Append(those[n - 1], s[n]) ELSE those[n - 1]
  IN  those[Len(s)]

\* `modified`: the stamp of the last purl, in order, that names the advisory.
Modified(id) ==
  LET last == CHOOSE i \in DOMAIN PurlOrder :
                /\ id \in RefIds(out[PurlOrder[i]])
                /\ \A j \in DOMAIN PurlOrder :
                     id \in RefIds(out[PurlOrder[j]]) => j <= i
  IN  (CHOOSE r \in out[PurlOrder[last]] : r.id = id).stamp

Idle ==
  /\ offline = FALSE
  /\ policy = "default"
  /\ now = 0
  /\ out = [p \in Purls |-> None]
  /\ unanswered = {}
  /\ pending = <<>>
  /\ chunk = <<>>
  /\ page = [p \in Purls |-> 0]
  /\ done = {}
  /\ collected = [p \in Purls |-> {}]
  /\ toStore = <<>>
  /\ record = [i \in Ids |-> None]
  /\ toFetch = {}
  /\ turn = FALSE

Init ==
  /\ clock = 0
  /\ stamp = [i \in Ids |-> 1]
  /\ changed = [i \in Ids |-> None]
  /\ queries = [f \in Files |-> None]
  /\ records = [i \in Ids |-> None]
  /\ pc = "idle"
  /\ shorted = FALSE
  /\ Idle

\* A purl is answered from its cache file when that file is an hour old at most,
\* or the run is offline.  Nothing compares the purl the file names with p.
Cached(p) ==
  /\ queries[CacheName[p]] # None
  /\ offline' \/ clock - queries[CacheName[p]].at < MaxAge
  /\ policy' = "default"

Start ==
  /\ pc = "idle"
  /\ pc' = "query"
  /\ offline' \in BOOLEAN
  /\ policy' \in {"default", "refresh", "noCache"}
  /\ now' = clock
  /\ out' = [p \in Purls |->
               IF Cached(p) THEN queries[CacheName[p]].refs
               ELSE IF offline' THEN {} ELSE None]
  /\ unanswered' = {p \in Purls : ~Cached(p) /\ offline'}
  /\ pending' = Those(PurlOrder, {p \in Purls : ~Cached(p) /\ ~offline'})
  /\ UNCHANGED <<world, cache, chunk, asking, toStore, record, toFetch, turn, shorted>>

\* The next thousand purls; `done`, `tokens` and `collected` start empty.
NextChunk ==
  /\ pc = "query"
  /\ pending # <<>>
  /\ LET n == Min2(BatchSize, Len(pending)) IN
       /\ chunk' = SubSeq(pending, 1, n)
       /\ pending' = SubSeq(pending, n + 1, Len(pending))
  /\ pc' = "post"
  /\ UNCHANGED <<world, cache, setup, out, unanswered, asking, toStore, record,
                 toFetch, turn, shorted>>

\* The purls of the chunk with a page left, in order: what the request asks.
Open == Those(chunk, Purls \ done)

\* Mutant: the results are zipped with the chunk, finished purls included.
TargetInChunk(j) == chunk[j]

\* The purl the j-th result of the response is taken for.
Target(j) == Open[j]

\* The purls the results are taken for, with the query each one answers.
Results(n) == {<<Target(j), Open[j]>> : j \in 1..n}

\* Mutant: a purl without a result is asked about again.
PostAgain(n) ==
  /\ pc = "post"
  /\ shorted' = (shorted \/ n < Len(Open))
  /\ LET answered == {Open[j] : j \in 1..n}
         more == {p \in answered : page[p] < LastPage(p)}
     IN  /\ page' = [p \in Purls |-> IF p \in more THEN page[p] + 1 ELSE page[p]]
         /\ done' = done \cup (answered \ more)
  /\ turn' = ~turn
  /\ pc' = IF ToSet(chunk) \subseteq done' THEN "store" ELSE "post"
  /\ toStore' = IF pc' = "store" THEN chunk ELSE <<>>
  /\ UNCHANGED <<world, cache, setup, out, unanswered, pending, chunk, collected,
                 record, toFetch>>

\* The j-th result, if there is one, holds a page and, unless it is the last,
\* the token of the next one.  A purl without a result is done.
Post(n) ==
  /\ pc = "post"
  /\ shorted' = (shorted \/ n < Len(Open))
  /\ collected' =
       [p \in Purls |->
          collected[p] \cup
          {[id |-> i, stamp |-> IF i \in Unstamped THEN 0 ELSE stamp[i]] :
             i \in UNION {PageIds(r[2], page[r[2]]) :
                            r \in {x \in Results(n) : x[1] = p}}}]
  /\ LET more == {r[1] : r \in {x \in Results(n) : page[x[2]] < LastPage(x[2])}}
     IN  /\ page' = [p \in Purls |-> IF p \in more THEN page[p] + 1 ELSE page[p]]
         /\ done' = done \cup (ToSet(Open) \ more)
  /\ turn' = ~turn
  /\ pc' = IF ToSet(chunk) \subseteq done' THEN "store" ELSE "post"
  /\ toStore' = IF pc' = "store" THEN chunk ELSE <<>>
  /\ UNCHANGED <<world, cache, setup, out, unanswered, pending, chunk, record,
                 toFetch>>

\* The request fails or its answer is not JSON: the run ends with an error.
PostFails ==
  /\ pc = "post"
  /\ pc' = "failed"
  /\ UNCHANGED <<world, cache, setup, out, unanswered, pending, chunk, asking,
                 toStore, record, toFetch, turn, shorted>>

\* store_query, which a full disk may defeat, and out.insert.
StoreQuery ==
  /\ pc = "store"
  /\ toStore # <<>>
  /\ LET p == Head(toStore) IN
       /\ \/ /\ MayWrite
             /\ queries' = [queries EXCEPT ![CacheName[p]] =
                              [purl |-> p, at |-> now, refs |-> collected[p]]]
          \/ UNCHANGED queries
       /\ out' = [out EXCEPT ![p] = collected[p]]
  /\ toStore' = Tail(toStore)
  /\ UNCHANGED <<world, records, pc, setup, unanswered, pending, chunk, asking,
                 record, toFetch, turn, shorted>>

ChunkStored ==
  /\ pc = "store"
  /\ toStore = <<>>
  /\ pc' = "query"
  /\ chunk' = <<>>
  /\ page' = [p \in Purls |-> 0]
  /\ done' = {}
  /\ collected' = [p \in Purls |-> {}]
  /\ turn' = FALSE
  /\ UNCHANGED <<world, cache, setup, out, unanswered, pending, toStore, record,
                 toFetch, shorted>>

\* Every purl has its refs: the workers are given the advisories.
QueryDone ==
  /\ pc = "query"
  /\ pending = <<>>
  /\ toFetch' = UNION {RefIds(out[p]) : p \in Purls}
  /\ pc' = "records"
  /\ UNCHANGED <<world, cache, setup, out, unanswered, pending, chunk, asking,
                 toStore, record, turn, shorted>>

\* Mutant: a cached record never goes out of date.
AnyCachedRecord(i) == MayRead /\ records[i] # None

\* The cached record may stand in: it parses, and it is the version the query
\* spoke of, or nothing says which version that is.
CachedRecord(i) ==
  /\ MayRead
  /\ records[i] # None
  /\ offline \/ Modified(i) = 0 \/ records[i] = Modified(i)

RecordCached(i) ==
  /\ pc = "records"
  /\ i \in toFetch /\ CachedRecord(i)
  /\ record' = [record EXCEPT ![i] = records[i]]
  /\ toFetch' = toFetch \ {i}
  /\ UNCHANGED <<world, cache, pc, setup, out, unanswered, pending, chunk, asking,
                 toStore, turn, shorted>>

\* The record is fetched as OSV has it now, and cached if it can be.
RecordFetched(i) ==
  /\ pc = "records"
  /\ i \in toFetch /\ ~CachedRecord(i) /\ ~offline
  /\ record' = [record EXCEPT ![i] = stamp[i]]
  /\ \/ MayWrite /\ records' = [records EXCEPT ![i] = stamp[i]]
     \/ UNCHANGED records
  /\ toFetch' = toFetch \ {i}
  /\ UNCHANGED <<world, queries, pc, setup, out, unanswered, pending, chunk,
                 asking, toStore, turn, shorted>>

\* Offline, or the request failed, or its answer does not parse: the advisory
\* is kept by its id.
RecordMissing(i) ==
  /\ pc = "records"
  /\ i \in toFetch /\ ~CachedRecord(i)
  /\ toFetch' = toFetch \ {i}
  /\ UNCHANGED <<world, cache, pc, setup, out, unanswered, pending, chunk, asking,
                 toStore, record, turn, shorted>>

RecordsDone ==
  /\ pc = "records"
  /\ toFetch = {}
  /\ pc' = "done"
  /\ UNCHANGED <<world, cache, setup, out, unanswered, pending, chunk, asking,
                 toStore, record, toFetch, turn, shorted>>

\* The run ends, or is killed; the cache files it was writing do not parse and
\* read as none.
Forget ==
  /\ offline' = FALSE
  /\ policy' = "default"
  /\ now' = 0
  /\ out' = [p \in Purls |-> None]
  /\ unanswered' = {}
  /\ pending' = <<>>
  /\ chunk' = <<>>
  /\ page' = [p \in Purls |-> 0]
  /\ done' = {}
  /\ collected' = [p \in Purls |-> {}]
  /\ toStore' = <<>>
  /\ record' = [i \in Ids |-> None]
  /\ toFetch' = {}
  /\ turn' = FALSE
  /\ pc' = "idle"
  /\ UNCHANGED <<world, shorted>>

Finish == pc \in {"done", "failed"} /\ Forget /\ UNCHANGED cache

Kill ==
  /\ pc \notin {"idle", "done", "failed"}
  /\ Forget
  /\ \/ UNCHANGED cache
     \/ /\ pc = "store" /\ toStore # <<>> /\ MayWrite
        /\ queries' = [queries EXCEPT ![CacheName[Head(toStore)]] = None]
        /\ UNCHANGED records
     \/ /\ pc = "records" /\ MayWrite /\ ~offline
        /\ \E S \in SUBSET {i \in toFetch : ~CachedRecord(i)} :
             records' = [i \in Ids |-> IF i \in S THEN None ELSE records[i]]
        /\ UNCHANGED queries

\* OSV modifies an advisory; time passes.
Modify(i) ==
  /\ i \notin Unmodified /\ stamp[i] = 1
  /\ stamp' = [stamp EXCEPT ![i] = 2]
  /\ changed' = [changed EXCEPT ![i] = clock]
  /\ UNCHANGED <<clock, cache, pc, setup, out, unanswered, pending, chunk, asking,
                 toStore, record, toFetch, turn, shorted>>

Tick ==
  /\ clock < MaxTime
  /\ clock' = clock + 1
  /\ UNCHANGED <<stamp, changed, cache, pc, setup, out, unanswered, pending, chunk, asking,
                 toStore, record, toFetch, turn, shorted>>

RecordStep(i) == RecordCached(i) \/ RecordFetched(i) \/ RecordMissing(i)

\* The steps the running program takes of itself: every request comes to an end
\* (http.rs sets a timeout), but none has to fail.
Work ==
  \/ NextChunk \/ StoreQuery \/ ChunkStored \/ QueryDone
  \/ \E n \in 0..Len(Open) : Post(n)
  \/ \E i \in Ids : RecordStep(i)
  \/ RecordsDone

Next ==
  \/ Start \/ Work \/ PostFails \/ Finish \/ Kill \/ Tick
  \/ \E i \in Ids : Modify(i)

\* A run that is not killed keeps going.
Spec == Init /\ [][Next]_vars /\ WF_vars(Work)

-----------------------------------------------------------------------------
Known(p) == ToSet(Advisories[p])

\* A lookup that succeeds has, for every purl, exactly the advisories OSV has
\* for it, over all its pages and whatever pages the other purls of its request
\* needed, unless it counted the purl as unanswered or OSV once gave the run, or
\* one that filled the cache, fewer answers than it was asked for.  However few
\* answers OSV gives, no purl gets another one's advisories.
AdvisoriesAreExact ==
  pc \in {"records", "done"} =>
    \A p \in Purls :
      /\ RefIds(out[p]) \subseteq Known(p)
      /\ Known(p) \subseteq RefIds(out[p]) \/ p \in unanswered \/ shorted

\* The records a lookup builds its findings from are of the last MaxAge: what OSV
\* modified that long before the run began is not described as it was before, by
\* whatever queries and records of earlier runs, killed or not, are in the caches.
\* It is about the advisories that OSV gives a `modified` for, and online runs.
RecordIsRecent ==
  pc \in {"records", "done"} /\ ~offline =>
    \A i \in Ids \ Unstamped :
      record[i] = 1 => changed[i] = None \/ changed[i] > now - MaxAge

\* Records are cached "until their `modified` stamp moves" (osv.rs:8): no finding
\* is built from a version older than one that an answer of the same run names.
\* The code compares with one answer only, the last in the order of the purls,
\* and that one may come from the cache.
RecordFollowsStamps ==
  pc \in {"records", "done"} /\ ~offline =>
    \A p \in Purls : \A r \in out[p] :
      record[r.id] # None => record[r.id] >= r.stamp

\* A lookup ends, also when OSV answers fewer queries than it was asked.
LookupEnds == (pc # "idle") ~> (pc \in {"idle", "done", "failed"})
=============================================================================

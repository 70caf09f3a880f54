------------------------------ MODULE DocCache ------------------------------
(***************************************************************************)
(* The one-document caches of pixi-sbom: the conda-forge to PyPI mapping    *)
(* (mapping.rs, PypiMapping::fetch_with), the CISA KEV catalog (kev.rs,     *)
(* Catalog::load_with) and one OpenSSF scorecard (scorecard.rs,             *)
(* Lookup::scorecard).  All three keep one file in a cache directory that   *)
(* every invocation of the program shares, read it first, download a new    *)
(* one when it is too old, and write the download back with std::fs::write, *)
(* which truncates the file and then fills it.                              *)
(*                                                                          *)
(* A loader is one call of the loading function: a process, or for the      *)
(* scorecards one of the worker threads of a process (two packages of one   *)
(* repository share a cache file).  A body downloaded at time t is          *)
(* represented by t, so that the age of what a loader answers with can be   *)
(* compared with the lifetime the code promises.                            *)
(***************************************************************************)
EXTENDS Integers

CONSTANTS
  Loaders,     \* calls of the loading function, in any number of processes
  Services,    \* which of the three documents this instance may be about
  MaxAge,      \* CACHE_MAX_AGE, in ticks
  WriteLag,    \* the longest a download waits to be written, in ticks
  MaxTime,     \* bound on the clock
  None,        \* no file, no text, no answer
  Torn,        \* an empty, partial or interleaved file
  Bad          \* a body the upstream served with status 200 that is not JSON

Time == 0..MaxTime

ASSUME DocCacheAssumption ==
  /\ Services \subseteq {"mapping", "kev", "scorecard"}
  /\ MaxAge \in Nat
  /\ WriteLag \in Nat
  /\ MaxTime \in Nat
  /\ {None, Torn, Bad} \cap Int = {}
  /\ None # Torn /\ None # Bad /\ Torn # Bad

Policies == {"default", "refresh", "noCache"}
Texts == Time \cup {None, Torn, Bad}

VARIABLES
  service,     \* the document this behaviour is about
  clock,       \* the wall clock
  file,        \* the cache file: its text and its modification time
  pc,          \* where each loader is
  policy,      \* cache::Policy of the loader's process
  offline,     \* http::offline() in the loader's process
  now,         \* SystemTime::now() as the loader captured it
  text,        \* `cached`: the text the loader read
  aged,        \* history: the text the file held when its age was read
  body,        \* the body the loader downloaded
  how,         \* how the call ended
  answer,      \* what it returned
  marked       \* whether it called cache::stale

disk == <<service, clock, file>>
vars == <<service, clock, file, pc, policy, offline, now, text, aged, body,
          how, answer, marked>>

Parses(t) == t \in Time

\* cache::Policy::may_read and may_write.
MayRead(l) == policy[l] = "default"
MayWrite(l) == policy[l] # "noCache"

\* The age test of the three loaders.  The mapping has no offline clause and
\* takes a file written after `now` for one of unknown age; the other two
\* take it for a fresh one.
Young(l, mtime) ==
  /\ mtime # None
  /\ \/ /\ now[l] - mtime <= MaxAge
        /\ mtime <= now[l] \/ service # "mapping"
     \/ offline[l] /\ service # "mapping"

\* Only the scorecard is cached before it is parsed.
Keeps(b) == Parses(b) \/ service = "scorecard"

\* Mutant: the mapping does not say so either.
OnlyKevSaysStale == service = "kev"

\* Only the mapping and the catalog say so when a stale copy stands in.
SaysStale == service # "scorecard"

Init ==
  /\ service \in Services
  /\ clock = 0
  /\ file = [text |-> None, mtime |-> None]
  /\ pc = [l \in Loaders |-> "idle"]
  /\ policy = [l \in Loaders |-> "default"]
  /\ offline = [l \in Loaders |-> FALSE]
  /\ now = [l \in Loaders |-> 0]
  /\ text = [l \in Loaders |-> None]
  /\ aged = [l \in Loaders |-> None]
  /\ body = [l \in Loaders |-> None]
  /\ how = [l \in Loaders |-> "none"]
  /\ answer = [l \in Loaders |-> None]
  /\ marked = [l \in Loaders |-> FALSE]

\* A call of load/fetch/scorecard begins: the policy, PIXI_SBOM_OFFLINE and the
\* clock are captured.  --refresh and --no-cache exclude each other.
Start(l) ==
  /\ pc[l] = "idle"
  /\ pc' = [pc EXCEPT ![l] = "text"]
  /\ \E p \in Policies : policy' = [policy EXCEPT ![l] = p]
  /\ \E o \in BOOLEAN : offline' = [offline EXCEPT ![l] = o]
  /\ now' = [now EXCEPT ![l] = clock]
  /\ UNCHANGED <<disk, text, aged, body, how, answer, marked>>

\* let cached = std::fs::read_to_string(&cache_file).ok(): a tear inside a
\* UTF-8 sequence reads as no copy.
ReadText(l) ==
  /\ pc[l] = "text"
  /\ pc' = [pc EXCEPT ![l] = "age"]
  /\ \/ text' = [text EXCEPT ![l] = file.text]
     \/ file.text = Torn /\ text' = [text EXCEPT ![l] = None]
  /\ UNCHANGED <<disk, policy, offline, now, aged, body, how, answer, marked>>

\* Mutant: the call answers with a text that does not parse.
ConcludeUnparsed(l, source, t) ==
  /\ pc' = [pc EXCEPT ![l] = "done"]
  /\ how' = [how EXCEPT ![l] = source]
  /\ answer' = [answer EXCEPT ![l] = t]

\* The call returns with what parsing t gives.
Conclude(l, source, t) ==
  /\ pc' = [pc EXCEPT ![l] = "done"]
  /\ how' = [how EXCEPT ![l] = IF Parses(t) THEN source ELSE "failed"]
  /\ answer' = [answer EXCEPT ![l] = IF Parses(t) THEN t ELSE None]

\* The age is read after the text, and the copy is young enough: a hit.
Hit(l) ==
  /\ pc[l] = "age"
  /\ text[l] # None /\ Young(l, file.mtime) /\ MayRead(l)
  /\ aged' = [aged EXCEPT ![l] = file.text]
  /\ Conclude(l, "hit", text[l])
  /\ UNCHANGED <<disk, policy, offline, now, text, body, marked>>

\* No copy, too old a copy, or one that may not be read: a miss.
Miss(l) ==
  /\ pc[l] = "age"
  /\ ~(text[l] # None /\ Young(l, file.mtime) /\ MayRead(l))
  /\ aged' = [aged EXCEPT ![l] = file.text]
  /\ pc' = [pc EXCEPT ![l] = "fetch"]
  /\ UNCHANGED <<disk, policy, offline, now, text, body, how, answer, marked>>

\* The download succeeds; b is the document of this moment or not JSON at all.
Fetch(l, b) ==
  /\ pc[l] = "fetch"
  /\ ~offline[l]
  /\ body' = [body EXCEPT ![l] = b]
  /\ IF MayWrite(l) /\ Keeps(b)
       THEN pc' = [pc EXCEPT ![l] = "open"] /\ UNCHANGED <<how, answer>>
       ELSE Conclude(l, "fetched", b)
  /\ UNCHANGED <<disk, policy, offline, now, text, aged, marked>>

\* The download fails, as every one does offline: the copy read at the start
\* stands in, whatever the policy was.
FetchFails(l) ==
  /\ pc[l] = "fetch"
  /\ marked' = [marked EXCEPT ![l] = text[l] # None /\ SaysStale]
  /\ Conclude(l, "copy", text[l])
  /\ UNCHANGED <<disk, policy, offline, now, text, aged, body>>

\* The first half of std::fs::write: File::create truncates.
Open(l) ==
  /\ pc[l] = "open"
  /\ file' = [text |-> Torn, mtime |-> clock]
  /\ pc' = [pc EXCEPT ![l] = "fill"]
  /\ UNCHANGED <<service, clock, policy, offline, now, text, aged, body, how,
                 answer, marked>>

\* The directory or the file cannot be created: a warning, and the answer.
OpenFails(l) ==
  /\ pc[l] = "open"
  /\ Conclude(l, "fetched", body[l])
  /\ UNCHANGED <<disk, policy, offline, now, text, aged, body, marked>>

\* The second half: the bytes land.  Where another loader's bytes already are,
\* a shorter body leaves the tail of the other one behind it.
Fill(l) ==
  /\ pc[l] = "fill"
  /\ \/ file' = [text |-> body[l], mtime |-> clock]
     \/ /\ file.text \notin {Torn, body[l]}
        /\ file' = [text |-> Torn, mtime |-> clock]
  /\ Conclude(l, "fetched", body[l])
  /\ UNCHANGED <<service, clock, policy, offline, now, text, aged, body, marked>>

\* The disk fills up half way: a warning, and the answer.
FillFails(l) ==
  /\ pc[l] = "fill"
  /\ file' = [text |-> Torn, mtime |-> clock]
  /\ Conclude(l, "fetched", body[l])
  /\ UNCHANGED <<service, clock, policy, offline, now, text, aged, body, marked>>

\* The call's frame is gone, because it returned or its process was killed.
Forget(l) ==
  /\ pc' = [pc EXCEPT ![l] = "idle"]
  /\ policy' = [policy EXCEPT ![l] = "default"]
  /\ offline' = [offline EXCEPT ![l] = FALSE]
  /\ now' = [now EXCEPT ![l] = 0]
  /\ text' = [text EXCEPT ![l] = None]
  /\ aged' = [aged EXCEPT ![l] = None]
  /\ body' = [body EXCEPT ![l] = None]
  /\ how' = [how EXCEPT ![l] = "none"]
  /\ answer' = [answer EXCEPT ![l] = None]
  /\ marked' = [marked EXCEPT ![l] = FALSE]
  /\ UNCHANGED disk

Finish(l) == pc[l] = "done" /\ Forget(l)

Crash(l) == pc[l] \notin {"idle", "done"} /\ Forget(l)

\* Time passes, but no further than a write may lag behind its download.
Tick ==
  /\ clock < MaxTime
  /\ \A l \in Loaders :
       pc[l] \in {"open", "fill"} /\ Parses(body[l]) => clock - body[l] < WriteLag
  /\ clock' = clock + 1
  /\ UNCHANGED <<service, file, pc, policy, offline, now, text, aged, body, how,
                 answer, marked>>

Step(l) ==
  \/ Start(l) \/ ReadText(l) \/ Hit(l) \/ Miss(l)
  \/ \E b \in {clock, Bad} : Fetch(l, b)
  \/ FetchFails(l) \/ Open(l) \/ OpenFails(l) \/ Fill(l) \/ FillFails(l)
  \/ Finish(l) \/ Crash(l)

Next == Tick \/ \E l \in Loaders : Step(l)

Spec == Init /\ [][Next]_vars

-----------------------------------------------------------------------------
\* Every variable has its type.
TypeOK ==
  /\ service \in Services
  /\ clock \in Time
  /\ file \in [text : Texts, mtime : Time \cup {None}]
  /\ pc \in [Loaders -> {"idle", "text", "age", "fetch", "open", "fill", "done"}]
  /\ policy \in [Loaders -> Policies]
  /\ offline \in [Loaders -> BOOLEAN]
  /\ now \in [Loaders -> Time]
  /\ text \in [Loaders -> Texts]
  /\ aged \in [Loaders -> Texts]
  /\ body \in [Loaders -> Time \cup {None, Bad}]
  /\ how \in [Loaders -> {"none", "hit", "fetched", "copy", "failed"}]
  /\ answer \in [Loaders -> Time \cup {None}]
  /\ marked \in [Loaders -> BOOLEAN]

Answered(l) == pc[l] = "done" /\ answer[l] # None

\* The answer is older than the lifetime the code promises.
Expired(l) == now[l] - answer[l] > MaxAge + WriteLag

\* Another loader replaced the file between the reads of its text and its age.
Raced(l) == text[l] # aged[l]

\* A call that could have asked the network never answers with a mapping or a
\* catalog past its lifetime without calling cache::stale, whatever other
\* processes write, crash in the middle of or download late, unless one of them
\* replaced the file between the two reads the loader makes of it.
NoSilentStaleness ==
  service # "scorecard" =>
    \A l \in Loaders :
      Answered(l) /\ ~marked[l] /\ ~offline[l] /\ ~Raced(l) => ~Expired(l)

\* A copy that any of the loaders takes for a fresh one is within its lifetime,
\* with the same exception.
HitIsYoung ==
  \A l \in Loaders :
    Answered(l) /\ how[l] = "hit" /\ ~offline[l] /\ ~Raced(l) => ~Expired(l)

\* A mapping or a catalog that does not parse is never left in the cache for
\* later runs: the loader parses what it downloaded before it writes it.
OnlyParsedBodiesKept == file.text = Bad => service = "scorecard"

\* A step of a --no-cache run leaves the file as it was, also when it shares
\* the file with runs that write it.
NoCacheLeavesTheFile ==
  [][\A l \in Loaders :
       policy[l] = "noCache" /\ pc'[l] # pc[l] => file' = file]_vars

-----------------------------------------------------------------------------
\* What makes the modification time of the file a witness of the age of its
\* text: it was written at most WriteLag after the download, as was announced
\* when it was opened.
FileIsDated ==
  file.text \in Time => file.mtime \in Time /\ file.mtime - file.text <= WriteLag

\* A loader about to write may write, holds a body it keeps, and holds one that
\* is younger than its call and no older than WriteLag.
WriterIsCurrent(l) ==
  pc[l] \in {"open", "fill"} =>
    /\ MayWrite(l)
    /\ Keeps(body[l])
    /\ body[l] \in Time => now[l] <= body[l] /\ clock - body[l] <= WriteLag

\* What a loader that has answered owes the answer to.
AnswerIsDated(l) ==
  Answered(l) =>
    /\ how[l] = "fetched" => now[l] <= answer[l]
    /\ how[l] = "hit" /\ ~offline[l] /\ ~Raced(l) => ~Expired(l)
    /\ how[l] = "copy" /\ SaysStale => marked[l]
    /\ how[l] \in {"fetched", "hit", "copy"}

\* The inductive invariant: the dates above, for which the clock never runs
\* behind a call that is under way, and no page that does not parse on disk.
DatesInv ==
  /\ FileIsDated
  /\ OnlyParsedBodiesKept
  /\ \A l \in Loaders :
       now[l] <= clock /\ WriterIsCurrent(l) /\ AnswerIsDated(l)
=============================================================================

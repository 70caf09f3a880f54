---------------------------- MODULE Outdated_proofs ----------------------------
(***************************************************************************)
(* What holds of --report outdated for any documents, runs and indexes,      *)
(* whatever is published meanwhile, whichever requests and batches fail, and  *)
(* over the cache that any earlier runs left, killed or not: each package is  *)
(* held against its own history or none, and is in the one list of the        *)
(* report that says why; and a row says how far behind the package was when   *)
(* its index was asked, or more by what was published since.                *)
(***************************************************************************)
EXTENDS Outdated, SequenceTheorems, FiniteSetTheorems, TLAPS

\* What may be asked about: a package of PyPI, or one of a channel.
Kinds == {"pypi", "prefix", "anaconda"}
Channels == {None} \cup {p.channel : p \in Listed} \cup {r.candidate : r \in Runs}
Wanted ==
  {x \in [package : Listed, index : Kinds, channel : Channels] :
     /\ x.package.kind = "pypi" <=> x.index = "pypi"
     /\ x.channel = None <=> x.index = "pypi"}

\* No two places share a cache file.  Their names are joined with dashes, so that
\* it holds for the places there are and not for all there could be.
FilesApart ==
  \A x, y \in Wanted : FileName(x) = FileName(y) =>
    x.index = y.index /\ x.channel = y.channel /\ x.package.name = y.package.name

\* A file has one version: an index has the hash a lock records of a package
\* under no other version than the package's.
HashesTellVersions ==
  \A p \in Listed : p.sha # None =>
    \A e \in DOMAIN Editions : \A place \in DOMAIN Editions[e].conda :
      LET builds == Editions[e].conda[place].builds
      IN  \A v \in DOMAIN builds : p.sha \in Range(builds[v]) => v = p.version

-----------------------------------------------------------------------------
(* Pages and projects. *)

\* The last of two numbers in order.
LEMMA MinOfTwo ==
  ASSUME NEW a \in Int, NEW b \in Int
  PROVE  Min({a, b}) = IF a <= b THEN a ELSE b
<1> DEFINE m == IF a <= b THEN a ELSE b
<1>1. m \in {a, b} /\ \A y \in {a, b} : m <= y
  OBVIOUS
<1>2. \A x \in {a, b} : (\A y \in {a, b} : x <= y) => x = m
  OBVIOUS
<1> QED BY <1>1, <1>2 DEF Min

\* Every project of an edition is one of the projects.
LEMMA ProjectsAre ==
  ASSUME NEW e \in DOMAIN Editions
  PROVE  /\ \A place \in DOMAIN Editions[e].conda : Editions[e].conda[place] \in Projects
         /\ \A name \in DOMAIN Editions[e].pypi : Editions[e].pypi[name] \in Projects
  BY DEF Projects, Range

\* A page is a part of the versions, and the first one is not empty if they are not.
LEMMA VersionPageIs ==
  ASSUME NEW project \in Projects, NEW k \in Nat
  PROVE  /\ VersionPage(project, k) \in Seq(Versions)
         /\ k = 0 /\ project.versions # <<>> => VersionPage(project, k) # <<>>
<1> DEFINE s == project.versions
           first == k * PageSize + 1
           last == IF first + PageSize - 1 <= Len(s) THEN first + PageSize - 1 ELSE Len(s)
<1>1. s \in Seq(Versions) /\ PageSize \in Nat \ {0}
  BY OutdatedAssumption
<1>2. k * PageSize \in Nat /\ (k = 0 => k * PageSize = 0)
  BY <1>1
<1>3. first \in Nat /\ first >= 1 /\ Len(s) \in Nat
  BY <1>1, <1>2
<1>4. VersionPage(project, k) = SubSeq(s, first, last)
  <2>1. Min({first + PageSize - 1, Len(s)}) = last
    BY <1>1, <1>3, MinOfTwo
  <2> QED BY <2>1 DEF VersionPage
<1>5. last \in Nat /\ last <= Len(s)
  BY <1>1, <1>3
<1>6. VersionPage(project, k) \in Seq(Versions)
  <2> HIDE DEF s, first, last
  <2> QED BY <1>1, <1>3, <1>4, <1>5, SubSeqProperties
<1>7. ASSUME k = 0, s # <<>> PROVE VersionPage(project, k) # <<>>
  <2>1. first = 1
    BY <1>2, <1>7
  <2>2. Len(s) # 0
    <3> HIDE DEF s
    <3> QED BY <1>1, <1>7, EmptySeq
  <2>3. last >= 1
    BY <2>1, <2>2, <1>1, <1>3
  <2>4. Len(SubSeq(s, first, last)) = last
    <3> HIDE DEF s, first, last
    <3> QED BY <1>1, <1>3, <1>5, <2>1, <2>3, SubSeqProperties
  <2>5. Len(<<>>) = 0
    OBVIOUS
  <2>6. Len(VersionPage(project, k)) = last
    <3> HIDE DEF s, first, last
    <3> QED BY <1>4, <2>4, Zenon
  <2>7. last # 0
    <3> HIDE DEF last
    <3> QED BY <1>5, <2>3
  <2> HIDE DEF last
  <2> QED BY <2>5, <2>6, <2>7
<1> QED BY <1>6, <1>7

\* There are as many pages as it takes.
LEMMA NumberOfPagesIs == \A project \in Projects : NumberOfPages(project) \in Nat
<1> SUFFICES ASSUME NEW project \in Projects PROVE NumberOfPages(project) \in Nat
  OBVIOUS
<1>1. Len(project.versions) \in Nat /\ PageSize \in Nat \ {0}
  BY OutdatedAssumption
<1>2. ASSUME NEW n \in Nat, NEW c \in Nat \ {0} PROVE n \div c \in Nat
  OBVIOUS
<1> DEFINE n == Len(project.versions)
<1>3. n \div PageSize \in Nat
  BY <1>1, <1>2
<1>4. NumberOfPages(project) = (n \div PageSize) + (IF n % PageSize = 0 THEN 0 ELSE 1)
  BY DEF NumberOfPages
<1> QED BY <1>3, <1>4

-----------------------------------------------------------------------------
(* What the cache and the jobs hold. *)

Place(x) == <<x.channel, x.package.name>>
HasReleases(x, e) == Place(x) \in DOMAIN Editions[e].conda /\ Editions[e].conda[Place(x)].versions # <<>>
HasHash(x, e, h) ==
  /\ Place(x) \in DOMAIN Editions[e].conda
  /\ LET builds == Editions[e].conda[Place(x)].builds
     IN  \E v \in DOMAIN builds : h \in Range(builds[v])

\* A text may be an answer for x of one of the first n editions.  An answer of
\* prefix.dev is made of several requests, of which only this much is sure: its
\* hashes were the index's, and it has versions if the index always had some.
Sound(x, text, n) ==
  /\ x.index = "prefix" =>
       /\ text \in PageTexts
       /\ \A h \in text.hashes : \E e \in 1..n : HasHash(x, e, h)
       /\ (\A e \in 1..n : HasReleases(x, e)) => text.versions # <<>>
  /\ x.index = "anaconda" =>
       \E e \in 1..n : Place(x) \in DOMAIN Editions[e].conda /\ text = Editions[e].conda[Place(x)]
  /\ x.index = "pypi" =>
       \E e \in 1..n : x.package.name \in DOMAIN Editions[e].pypi /\ text = Editions[e].pypi[x.package.name]

Texts == {Torn} \cup PageTexts \cup Projects
Jobs ==
  [package : Listed, index : Kinds, channel : Channels,
   at : {"waiting", "asking", "paging", "dating", "answered"},
   cached : {None} \cup [text : {None} \cup Texts, since : Nat], text : {None} \cup Texts,
   page : Nat, pages : Nat, since : Nat, lost : BOOLEAN,
   refused : BOOLEAN, unreachable : BOOLEAN]

InDocument == {"probing", "batching", "resolving", "asking", "reported"}

TypeInv ==
  /\ clock \in Nat /\ edition \in DOMAIN Editions
  /\ files \in [DOMAIN files -> [text : Texts, at : Nat, since : Nat]]
  /\ runs \in Nat /\ doc \in Nat
  /\ stage \in {"idle", "next"} \cup InDocument
  /\ stage # "idle" => run \in Runs
  /\ stage \in InDocument => doc \in DOMAIN run.documents
  /\ jobs \in [DOMAIN jobs -> Jobs]
  /\ DOMAIN jobs \subseteq IF stage \in InDocument THEN DOMAIN Packages ELSE {}

\* A job is about its package, and asks the channel of the package, or the one it
\* stands for.
Asks(x, p) ==
  /\ x.package = p /\ x \in Jobs
  /\ p.kind = "pypi" <=> x.index = "pypi"
  /\ x.channel = None <=> x.index = "pypi"
  /\ stage = "probing" => p.kind = "conda" /\ x.channel = p.channel /\ run.candidate # None
  /\ stage \in InDocument \ {"probing"} /\ p.kind = "conda" =>
       x.channel = IF p.channel \in DOMAIN targets THEN targets[p.channel] ELSE p.channel

\* What a job has at each place, and which of its failures it owns up to.
Has(x) ==
  /\ x.at = "waiting" => x.text = None /\ ~ x.lost
  /\ x.at = "asking" =>
       /\ x.text = None /\ ~ x.lost /\ x.cached \in [text : {None} \cup Texts, since : Nat]
       /\ x.cached.text \notin {None, Torn} => Sound(x, x.cached.text, edition)
  /\ x.at \in {"paging", "dating"} => x.index = "prefix" /\ x.text \in PageTexts
  /\ x.at # "answered" => ~ x.unreachable
  /\ x.at = "answered" =>
       /\ x.text = None => x.lost
       /\ x.unreachable <=> x.lost /\ x.text = None /\ ~ run.offline
  /\ stage = "batching" => x.at \in {"waiting", "paging", "dating"} /\ ~ x.lost
  /\ stage = "reported" => x.at = "answered"
  /\ x.text \notin {None, Torn} => Sound(x, x.text, edition)

JobsInv == \A j \in DOMAIN jobs : Asks(jobs[j], Packages[j]) /\ Has(jobs[j])

FilesInv ==
  \A f \in DOMAIN files :
    files[f].text = Torn \/ \E x \in Wanted : FileName(x) = f /\ Sound(x, files[f].text, edition)

TargetsInv == \A c \in DOMAIN targets : targets[c] # None /\ targets[c] \in Channels

ReportInv == stage = "reported" => output = Report

\* Only prefix.dev is asked in batches.
ChunksInv ==
  stage = "batching" => \A c \in chunks : \A j \in c \cap DOMAIN jobs : jobs[j].index = "prefix"

Inv == TypeInv /\ JobsInv /\ FilesInv /\ TargetsInv /\ ChunksInv /\ ReportInv

-----------------------------------------------------------------------------
(* What the index answers. *)

\* A text is told from the values that say that there is none.
LEMMA TextsAreTexts == \A t \in PageTexts \cup Projects : t # None /\ t # Torn
  BY OutdatedAssumption

\* What is sound for some editions is so for more.
LEMMA SoundLasts ==
  ASSUME NEW x, NEW t, NEW n \in Nat, NEW m \in Nat, n <= m, Sound(x, t, n)
  PROVE  Sound(x, t, m)
<1>1. 1..n \subseteq 1..m
  OBVIOUS
<1> HIDE DEF HasReleases, HasHash, Place
<1> QED BY <1>1 DEF Sound

\* It is so for whatever asks for the same place.
LEMMA SoundIsOfThePlace ==
  ASSUME NEW x, NEW y, NEW t, NEW n,
         x.index = y.index, x.channel = y.channel, x.package.name = y.package.name, Sound(x, t, n)
  PROVE  Sound(y, t, n)
  BY DEF Sound, HasReleases, HasHash, Place

\* The first page of a project and what comes with it.
LEMMA PrefixPageIs ==
  ASSUME NEW project \in Projects \cup {None}, NEW installed, NEW build
  PROVE  /\ PrefixPage(project, installed, build) \in PageTexts
         /\ \A h \in PrefixPage(project, installed, build).hashes :
              project # None /\ \E v \in DOMAIN project.builds : h \in Range(project.builds[v])
         /\ project # None /\ project.versions # <<>> => PrefixPage(project, installed, build).versions # <<>>
<1>1. CASE project = None
  <2>1. <<>> \in Seq(Versions)
    OBVIOUS
  <2> QED BY <1>1, <2>1 DEF PrefixPage, PageTexts
<1>2. CASE project # None
  <2> DEFINE versions == VersionPage(project, 0)
             dates == IF Known(project, installed) THEN {<<installed, project.published[installed]>>} ELSE {}
             hashes == IF Known(project, installed) /\ build \in DOMAIN project.builds[installed]
                       THEN {project.builds[installed][build]} ELSE {}
  <2>1. project \in Projects
    BY <1>2
  <2>2. versions \in Seq(Versions) /\ (project.versions # <<>> => versions # <<>>)
    BY <2>1, VersionPageIs
  <2>3. dates \in SUBSET (Versions \X Days)
    <3>1. CASE Known(project, installed)
      <4>1. installed \in Versions /\ installed \in DOMAIN project.published
        BY <2>1, <3>1, OutdatedAssumption DEF Known, Versions
      <4>2. project.published[installed] \in Days
        BY <2>1, <4>1 DEF Days, Range
      <4> QED BY <3>1, <4>1, <4>2
    <3>2. CASE ~ Known(project, installed)
      BY <3>2
    <3> QED BY <3>1, <3>2
  <2>4. \A h \in hashes : \E v \in DOMAIN project.builds : h \in Range(project.builds[v])
    <3>1. CASE Known(project, installed) /\ build \in DOMAIN project.builds[installed]
      <4>1. installed \in DOMAIN project.builds
        BY <2>1, <3>1, OutdatedAssumption DEF Known
      <4>2. project.builds[installed][build] \in Range(project.builds[installed])
        BY <3>1 DEF Range
      <4> QED BY <3>1, <4>1, <4>2
    <3> QED BY <3>1
  <2>5. hashes \in SUBSET Hashes
    BY <2>1, <2>4 DEF Hashes
  <2>6. PrefixPage(project, installed, build) = [versions |-> versions, dates |-> dates, hashes |-> hashes]
    BY <1>2 DEF PrefixPage
  <2> HIDE DEF versions, dates, hashes
  <2> QED BY <1>2, <2>2, <2>3, <2>4, <2>5, <2>6 DEF PageTexts
<1> QED BY <1>1, <1>2

\* What the index has of a job's package.
LEMMA ProjectOfIs ==
  ASSUME NEW x, edition \in DOMAIN Editions
  PROVE  /\ ProjectOf(x) \in Projects \cup {None}
         /\ x.index # "pypi" /\ ProjectOf(x) # None =>
              Place(x) \in DOMAIN Editions[edition].conda /\ ProjectOf(x) = Editions[edition].conda[Place(x)]
         /\ x.index # "pypi" /\ ProjectOf(x) = None => Place(x) \notin DOMAIN Editions[edition].conda
<1>1. \A place \in DOMAIN Editions[edition].conda :
        Editions[edition].conda[place] \in Projects /\ Editions[edition].conda[place] # None
  BY ProjectsAre, TextsAreTexts
<1>2. \A name \in DOMAIN Editions[edition].pypi : Editions[edition].pypi[name] \in Projects
  BY ProjectsAre
<1>3. CASE x.index = "pypi"
  BY <1>2, <1>3 DEF ProjectOf
<1>4. CASE x.index # "pypi" /\ Place(x) \in DOMAIN Editions[edition].conda
  BY <1>1, <1>4 DEF ProjectOf, Place
<1>5. CASE x.index # "pypi" /\ Place(x) \notin DOMAIN Editions[edition].conda
  BY <1>5 DEF ProjectOf, Place
<1> QED BY <1>3, <1>4, <1>5

\* The edition there is is one of those so far.
LEMMA EditionIsNumber == edition \in DOMAIN Editions => edition \in Nat /\ edition \in 1..edition
<1>1. Editions \in Seq(Range(Editions))
  BY OutdatedAssumption
<1> QED BY <1>1

\* What is resolved of a batch or a request of its own is what the index has, and
\* what is left of the job is to ask for pages or for the day.
LEMMA ResolvingIs ==
  ASSUME NEW x \in Jobs, x.index = "prefix", edition \in DOMAIN Editions
  PROVE  \E y \in Jobs :
           /\ Resolving(x) = y
           /\ y.package = x.package /\ y.index = x.index /\ y.channel = x.channel /\ y.cached = x.cached
           /\ y.lost = x.lost /\ y.unreachable = x.unreachable
           /\ y.at \in {"paging", "dating"} /\ y.text \in PageTexts
           /\ Sound(y, y.text, edition)
<1> DEFINE project == ProjectOf(x)
           text == PrefixPage(project, x.package.version, x.package.build)
           pages == IF project = None THEN 0 ELSE NumberOfPages(project)
           z == [x EXCEPT !.text = text, !.page = 1, !.pages = pages, !.since = edition]
           y == [z EXCEPT !.at = IF NeedsPage(z) THEN "paging" ELSE "dating"]
<1>1. project \in Projects \cup {None} /\ pages \in Nat /\ edition \in Nat
  BY ProjectOfIs, NumberOfPagesIs, EditionIsNumber
<1>2. text \in PageTexts
  BY <1>1, PrefixPageIs
<1>3. Resolving(x) = y
  BY DEF Resolving, Onward
<1>4. /\ y \in Jobs
      /\ y.package = x.package /\ y.index = x.index /\ y.channel = x.channel /\ y.cached = x.cached
      /\ y.lost = x.lost /\ y.unreachable = x.unreachable
      /\ y.at \in {"paging", "dating"} /\ y.text = text
  <2> HIDE DEF project, text, pages
  <2> QED BY <1>1, <1>2 DEF Jobs, Texts
<1>5. Sound(x, text, edition)
  <2>1. \A h \in text.hashes : HasHash(x, edition, h)
    BY <1>1, ProjectOfIs, PrefixPageIs DEF HasHash
  <2>2. HasReleases(x, edition) => text.versions # <<>>
    BY <1>1, ProjectOfIs, PrefixPageIs DEF HasReleases
  <2> HIDE DEF text
  <2> QED BY <1>2, <2>1, <2>2, EditionIsNumber DEF Sound
<1>6. Sound(y, text, edition)
  <2> HIDE DEF y, text
  <2> QED BY <1>4, <1>5, SoundIsOfThePlace
<1> HIDE DEF y, text
<1> QED BY <1>2, <1>3, <1>4, <1>6

-----------------------------------------------------------------------------
(* A job's step. *)

\* What the cache has under the name of a job's file is of the job's place.
LEMMA EntryIs ==
  ASSUME Inv, FilesApart, NEW j \in DOMAIN jobs, FileName(jobs[j]) \in DOMAIN files
  PROVE  LET entry == files[FileName(jobs[j])]
         IN  entry.text = Torn \/ Sound(jobs[j], entry.text, edition)
<1> DEFINE x == jobs[j]
           w == [package |-> x.package, index |-> x.index, channel |-> x.channel]
<1>1. x \in Jobs /\ Asks(x, Packages[j])
  BY DEF Inv, TypeInv, JobsInv
<1>2. w \in Wanted
  BY <1>1 DEF Wanted, Jobs, Asks
<1>3. FileName(w) = FileName(x)
  BY DEF FileName
<1>4. SUFFICES ASSUME files[FileName(x)].text # Torn
               PROVE  Sound(x, files[FileName(x)].text, edition)
  OBVIOUS
<1>5. PICK v \in Wanted : FileName(v) = FileName(x) /\ Sound(v, files[FileName(x)].text, edition)
  BY <1>4 DEF Inv, FilesInv
<1>6. v.index = w.index /\ v.channel = w.channel /\ v.package.name = w.package.name
  BY <1>2, <1>3, <1>5 DEF FilesApart
<1>7. v.index = x.index /\ v.channel = x.channel /\ v.package.name = x.package.name
  BY <1>6
<1> QED BY <1>5, <1>7, SoundIsOfThePlace

\* What a job becomes: the same question, further on.
Goes(x, y) ==
  /\ y \in Jobs /\ y.package = x.package /\ y.index = x.index /\ y.channel = x.channel
  /\ Has(y)

\* What is written of it, if anything.
Writes(y) ==
  \/ files' = files
  \/ files' = Store(y) /\ y.text \in Texts \ {Torn} /\ Sound(y, y.text, edition)

JobEffect(j) ==
  /\ \E y : jobs' = [jobs EXCEPT ![j] = y] /\ Goes(jobs[j], y) /\ Writes(y)
  /\ stage \in InDocument \ {"reported"}
  /\ UNCHANGED <<clock, edition, asked, stage, targets, chunks, output>>

\* Where a job is, and what it then has.
LEMMA JobIs ==
  ASSUME Inv, NEW j \in DOMAIN jobs
  PROVE  /\ jobs[j] \in Jobs /\ Has(jobs[j]) /\ edition \in DOMAIN Editions
         /\ stage \in InDocument
         /\ jobs[j].at # "answered" => stage # "reported"
         /\ jobs[j].at \notin {"waiting", "paging", "dating"} => stage # "batching"
<1>1. jobs[j] \in Jobs /\ Has(jobs[j]) /\ edition \in DOMAIN Editions /\ stage \in InDocument
  BY DEF Inv, TypeInv, JobsInv
<1> QED BY <1>1 DEF Has

\* Looking into the cache: an entry that may be used is the answer, another one is kept for
\* a request that fails.
LEMMA LookEffect ==
  ASSUME Inv, FilesApart, NEW j \in DOMAIN jobs, Look(j)
  PROVE  JobEffect(j)
<1> DEFINE x == jobs[j]
           entry == Entry(x)
<1>1. x \in Jobs /\ Has(x) /\ stage \in {"probing", "asking"} /\ x.at = "waiting" /\ x.text = None /\ ~ x.lost
      /\ ~ x.unreachable /\ edition \in DOMAIN Editions
  BY JobIs DEF Look, Has
<1>2. PICK text \in {IF entry = None THEN None ELSE entry.text} \cup (IF BeingWritten(j) THEN {Torn} ELSE {}) :
        jobs' = [jobs EXCEPT ![j] =
                   IF text # None /\ IsUsableEntry(entry)
                   THEN [@ EXCEPT !.at = "answered", !.text = text, !.since = entry.since]
                   ELSE [@ EXCEPT !.at = "asking", !.cached = [text |-> text,
                                                               since |-> IF entry = None THEN 0 ELSE entry.since]]]
  BY DEF Look
<1>3. entry # None => /\ FileName(x) \in DOMAIN files /\ entry = files[FileName(x)]
                      /\ entry.text \in Texts /\ entry.since \in Nat
  BY DEF Entry, Inv, TypeInv
<1>4. /\ text \in {None} \cup Texts
      /\ text \notin {None, Torn} => Sound(x, text, edition)
      /\ (IF entry = None THEN 0 ELSE entry.since) \in Nat
  <2>1. CASE text = Torn
    BY <2>1, <1>3 DEF Texts
  <2>2. CASE text # Torn
    BY <2>2, <1>2, <1>3, EntryIs
  <2> QED BY <2>1, <2>2
<1>5. IsUsableEntry(entry) => entry # None
  BY DEF IsUsableEntry
<1> DEFINE y == IF text # None /\ IsUsableEntry(entry)
                THEN [x EXCEPT !.at = "answered", !.text = text, !.since = entry.since]
                ELSE [x EXCEPT !.at = "asking", !.cached = [text |-> text,
                                                            since |-> IF entry = None THEN 0 ELSE entry.since]]
<1>6. jobs' = [jobs EXCEPT ![j] = y]
  BY <1>2
<1>7. Goes(x, y)
  <2> HIDE DEF entry, x
  <2>1. CASE text # None /\ IsUsableEntry(entry)
    <3> DEFINE z == [x EXCEPT !.at = "answered", !.text = text, !.since = entry.since]
    <3>1. /\ z \in Jobs /\ z.package = x.package /\ z.index = x.index /\ z.channel = x.channel
          /\ z.at = "answered" /\ z.text = text /\ z.lost = x.lost /\ z.unreachable = x.unreachable
          /\ z.cached = x.cached
      BY <1>1, <1>3, <1>4, <1>5, <2>1 DEF Jobs
    <3>2. \A t, n : Sound(x, t, n) => Sound(z, t, n)
      <4> HIDE DEF z
      <4> QED BY <3>1, SoundIsOfThePlace
    <3>3. Has(z)
      <4> HIDE DEF z
      <4> QED BY <1>1, <1>4, <2>1, <3>1, <3>2 DEF Has
    <3> QED BY <2>1, <3>1, <3>3 DEF Goes
  <2>2. CASE ~ (text # None /\ IsUsableEntry(entry))
    <3> DEFINE c == [text |-> text, since |-> IF entry = None THEN 0 ELSE entry.since]
               z == [x EXCEPT !.at = "asking", !.cached = c]
    <3>1. /\ z \in Jobs /\ z.package = x.package /\ z.index = x.index /\ z.channel = x.channel
          /\ z.at = "asking" /\ z.text = x.text /\ z.lost = x.lost /\ z.unreachable = x.unreachable
          /\ z.cached = c /\ c \in [text : {None} \cup Texts, since : Nat] /\ c.text = text
      BY <1>1, <1>4 DEF Jobs
    <3>2. \A t, n : Sound(x, t, n) => Sound(z, t, n)
      <4> HIDE DEF z
      <4> QED BY <3>1, SoundIsOfThePlace
    <3>3. Has(z)
      <4> HIDE DEF z, c
      <4> QED BY <1>1, <1>4, <2>2, <3>1, <3>2 DEF Has
    <3> QED BY <2>2, <3>1, <3>3 DEF Goes
  <2> QED BY <2>1, <2>2
<1>8. files' = files /\ UNCHANGED <<clock, edition, asked, stage, targets, chunks, output>>
  BY DEF Look, world
<1> HIDE DEF y, x
<1> QED BY <1>1, <1>6, <1>7, <1>8 DEF JobEffect, Writes, InDocument, x

\* A request of its own.
LEMMA FetchEffect ==
  ASSUME Inv, NEW j \in DOMAIN jobs, Fetch(j)
  PROVE  JobEffect(j)
<1> DEFINE x == jobs[j]
<1>1. /\ x \in Jobs /\ Has(x) /\ stage \in InDocument \ {"reported", "batching"} /\ x.at = "asking"
      /\ ~ x.lost /\ ~ x.unreachable /\ edition \in DOMAIN Editions
      /\ UNCHANGED <<clock, edition, asked, stage, targets, chunks, output>>
  <2>1. x.at = "asking" /\ UNCHANGED <<clock, edition, asked, stage, targets, chunks, output>>
    BY DEF Fetch
  <2> QED BY <2>1, JobIs DEF Has
<1>2. CASE x.index = "prefix"
  <2>1. jobs' = [jobs EXCEPT ![j] = Resolving(x)] /\ files' = files
    BY <1>2 DEF Fetch
  <2>2. PICK y \in Jobs : /\ Resolving(x) = y
                          /\ y.package = x.package /\ y.index = x.index /\ y.channel = x.channel
                          /\ y.lost = x.lost /\ y.unreachable = x.unreachable
                          /\ y.at \in {"paging", "dating"} /\ y.text \in PageTexts
                          /\ Sound(y, y.text, edition)
    <3> HIDE DEF x
    <3> QED BY <1>1, <1>2, ResolvingIs
  <2>3. Has(y)
    <3> HIDE DEF x
    <3> QED BY <1>1, <1>2, <2>2, TextsAreTexts DEF Has
  <2> QED BY <1>1, <2>1, <2>2, <2>3 DEF JobEffect, Goes, Writes
<1>3. CASE x.index # "prefix"
  <2> DEFINE project == ProjectOf(x)
             y == [x EXCEPT !.at = "answered", !.text = project, !.since = edition]
  <2>1. /\ project # None /\ jobs' = [jobs EXCEPT ![j] = y]
        /\ files' = Store(jobs'[j])
    BY <1>3 DEF Fetch, NotFound
  <2>2. jobs'[j] = y
    BY <2>1 DEF Inv, TypeInv
  <2>3. project \in Projects /\ edition \in Nat /\ edition \in 1..edition
    BY <1>1, <2>1, ProjectOfIs, EditionIsNumber
  <2>4. /\ y \in Jobs /\ y.package = x.package /\ y.index = x.index /\ y.channel = x.channel
        /\ y.at = "answered" /\ y.text = project /\ y.lost = x.lost /\ y.unreachable = x.unreachable
    <3> HIDE DEF x, project
    <3> QED BY <1>1, <2>3 DEF Jobs, Texts
  <2>5. Sound(x, project, edition)
    <3>2. x.index = "pypi" =>
            x.package.name \in DOMAIN Editions[edition].pypi /\ project = Editions[edition].pypi[x.package.name]
      BY <2>1 DEF ProjectOf
    <3>1. x.index # "pypi" => Place(x) \in DOMAIN Editions[edition].conda /\ project = Editions[edition].conda[Place(x)]
      BY <1>1, <2>1, ProjectOfIs
    <3> HIDE DEF x, project
    <3> QED BY <1>3, <2>3, <3>1, <3>2 DEF Sound
  <2>6. Sound(y, project, edition)
    <3> HIDE DEF y, x, project
    <3> QED BY <2>4, <2>5, SoundIsOfThePlace
  <2>7. Has(y) /\ y.text \in Texts \ {Torn}
    <3> HIDE DEF y, x, project
    <3> QED BY <1>1, <2>1, <2>3, <2>4, <2>6, TextsAreTexts DEF Has, Texts
  <2> HIDE DEF y, project
  <2> QED BY <1>1, <2>1, <2>2, <2>4, <2>6, <2>7 DEF JobEffect, Goes, Writes
<1> QED BY <1>2, <1>3

\* A request of its own that fails.
LEMMA FetchFailsEffect ==
  ASSUME Inv, NEW j \in DOMAIN jobs, FetchFails(j)
  PROVE  JobEffect(j)
<1> DEFINE x == jobs[j]
           lack == (x.cached.text = None /\ ~ run.offline)
           At(refused) == [x EXCEPT !.at = "answered", !.text = x.cached.text, !.since = x.cached.since,
                                    !.lost = TRUE, !.refused = refused, !.unreachable = lack]
<1>1. /\ x \in Jobs /\ Has(x) /\ stage \in InDocument \ {"reported", "batching"} /\ x.at = "asking"
      /\ x.cached \in [text : {None} \cup Texts, since : Nat]
      /\ x.cached.text \notin {None, Torn} => Sound(x, x.cached.text, edition)
      /\ UNCHANGED <<clock, edition, asked, stage, targets, chunks, output>> /\ files' = files
  <2>1. /\ x.at = "asking"
        /\ UNCHANGED <<clock, edition, asked, stage, targets, chunks, output>> /\ files' = files
    BY DEF FetchFails, world
  <2> QED BY <2>1, JobIs DEF Has
<1>2. PICK refused \in BOOLEAN : jobs' = [jobs EXCEPT ![j] = At(refused)]
  BY DEF FetchFails, NotFound
<1> DEFINE y == At(refused)
<1>7. jobs' = [jobs EXCEPT ![j] = y]
  BY <1>2
<1>3. lack \in BOOLEAN /\ (lack <=> x.cached.text = None /\ ~ run.offline)
  OBVIOUS
<1>4. /\ y \in Jobs /\ y.package = x.package /\ y.index = x.index /\ y.channel = x.channel
      /\ y.at = "answered" /\ y.text = x.cached.text /\ y.lost = TRUE /\ y.unreachable = lack
  <2> HIDE DEF x, lack
  <2> QED BY <1>1, <1>3 DEF Jobs
<1>5. y.text \notin {None, Torn} => Sound(y, y.text, edition)
  <2> HIDE DEF y, x, lack
  <2> QED BY <1>1, <1>4, SoundIsOfThePlace
<1>6. Has(y)
  <2> HIDE DEF y, x, lack
  <2> QED BY <1>1, <1>3, <1>4, <1>5 DEF Has
<1> HIDE DEF y, lack
<1> QED BY <1>1, <1>4, <1>6, <1>7 DEF JobEffect, Goes, Writes

\* A job among its pages may get more versions and days without being less sound.
LEMMA MoreOfAPage ==
  ASSUME NEW x \in Jobs, NEW text \in PageTexts, x.index = "prefix", x.text \in PageTexts,
         text.hashes = x.text.hashes, x.text.versions # <<>> => text.versions # <<>>,
         NEW n, Sound(x, x.text, n)
  PROVE  Sound(x, text, n)
<1> HIDE DEF HasReleases, HasHash, Place
<1> QED BY DEF Sound

\* The next page, whatever the index has there by now.
LEMMA TurnPageEffect ==
  ASSUME Inv, NEW j \in DOMAIN jobs, TurnPage(j)
  PROVE  JobEffect(j)
<1> DEFINE x == jobs[j]
           project == ProjectOf(x)
           page == IF project = None THEN <<>> ELSE VersionPage(project, x.page)
           text == [x.text EXCEPT !.versions = @ \o page]
           next == x.page + 1
           z == [x EXCEPT !.text = text, !.page = next]
           y == [z EXCEPT !.at = IF NeedsPage(z) THEN "paging" ELSE "dating"]
<1>1. /\ x \in Jobs /\ Has(x) /\ stage \in InDocument \ {"reported", "batching"} /\ x.at = "paging"
      /\ x.index = "prefix" /\ x.text \in PageTexts /\ Sound(x, x.text, edition)
      /\ ~ x.unreachable /\ edition \in DOMAIN Editions
      /\ UNCHANGED <<clock, edition, asked, stage, targets, chunks, output>> /\ files' = files
  <2>1. /\ x.at = "paging" /\ stage # "batching"
        /\ UNCHANGED <<clock, edition, asked, stage, targets, chunks, output>> /\ files' = files
    BY DEF TurnPage, world, MayResolve
  <2> QED BY <2>1, JobIs, TextsAreTexts DEF Has
<1>2. jobs' = [jobs EXCEPT ![j] = y]
  <2>1. jobs' = [jobs EXCEPT ![j] = Onward([x EXCEPT !.text.versions = @ \o page, !.page = @ + 1])]
    BY DEF TurnPage
  <2>2. [x EXCEPT !.text.versions = @ \o page, !.page = @ + 1] = z
    <3> HIDE DEF page
    <3> QED BY <1>1 DEF Jobs, PageTexts
  <2>3. Onward(z) = y
    BY DEF Onward
  <2> HIDE DEF y, z, page
  <2> QED BY <2>1, <2>2, <2>3
<1>3. page \in Seq(Versions)
  <2>1. x.page \in Nat
    BY <1>1 DEF Jobs
  <2>2. <<>> \in Seq(Versions)
    OBVIOUS
  <2> QED BY <1>1, <2>1, <2>2, ProjectOfIs, VersionPageIs
<1>4. text \in PageTexts /\ text.hashes = x.text.hashes /\ (x.text.versions # <<>> => text.versions # <<>>)
  <2>1. x.text.versions \in Seq(Versions)
    BY <1>1 DEF PageTexts
  <2>2. /\ x.text.versions \o page \in Seq(Versions)
        /\ x.text.versions # <<>> => x.text.versions \o page # <<>>
    <3> DEFINE s == x.text.versions
    <3>1. s \in Seq(Versions)
      BY <2>1
    <3> HIDE DEF s, page
    <3>2. s \o page \in Seq(Versions) /\ Len(s \o page) = Len(s) + Len(page)
      BY <1>3, <3>1, ConcatProperties
    <3>3. Len(s) \in Nat /\ Len(page) \in Nat /\ Len(<<>>) = 0
      BY <1>3, <3>1
    <3>4. s # <<>> => Len(s) # 0
      BY <3>1, EmptySeq
    <3> QED BY <3>2, <3>3, <3>4 DEF s
  <2> HIDE DEF page
  <2> QED BY <1>1, <2>1, <2>2 DEF PageTexts
<1>5. /\ y \in Jobs /\ y.package = x.package /\ y.index = x.index /\ y.channel = x.channel
      /\ y.at \in {"paging", "dating"} /\ y.text = text /\ y.lost = x.lost /\ y.unreachable = x.unreachable
  <2>1. /\ z \in Jobs /\ z.package = x.package /\ z.index = x.index /\ z.channel = x.channel
        /\ z.text = text /\ z.lost = x.lost /\ z.unreachable = x.unreachable
    <3>1. next \in Nat
      BY <1>1 DEF Jobs
    <3> HIDE DEF x, text, next
    <3> QED BY <1>1, <1>4, <3>1 DEF Jobs, Texts
  <2> HIDE DEF x, text, z
  <2> QED BY <2>1 DEF Jobs
<1>6. Sound(x, text, edition)
  <2> HIDE DEF x, text
  <2> QED BY <1>1, <1>4, MoreOfAPage
<1>7. Sound(y, text, edition)
  <2> HIDE DEF y, x, text
  <2> QED BY <1>5, <1>6, SoundIsOfThePlace
<1>8. Has(y)
  <2> HIDE DEF y, x, text
  <2> QED BY <1>1, <1>4, <1>5, <1>7, TextsAreTexts DEF Has
<1> HIDE DEF y, text
<1> QED BY <1>1, <1>2, <1>5, <1>8 DEF JobEffect, Goes, Writes

\* A page that fails: what was read so far is kept.
LEMMA PageFailsEffect ==
  ASSUME Inv, NEW j \in DOMAIN jobs, PageFails(j)
  PROVE  JobEffect(j)
<1> DEFINE x == jobs[j]
           y == [x EXCEPT !.at = "dating", !.lost = TRUE]
<1>1. /\ x \in Jobs /\ Has(x) /\ stage \in InDocument \ {"reported", "batching"} /\ x.at = "paging"
      /\ x.index = "prefix" /\ x.text \in PageTexts /\ Sound(x, x.text, edition)
      /\ ~ x.unreachable
      /\ UNCHANGED <<clock, edition, asked, stage, targets, chunks, output>> /\ files' = files
      /\ jobs' = [jobs EXCEPT ![j] = y]
  <2>1. /\ x.at = "paging" /\ stage # "batching"
        /\ UNCHANGED <<clock, edition, asked, stage, targets, chunks, output>> /\ files' = files
        /\ jobs' = [jobs EXCEPT ![j] = y]
    BY DEF PageFails, world, MayResolve
  <2> QED BY <2>1, JobIs, TextsAreTexts DEF Has
<1>2. /\ y \in Jobs /\ y.package = x.package /\ y.index = x.index /\ y.channel = x.channel
      /\ y.at = "dating" /\ y.text = x.text /\ y.lost = TRUE /\ y.unreachable = x.unreachable
  <2> HIDE DEF x
  <2> QED BY <1>1 DEF Jobs
<1>3. Sound(y, y.text, edition)
  <2> HIDE DEF y, x
  <2> QED BY <1>1, <1>2, SoundIsOfThePlace
<1>4. Has(y)
  <2> HIDE DEF y, x
  <2> QED BY <1>1, <1>2, <1>3, TextsAreTexts DEF Has
<1> HIDE DEF y
<1> QED BY <1>1, <1>2, <1>4 DEF JobEffect, Goes, Writes

\* What the index says of a day is one of the days.
LEMMA DaysAre ==
  ASSUME edition \in DOMAIN Editions, NEW x, NEW newest
  PROVE  LET project == ProjectOf(x)
         IN  (IF newest = None \/ project = None THEN {}
              ELSE IF Known(project, newest) THEN {<<newest, project.published[newest]>>} ELSE {})
             \in SUBSET (Versions \X Days)
<1> DEFINE project == ProjectOf(x)
<1>1. CASE project # None /\ Known(project, newest)
  <2>1. project \in Projects
    BY <1>1, ProjectOfIs
  <2>2. newest \in Versions /\ newest \in DOMAIN project.published
    BY <1>1, <2>1, OutdatedAssumption DEF Known, Versions
  <2>3. project.published[newest] \in Days
    BY <2>1, <2>2 DEF Days, Range
  <2> QED BY <1>1, <2>2, <2>3
<1>2. CASE ~ (project # None /\ Known(project, newest))
  BY <1>2
<1> QED BY <1>1, <1>2

\* The day of the newest release, if that is had; then the answer is stored.
LEMMA DateEffect ==
  ASSUME Inv, NEW j \in DOMAIN jobs, Date(j)
  PROVE  JobEffect(j)
<1> DEFINE x == jobs[j]
           newest == UndatedNewest(x.text)
           project == ProjectOf(x)
           days == IF newest = None \/ project = None THEN {}
                   ELSE IF Known(project, newest) THEN {<<newest, project.published[newest]>>} ELSE {}
<1>1. /\ x \in Jobs /\ Has(x) /\ stage \in InDocument \ {"reported", "batching"} /\ x.at = "dating"
      /\ x.index = "prefix" /\ x.text \in PageTexts /\ Sound(x, x.text, edition)
      /\ ~ x.unreachable /\ edition \in DOMAIN Editions
      /\ UNCHANGED <<clock, edition, asked, stage, targets, chunks, output>> /\ files' = Store(jobs'[j])
  <2>1. /\ x.at = "dating" /\ stage # "batching"
        /\ UNCHANGED <<clock, edition, asked, stage, targets, chunks, output>> /\ files' = Store(jobs'[j])
    BY DEF Date, MayResolve
  <2> QED BY <2>1, JobIs, TextsAreTexts DEF Has
<1>2. PICK dated \in {{}, days} :
        jobs' = [jobs EXCEPT ![j] = [x EXCEPT !.at = "answered", !.text.dates = @ \cup dated]]
  BY DEF Date
<1>3. dated \in SUBSET (Versions \X Days)
  <2>1. days \in SUBSET (Versions \X Days)
    <3> HIDE DEF newest, x
    <3> QED BY <1>1, DaysAre
  <2> HIDE DEF days
  <2> QED BY <1>2, <2>1
<1> DEFINE text == [x.text EXCEPT !.dates = @ \cup dated]
           y == [x EXCEPT !.at = "answered", !.text = text]
<1>4. text \in PageTexts /\ text.hashes = x.text.hashes /\ text.versions = x.text.versions
  BY <1>1, <1>3 DEF PageTexts
<1>5. jobs' = [jobs EXCEPT ![j] = y] /\ jobs'[j] = y
  <2>1. [x EXCEPT !.at = "answered", !.text.dates = @ \cup dated] = y
    BY <1>1 DEF Jobs, PageTexts
  <2>2. jobs' = [jobs EXCEPT ![j] = y]
    BY <1>2, <2>1
  <2> HIDE DEF y
  <2> QED BY <2>2 DEF Inv, TypeInv
<1>6. /\ y \in Jobs /\ y.package = x.package /\ y.index = x.index /\ y.channel = x.channel
      /\ y.at = "answered" /\ y.text = text /\ y.lost = x.lost /\ y.unreachable = x.unreachable
  <2> HIDE DEF x, text
  <2> QED BY <1>1, <1>4 DEF Jobs, Texts
<1>7. Sound(x, text, edition)
  <2> HIDE DEF x, text
  <2> QED BY <1>1, <1>4, MoreOfAPage
<1>8. Sound(y, text, edition)
  <2> HIDE DEF y, x, text
  <2> QED BY <1>6, <1>7, SoundIsOfThePlace
<1>9. Has(y) /\ y.text \in Texts \ {Torn}
  <2> HIDE DEF y, x, text
  <2> QED BY <1>1, <1>4, <1>6, <1>8, TextsAreTexts DEF Has, Texts
<1> HIDE DEF y, text
<1> QED BY <1>1, <1>5, <1>6, <1>8, <1>9 DEF JobEffect, Goes, Writes

-----------------------------------------------------------------------------
(* The invariant is kept. *)

Entries == [text : Texts, at : Nat, since : Nat]

\* A file that is written, and those that are not.
LEMMA FilesStep ==
  ASSUME Inv, NEW file, NEW text \in Texts, NEW since \in Nat,
         files' = Put(file, [text |-> text, at |-> clock, since |-> since]), edition' = edition,
         text = Torn \/ \E w \in Wanted : FileName(w) = file /\ Sound(w, text, edition)
  PROVE  files' \in [DOMAIN files' -> Entries] /\ FilesInv'
<1> DEFINE entry == [text |-> text, at |-> clock, since |-> since]
<1>1. entry \in Entries /\ entry.text = text
  BY DEF Entries, Inv, TypeInv
<1>2. files \in [DOMAIN files -> Entries]
  BY DEF Inv, TypeInv, Entries
<1> HIDE DEF entry
<1>3. files' = [f \in DOMAIN files \cup {file} |-> IF f = file THEN entry ELSE files[f]]
  BY DEF Put, entry
<1>4. files' \in [DOMAIN files' -> Entries]
  <2>1. \A f \in DOMAIN files : files[f] \in Entries
    BY <1>2
  <2> QED BY <1>1, <1>3, <2>1
<1>5. ASSUME NEW f \in DOMAIN files'
      PROVE  files'[f].text = Torn \/ \E x \in Wanted : FileName(x) = f /\ Sound(x, files'[f].text, edition)
  <2>1. CASE f = file
    BY <1>1, <1>3, <2>1
  <2>2. CASE f # file
    <3>1. f \in DOMAIN files /\ files'[f] = files[f]
      BY <1>3, <1>5, <2>2
    <3> QED BY <3>1 DEF Inv, FilesInv
  <2> QED BY <2>1, <2>2
<1> QED BY <1>4, <1>5 DEF FilesInv

\* The job of a place.
LEMMA PlaceOfJob ==
  ASSUME NEW x, NEW p, Asks(x, p)
  PROVE  \E w \in Wanted : FileName(w) = FileName(x)
                           /\ \A t, n : Sound(x, t, n) => Sound(w, t, n)
<1> DEFINE w == [package |-> x.package, index |-> x.index, channel |-> x.channel]
<1>1. w \in Wanted
  BY DEF Wanted, Jobs, Asks
<1>2. FileName(w) = FileName(x)
  BY DEF FileName
<1>3. w.package = x.package /\ w.index = x.index /\ w.channel = x.channel
  OBVIOUS
<1>4. \A t, n : Sound(x, t, n) => Sound(w, t, n)
  <2> HIDE DEF w
  <2> QED BY <1>3, SoundIsOfThePlace
<1> QED BY <1>1, <1>2, <1>4

\* What a job has and asks as long as the run and the index stay.
LEMMA JobStays ==
  ASSUME NEW x, NEW p, UNCHANGED <<stage, edition, run, targets>>
  PROVE  (Asks(x, p) => Asks(x, p)') /\ (Has(x) => Has(x)')
  BY DEF Asks, Has

\* A step of a job keeps the invariant.
LEMMA JobStepKeeps ==
  ASSUME Inv, FilesApart, NEW j \in DOMAIN jobs, JobStep(j)
  PROVE  Inv'
<1>1. JobEffect(j)
  BY LookEffect, FetchEffect, FetchFailsEffect, TurnPageEffect, PageFailsEffect, DateEffect DEF JobStep
<1>2. PICK y : jobs' = [jobs EXCEPT ![j] = y] /\ Goes(jobs[j], y) /\ Writes(y)
  BY <1>1 DEF JobEffect
<1>3. /\ stage \in InDocument \ {"reported"}
      /\ UNCHANGED <<clock, edition, runs, run, doc, stage, targets, chunks, output>>
  BY <1>1 DEF JobEffect, asked
<1>4. Packages' = Packages
  BY <1>3 DEF Packages
<1>5. Asks(jobs[j], Packages[j])
  BY DEF Inv, JobsInv
<1>6. y \in Jobs /\ Asks(y, Packages[j]) /\ Has(y)
  BY <1>2, <1>5 DEF Goes, Asks
<1>7. files' \in [DOMAIN files' -> Entries] /\ FilesInv'
  <2>1. CASE files' = files
    BY <2>1, <1>3 DEF Inv, TypeInv, FilesInv, Entries
  <2>2. CASE files' = Store(y) /\ y.text \in Texts \ {Torn} /\ Sound(y, y.text, edition)
    <3>1. CASE run.policy = "noCache"
      BY <2>1, <2>2, <3>1 DEF Store
    <3>2. CASE run.policy # "noCache"
      <4>1. files' = Put(FileName(y), [text |-> y.text, at |-> clock, since |-> y.since])
        BY <2>2, <3>2 DEF Store
      <4>2. y.since \in Nat
        BY <1>6 DEF Jobs
      <4>3. \E w \in Wanted : FileName(w) = FileName(y) /\ Sound(w, y.text, edition)
        BY <1>6, <2>2, PlaceOfJob
      <4> QED BY <1>3, <2>2, <4>1, <4>2, <4>3, FilesStep
    <3> QED BY <3>1, <3>2
  <2> QED BY <1>2, <2>1, <2>2 DEF Writes
<1>8. DOMAIN jobs' = DOMAIN jobs /\ jobs' \in [DOMAIN jobs' -> Jobs]
  BY <1>2, <1>6 DEF Inv, TypeInv
<1>9. TypeInv'
  BY <1>3, <1>4, <1>7, <1>8 DEF Inv, TypeInv, Entries
<1>10. JobsInv'
  <2> SUFFICES ASSUME NEW k \in DOMAIN jobs PROVE Asks(jobs[k], Packages[k])' /\ Has(jobs[k])'
    BY <1>8 DEF JobsInv
  <2> DEFINE z == IF k = j THEN y ELSE jobs[k]
  <2>1. Asks(z, Packages[k]) /\ Has(z)
    BY <1>6 DEF Inv, JobsInv
  <2>2. jobs'[k] = z
    BY <1>2 DEF Inv, TypeInv
  <2> QED BY <2>1, <2>2, <1>3, <1>4, JobStays
<1>11. ChunksInv'
  <2>1. \A k \in DOMAIN jobs : jobs'[k].index = jobs[k].index
    BY <1>2 DEF Goes
  <2> QED BY <1>3, <1>8, <2>1 DEF Inv, ChunksInv
<1> QED BY <1>3, <1>7, <1>9, <1>10, <1>11 DEF Inv, TargetsInv, ReportInv

\* A fresh job of a package.
LEMMA NewJobIs ==
  ASSUME NEW p \in Listed, NEW index \in Kinds, NEW channel \in Channels,
         NEW x, x = NewJob(p, index, channel)
  PROVE  /\ x \in Jobs /\ x.package = p /\ x.index = index /\ x.channel = channel
         /\ x.at = "waiting" /\ x.text = None /\ ~ x.lost /\ ~ x.unreachable
  BY DEF NewJob, Jobs

\* It has what a waiting one has.
LEMMA NewJobHas ==
  ASSUME NEW x, x.at = "waiting", x.text = None, ~ x.lost, ~ x.unreachable,
         stage' \in InDocument \ {"reported"}
  PROVE  Has(x)'
  BY DEF Has, InDocument

\* The packages of a document are listed.
LEMMA PackagesAre ==
  ASSUME NEW r \in Runs, NEW d \in DOMAIN r.documents
  PROVE  /\ r.documents[d] \in Seq(Listed)
         /\ \A i \in DOMAIN r.documents[d] : r.documents[d][i] \in Listed
         /\ r.kind \in {"prefix", "anaconda"}
  BY OutdatedAssumption

\* The next document: a probe for each channel that may be a mirror.
LEMMA StartDocumentKeeps ==
  ASSUME Inv, StartDocument
  PROVE  Inv'
<1> DEFINE packages == run.documents[doc + 1]
           probes == {i \in Representatives(packages) : run.candidate # None /\ packages[i].channel # run.candidate}
<1>1. /\ run \in Runs /\ doc + 1 \in DOMAIN run.documents /\ doc' = doc + 1 /\ doc' \in Nat
      /\ stage' = "probing" /\ UNCHANGED <<clock, edition, files, runs, run, targets, chunks>>
      /\ jobs' = [i \in probes |-> CondaJob(packages[i], packages[i].channel)]
  <2>1. /\ stage = "next" /\ doc < Len(run.documents) /\ doc' = doc + 1
        /\ stage' = "probing" /\ UNCHANGED <<clock, edition, files, runs, run, targets, chunks>>
        /\ jobs' = [i \in probes |-> CondaJob(packages[i], packages[i].channel)]
    BY DEF StartDocument, world
  <2>2. run \in Runs /\ doc \in Nat
    BY <2>1 DEF Inv, TypeInv
  <2>3. run.documents \in Seq(Seq(Listed))
    BY <2>2, OutdatedAssumption
  <2> HIDE DEF probes
  <2> QED BY <2>1, <2>2, <2>3
<1>2. Packages' = packages
  BY <1>1 DEF Packages
<1>3. ASSUME NEW i \in probes
      PROVE  /\ i \in DOMAIN packages /\ jobs'[i] \in Jobs
             /\ Asks(jobs[i], Packages[i])' /\ Has(jobs[i])'
  <2> DEFINE p == packages[i]
  <2>1. /\ i \in DOMAIN packages /\ p.kind = "conda" /\ p.channel # None
        /\ run.candidate # None
    BY <1>3 DEF Representatives
  <2>2. p \in Listed /\ run.kind \in {"prefix", "anaconda"}
    BY <1>1, <2>1, PackagesAre
  <2>3. p.channel \in Channels
    BY <2>2 DEF Channels
  <2>4. PICK q : q = p
    OBVIOUS
  <2>5. PICK x : x = NewJob(q, run.kind, q.channel)
    OBVIOUS
  <2>6. jobs'[i] = x /\ Packages'[i] = q
    BY <1>1, <1>2, <2>4, <2>5 DEF CondaJob
  <2>7. /\ x.package = q /\ x.index = run.kind /\ x.channel = q.channel
        /\ x.at = "waiting" /\ x.text = None /\ ~ x.lost /\ ~ x.unreachable
        /\ x \in Jobs
    <3>1. q \in Listed /\ q.channel \in Channels /\ run.kind \in Kinds
      BY <2>2, <2>3, <2>4 DEF Kinds
    <3> HIDE DEF p
    <3> QED BY <3>1, <2>5, NewJobIs
  <2>8. Asks(x, q)'
    <3> HIDE DEF p
    <3>1. q.kind = "conda" /\ q.channel # None
      BY <2>1, <2>4
    <3> QED BY <1>1, <2>1, <2>2, <2>7, <3>1 DEF Asks, InDocument
  <2>9. Has(x)'
    BY <1>1, <2>7, NewJobHas DEF InDocument
  <2> QED BY <2>1, <2>6, <2>7, <2>8, <2>9
<1>4. DOMAIN jobs' = probes
  BY <1>1
<1> HIDE DEF probes
<1>5. JobsInv'
  BY <1>3, <1>4 DEF JobsInv
<1>6. jobs' \in [DOMAIN jobs' -> Jobs]
  BY <1>1, <1>3, <1>4
<1>7. TypeInv'
  BY <1>1, <1>2, <1>3, <1>4, <1>6 DEF Inv, TypeInv, InDocument
<1> QED BY <1>1, <1>5, <1>7 DEF Inv, FilesInv, TargetsInv, ChunksInv, ReportInv

\* The packages and the channels of the targets are the document's.
LEMMA RepresentativesAre ==
  ASSUME Inv, stage \in InDocument
  PROVE  /\ run \in Runs /\ doc \in DOMAIN run.documents /\ Packages = run.documents[doc]
         /\ \A i \in DOMAIN Packages : Packages[i] \in Listed /\ Packages[i].channel \in Channels
         /\ \A i \in Representatives(Packages) : i \in DOMAIN Packages /\ Packages[i].channel # None
         /\ run.candidate \in Channels /\ run.kind \in Kinds \ {"pypi"}
<1>1. run \in Runs /\ doc \in DOMAIN run.documents /\ Packages = run.documents[doc]
  BY DEF Inv, TypeInv, Packages, InDocument
<1>2. \A i \in DOMAIN Packages : Packages[i] \in Listed
  BY <1>1, PackagesAre
<1>3. run.kind \in Kinds \ {"pypi"}
  BY <1>1, PackagesAre DEF Kinds
<1> QED BY <1>1, <1>2, <1>3 DEF Representatives, Channels

\* What the probes say: a channel is asked for itself, or for the candidate if the
\* index has nothing of it, which only a probe can tell.
LEMMA TargetsAre ==
  ASSUME Inv, stage = "probing"
  PROVE  \A c \in DOMAIN Targets : Targets[c] # None /\ Targets[c] \in Channels
<1> DEFINE channelOf(i) == Packages[i].channel
           unknown == {channelOf(i) : i \in {k \in DOMAIN jobs : ReleasesOf(jobs[k]) = <<>>}}
           asked_ == {channelOf(i) : i \in Representatives(Packages)}
<1>1. Targets = [c \in asked_ |-> IF c \in unknown THEN run.candidate ELSE c]
  BY DEF Targets
<1>2. \A c \in asked_ : c # None /\ c \in Channels
  BY RepresentativesAre DEF InDocument
<1>3. unknown # {} => run.candidate # None
  BY DEF Inv, JobsInv, Asks
<1>4. run.candidate \in Channels
  BY RepresentativesAre DEF InDocument
<1> HIDE DEF asked_, unknown
<1> QED BY <1>1, <1>2, <1>3, <1>4

\* The packages' own jobs.
LEMMA StartBatchesKeeps ==
  ASSUME Inv, StartBatches
  PROVE  Inv'
<1> DEFINE of == [i \in DOMAIN Packages |-> JobOf(Packages[i], targets')]
           wanted == {i \in DOMAIN of : of[i] # None}
<1>1. /\ stage = "probing" /\ stage' = "batching"
      /\ targets' = Targets /\ jobs' = [i \in wanted |-> of[i]] /\ chunks' = Chunks(jobs')
      /\ UNCHANGED <<clock, edition, files, runs, run, doc, output>>
  BY DEF StartBatches, world, asked
<1>2. Packages' = Packages
  BY <1>1 DEF Packages
<1>3. TargetsInv'
  BY <1>1, TargetsAre DEF TargetsInv
<1>4. /\ run.kind \in Kinds \ {"pypi"}
      /\ \A i \in DOMAIN Packages : Packages[i] \in Listed /\ Packages[i].channel \in Channels
  BY <1>1, RepresentativesAre DEF InDocument
<1>5. ASSUME NEW i \in wanted
      PROVE  /\ i \in DOMAIN Packages /\ jobs'[i] \in Jobs
             /\ Asks(jobs[i], Packages[i])' /\ Has(jobs[i])'
  <2>1. i \in DOMAIN Packages /\ jobs'[i] = JobOf(Packages[i], targets') /\ JobOf(Packages[i], targets') # None
    BY <1>1, <1>5
  <2>2. PICK q : q = Packages[i]
    OBVIOUS
  <2>3. q \in Listed /\ q.channel \in Channels
    BY <1>4, <2>1, <2>2
  <2>4. PICK t : t = targets'
    OBVIOUS
  <2>5. JobOf(q, t) # None /\ jobs'[i] = JobOf(q, t)
    BY <2>1, <2>2, <2>4
  <2> DEFINE channel == IF q.channel \in DOMAIN t THEN t[q.channel] ELSE q.channel
  <2>6. \/ q.kind = "pypi" /\ JobOf(q, t) = NewJob(q, "pypi", None)
        \/ q.kind = "conda" /\ q.channel # None /\ JobOf(q, t) = NewJob(q, run.kind, channel)
    BY <2>5 DEF JobOf, CondaJob, ChannelToAsk
  <2>7. PICK x : x = JobOf(q, t)
    OBVIOUS
  <2>8. CASE q.kind = "pypi"
    <3>1. x = NewJob(q, "pypi", None)
      BY <2>6, <2>7, <2>8
    <3>2. None \in Channels /\ "pypi" \in Kinds
      BY DEF Channels, Kinds
    <3>3. /\ x \in Jobs /\ x.package = q /\ x.index = "pypi" /\ x.channel = None
          /\ x.at = "waiting" /\ x.text = None /\ ~ x.lost /\ ~ x.unreachable
      BY <2>3, <3>1, <3>2, NewJobIs
    <3>4. Asks(x, q)'
      BY <1>1, <2>8, <3>3 DEF Asks
    <3>5. Has(x)'
      BY <1>1, <3>3, NewJobHas DEF InDocument
    <3> QED BY <1>2, <2>1, <2>2, <2>5, <2>7, <3>3, <3>4, <3>5
  <2>9. CASE q.kind = "conda" /\ q.channel # None
    <3>1. x = NewJob(q, run.kind, channel)
      BY <2>6, <2>7, <2>9
    <3>2. channel \in Channels /\ channel # None
      BY <1>3, <2>3, <2>4, <2>9 DEF TargetsInv
    <3>3. /\ x \in Jobs /\ x.package = q /\ x.index = run.kind /\ x.channel = channel
          /\ x.at = "waiting" /\ x.text = None /\ ~ x.lost /\ ~ x.unreachable
      <4> HIDE DEF channel
      <4> QED BY <1>4, <2>3, <3>1, <3>2, NewJobIs
    <3>4. Asks(x, q)'
      <4>1. x.channel = IF q.channel \in DOMAIN targets' THEN targets'[q.channel] ELSE q.channel
        BY <2>4, <3>3
      <4> HIDE DEF channel
      <4> QED BY <1>1, <1>4, <2>9, <3>2, <3>3, <4>1 DEF Asks
    <3>5. Has(x)'
      <4> HIDE DEF channel
      <4> QED BY <1>1, <3>3, NewJobHas DEF InDocument
    <3> QED BY <1>2, <2>1, <2>2, <2>5, <2>7, <3>3, <3>4, <3>5
  <2> QED BY <2>6, <2>8, <2>9
<1>6. DOMAIN jobs' = wanted
  BY <1>1
<1>7. ChunksInv'
  <2>1. PICK js : js = jobs'
    OBVIOUS
  <2>2. chunks' = Chunks(js)
    BY <1>1, <2>1
  <2>3. \A c \in Chunks(js) : \A j \in c : js[j].index = "prefix"
    BY DEF Chunks
  <2> QED BY <2>1, <2>2, <2>3 DEF ChunksInv
<1> HIDE DEF of, wanted
<1>8. JobsInv'
  BY <1>5, <1>6 DEF JobsInv
<1>9. jobs' \in [DOMAIN jobs' -> Jobs]
  BY <1>1, <1>5, <1>6
<1>10. TypeInv'
  BY <1>1, <1>2, <1>5, <1>6, <1>9 DEF Inv, TypeInv, InDocument
<1>11. FilesInv' /\ ReportInv'
  BY <1>1 DEF Inv, FilesInv, ReportInv
<1> QED BY <1>3, <1>7, <1>8, <1>10, <1>11 DEF Inv

\* A batch is answered: those of its packages that the index has go on from there.
LEMMA AskBatchKeeps ==
  ASSUME Inv, NEW c \in chunks, AskBatch(c)
  PROVE  Inv'
<1>1. /\ stage = "batching" /\ chunks' = chunks \ {c}
      /\ jobs' = [j \in DOMAIN jobs |-> IF j \in c /\ ProjectOf(jobs[j]) # None THEN Resolving(jobs[j]) ELSE jobs[j]]
      /\ UNCHANGED <<clock, edition, files, runs, run, doc, stage, targets, output>>
  BY DEF AskBatch, world, asked
<1>2. DOMAIN jobs' = DOMAIN jobs /\ Packages' = Packages
  BY <1>1 DEF Packages
<1>3. ASSUME NEW j \in DOMAIN jobs
      PROVE  \E y \in Jobs : /\ jobs'[j] = y /\ y.index = jobs[j].index
                             /\ Asks(y, Packages[j]) /\ Has(y)
  <2> DEFINE x == jobs[j]
  <2>1. x \in Jobs /\ Asks(x, Packages[j]) /\ Has(x) /\ edition \in DOMAIN Editions
    BY DEF Inv, TypeInv, JobsInv
  <2>2. CASE j \in c /\ ProjectOf(x) # None
    <3>1. x.index = "prefix"
      BY <1>1, <2>2 DEF Inv, ChunksInv
    <3>2. PICK y \in Jobs :
            /\ Resolving(x) = y
            /\ y.package = x.package /\ y.index = x.index /\ y.channel = x.channel
            /\ y.lost = x.lost /\ y.unreachable = x.unreachable
            /\ y.at \in {"paging", "dating"} /\ y.text \in PageTexts
            /\ Sound(y, y.text, edition)
      <4> HIDE DEF x
      <4> QED BY <2>1, <3>1, ResolvingIs
    <3>3. jobs'[j] = y
      BY <1>1, <2>2, <3>2
    <3>4. Asks(y, Packages[j])
      <4> HIDE DEF x
      <4> QED BY <2>1, <3>2 DEF Asks
    <3>5. Has(y)
      <4> HIDE DEF x
      <4> QED BY <1>1, <2>1, <3>1, <3>2, TextsAreTexts DEF Has
    <3> QED BY <3>2, <3>3, <3>4, <3>5
  <2>3. CASE ~ (j \in c /\ ProjectOf(x) # None)
    BY <1>1, <2>1, <2>3
  <2> QED BY <2>2, <2>3
<1>4. JobsInv'
  <2> SUFFICES ASSUME NEW j \in DOMAIN jobs PROVE Asks(jobs[j], Packages[j])' /\ Has(jobs[j])'
    BY <1>2 DEF JobsInv
  <2>1. PICK y \in Jobs : jobs'[j] = y /\ Asks(y, Packages[j]) /\ Has(y)
    BY <1>3
  <2>2. PICK p : p = Packages[j]
    OBVIOUS
  <2>3. Asks(y, p)' /\ Has(y)'
    BY <1>1, <2>1, <2>2, JobStays
  <2> QED BY <1>2, <2>1, <2>2, <2>3
<1>5. jobs' \in [DOMAIN jobs' -> Jobs]
  <2>1. \A j \in DOMAIN jobs : jobs'[j] \in Jobs
    BY <1>3
  <2> QED BY <1>1, <1>2, <2>1
<1>6. TypeInv'
  BY <1>1, <1>2, <1>5 DEF Inv, TypeInv
<1>7. ChunksInv'
  <2>1. \A j \in DOMAIN jobs : jobs'[j].index = jobs[j].index
    BY <1>3
  <2> QED BY <1>1, <1>2, <2>1 DEF Inv, ChunksInv
<1> QED BY <1>1, <1>4, <1>6, <1>7 DEF Inv, FilesInv, TargetsInv, ReportInv

\* A step from one part of a document's work to the next, or from a batch that failed.
LEMMA PartKeeps ==
  ASSUME Inv, (\E c \in chunks : BatchFails(c)) \/ ResolveBatches \/ AskRest
  PROVE  Inv'
<1>1. /\ stage \in {"batching", "resolving"} /\ stage' \in {"batching", "resolving", "asking"}
      /\ chunks' \subseteq chunks
      /\ stage' = "batching" => stage = "batching"
      /\ UNCHANGED <<clock, edition, files, runs, run, doc, targets, jobs, output>>
  BY DEF BatchFails, ResolveBatches, AskRest, world, asked
<1>2. Packages' = Packages
  BY <1>1 DEF Packages
<1>3. TypeInv'
  BY <1>1, <1>2 DEF Inv, TypeInv, InDocument
<1>4. JobsInv'
  <2> SUFFICES ASSUME NEW j \in DOMAIN jobs PROVE Asks(jobs[j], Packages[j])' /\ Has(jobs[j])'
    BY <1>1 DEF JobsInv
  <2>1. Asks(jobs[j], Packages[j]) /\ Has(jobs[j])
    BY DEF Inv, JobsInv
  <2>2. Asks(jobs[j], Packages[j])'
    BY <1>1, <1>2, <2>1 DEF Asks, InDocument
  <2>3. Has(jobs[j])'
    BY <1>1, <2>1 DEF Has
  <2> QED BY <2>2, <2>3
<1> QED BY <1>1, <1>3, <1>4 DEF Inv, FilesInv, TargetsInv, ChunksInv, ReportInv

\* The report is of the document, the jobs and the targets.
LEMMA ReportStays ==
  ASSUME UNCHANGED <<run, jobs, targets>>, Packages' = Packages
  PROVE  Report' = Report
<1>1. \A i : (IsCompared(i)' <=> IsCompared(i)) /\ (IsUnreachable(i)' <=> IsUnreachable(i))
  BY DEF IsCompared, IsUnreachable, IsSubstituted
<1>2. {i \in DOMAIN Packages : IsCompared(i)}' = {i \in DOMAIN Packages : IsCompared(i)}
  BY <1>1
<1> DEFINE compared == {i \in DOMAIN Packages : IsCompared(i)}
           rest == DOMAIN Packages \ compared
           unavailable == {i \in rest : IsUnreachable(i)}
           unknown == {i \in rest \ unavailable : Packages[i].index \/ Packages[i].kind = "conda"}
           StatusOf(i) == Status(ReleasesOf(jobs[i]), jobs[i].package.version)
           rows == {[package |-> i, status |-> StatusOf(i)] : i \in compared}
<1>3. compared' = compared
  BY <1>2
<1>4. rest' = rest
  BY <1>3
<1>5. unavailable' = unavailable
  BY <1>1, <1>4
<1>6. unknown' = unknown
  BY <1>4, <1>5
<1>7. rows' = rows
  BY <1>3
<1> DEFINE behind == {row \in rows : row.status.behind > 0}
           shown == IF run.least = None THEN rows ELSE {row \in behind : row.status.step \in StepsFrom(run.least)}
           steps == {<<s, Cardinality({row \in behind : row.status.step = s})>> : s \in {row.status.step : row \in behind}}
           report == [checked |-> rows, rows |-> shown, steps |-> steps, unavailable |-> unavailable,
                      unknown |-> unknown, notChecked |-> rest \ (unavailable \cup unknown)]
<1>8. Report = report /\ Report' = report'
  BY DEF Report
<1> HIDE DEF rows, unknown, unavailable, rest
<1>9. behind' = behind
  BY <1>7
<1> HIDE DEF behind
<1>10. shown' = shown /\ steps' = steps
  BY <1>7, <1>9
<1> HIDE DEF shown, steps
<1>11. report' = report
  BY <1>4, <1>5, <1>6, <1>7, <1>10
<1> HIDE DEF report
<1> QED BY <1>8, <1>11

\* The report is of what the jobs have.
LEMMA ConcludeKeeps ==
  ASSUME Inv, Conclude
  PROVE  Inv'
<1>1. /\ stage = "asking" /\ stage' = "reported" /\ output' = Report
      /\ \A j \in DOMAIN jobs : jobs[j].at = "answered"
      /\ UNCHANGED <<clock, edition, files, runs, run, doc, targets, chunks, jobs>>
  BY DEF Conclude, AllAnswered, world, asked
<1>2. Packages' = Packages
  BY <1>1 DEF Packages
<1>3. Report' = Report
  BY <1>1, <1>2, ReportStays
<1>4. TypeInv'
  BY <1>1, <1>2 DEF Inv, TypeInv, InDocument
<1>5. JobsInv'
  <2> SUFFICES ASSUME NEW j \in DOMAIN jobs PROVE Asks(jobs[j], Packages[j])' /\ Has(jobs[j])'
    BY <1>1 DEF JobsInv
  <2>1. Asks(jobs[j], Packages[j]) /\ Has(jobs[j]) /\ jobs[j].at = "answered"
    BY <1>1 DEF Inv, JobsInv
  <2>2. Asks(jobs[j], Packages[j])'
    BY <1>1, <1>2, <2>1 DEF Asks, InDocument
  <2>3. Has(jobs[j])'
    BY <1>1, <2>1 DEF Has
  <2> QED BY <2>2, <2>3
<1> QED BY <1>1, <1>3, <1>4, <1>5 DEF Inv, FilesInv, TargetsInv, ChunksInv, ReportInv

\* Between documents there are no jobs.
LEMMA BetweenDocumentsKeeps ==
  ASSUME Inv, (\E r \in Runs : Begin(r)) \/ NextDocument \/ EndRun
  PROVE  Inv'
<1>1. /\ stage' \in {"idle", "next"} /\ DOMAIN jobs' = {}
      /\ stage' # "idle" => run' \in Runs
      /\ runs' \in Nat /\ doc' \in Nat
      /\ TargetsInv' /\ UNCHANGED <<clock, edition, files>>
  <2>1. CASE \E r \in Runs : Begin(r)
    <3>1. PICK r \in Runs : Begin(r)
      BY <2>1
    <3>2. /\ stage = "idle" /\ runs' = runs + 1 /\ run' = r /\ doc' = 0 /\ stage' = "next"
          /\ UNCHANGED <<clock, edition, files, targets, chunks, jobs>>
      BY <3>1 DEF Begin, world
    <3>3. runs \in Nat /\ DOMAIN jobs = {}
      BY <3>2 DEF Inv, TypeInv, InDocument
    <3>4. TargetsInv'
      BY <3>2 DEF Inv, TargetsInv
    <3> QED BY <3>2, <3>3, <3>4
  <2>2. CASE NextDocument
    BY <2>2 DEF NextDocument, world, asked, NoJobs, Inv, TypeInv, TargetsInv
  <2>3. CASE EndRun
    BY <2>3 DEF EndRun, world, asked, Inv, TypeInv, TargetsInv, InDocument
  <2> QED BY <2>1, <2>2, <2>3
<1>2. jobs' \in [DOMAIN jobs' -> Jobs]
  <2>1. jobs' = [j \in {} |-> None]
    BY DEF Begin, NextDocument, EndRun, NoJobs, Inv, TypeInv, InDocument
  <2> QED BY <2>1
<1>3. TypeInv'
  BY <1>1, <1>2 DEF Inv, TypeInv, InDocument
<1> QED BY <1>1, <1>3 DEF Inv, JobsInv, FilesInv, ChunksInv, ReportInv, InDocument

\* A day, or nothing.
LEMMA RestKeeps ==
  ASSUME Inv, Tick \/ UNCHANGED vars
  PROVE  Inv'
<1>1. clock' \in Nat /\ UNCHANGED <<edition, files, asked, stage, targets, chunks, jobs, output>>
  <2>1. clock \in Nat /\ (clock' = clock + 1 \/ clock' = clock)
    BY DEF Tick, vars, world, Inv, TypeInv
  <2>2. UNCHANGED <<edition, files, asked, stage, targets, chunks, jobs, output>>
    BY DEF Tick, vars, world
  <2> QED BY <2>1, <2>2
<1>2. UNCHANGED <<runs, run, doc>> /\ Packages' = Packages
  BY <1>1 DEF asked, Packages
<1>3. Report' = Report
  BY <1>1, <1>2, ReportStays
<1>4. TypeInv'
  BY <1>1, <1>2 DEF Inv, TypeInv
<1>5. JobsInv'
  <2> SUFFICES ASSUME NEW j \in DOMAIN jobs PROVE Asks(jobs[j], Packages[j])' /\ Has(jobs[j])'
    BY <1>1 DEF JobsInv
  <2>1. Asks(jobs[j], Packages[j]) /\ Has(jobs[j])
    BY DEF Inv, JobsInv
  <2> QED BY <1>1, <1>2, <2>1 DEF Asks, Has
<1> QED BY <1>1, <1>2, <1>3, <1>4, <1>5 DEF Inv, FilesInv, TargetsInv, ChunksInv, ReportInv

\* The index changes: what was an answer of it still was one.
LEMMA PublishKeeps ==
  ASSUME Inv, Publish
  PROVE  Inv'
<1>1. /\ edition' = edition + 1 /\ edition < Len(Editions)
      /\ UNCHANGED <<clock, files, runs, run, doc, stage, targets, chunks, jobs, output>>
  BY DEF Publish, asked
<1>2. edition \in Nat /\ edition' \in DOMAIN Editions /\ edition' \in Nat /\ edition <= edition'
  <2>1. Editions \in Seq(Range(Editions)) /\ edition \in DOMAIN Editions
    BY OutdatedAssumption DEF Inv, TypeInv
  <2> QED BY <1>1, <2>1
<1>3. Packages' = Packages
  BY <1>1 DEF Packages
<1>4. Report' = Report
  BY <1>1, <1>3, ReportStays
<1>5. TypeInv'
  BY <1>1, <1>2, <1>3 DEF Inv, TypeInv
<1>6. \A x, t : Sound(x, t, edition) => Sound(x, t, edition')
  <2> SUFFICES ASSUME NEW x, NEW t, Sound(x, t, edition) PROVE Sound(x, t, edition')
    OBVIOUS
  <2>1. PICK n \in Nat : n = edition
    BY <1>2
  <2>2. PICK m \in Nat : m = edition'
    BY <1>2
  <2>3. Sound(x, t, n) /\ n <= m
    BY <1>2, <2>1, <2>2
  <2>4. Sound(x, t, m)
    BY <2>3, SoundLasts
  <2> QED BY <2>2, <2>4
<1>7. JobsInv'
  <2> SUFFICES ASSUME NEW j \in DOMAIN jobs PROVE Asks(jobs[j], Packages[j])' /\ Has(jobs[j])'
    BY <1>1 DEF JobsInv
  <2>1. Asks(jobs[j], Packages[j]) /\ Has(jobs[j])
    BY DEF Inv, JobsInv
  <2>2. Asks(jobs[j], Packages[j])'
    BY <1>1, <1>3, <2>1 DEF Asks
  <2>3. Has(jobs[j])'
    BY <1>1, <1>6, <2>1 DEF Has
  <2> QED BY <2>2, <2>3
<1>8. FilesInv'
  BY <1>1, <1>6 DEF Inv, FilesInv
<1> QED BY <1>1, <1>4, <1>5, <1>7, <1>8 DEF Inv, TargetsInv, ChunksInv, ReportInv

\* The run is killed, maybe while it writes a file.
LEMMA KillKeeps ==
  ASSUME Inv, Kill
  PROVE  Inv'
<1>1. /\ stage' = "idle" /\ targets' = [c \in {} |-> None] /\ jobs' = NoJobs
      /\ UNCHANGED <<clock, edition, runs, run, doc>>
  BY DEF Kill, asked
<1>2. \/ files' = files
      \/ \E file : files' = Put(file, [text |-> Torn, at |-> clock, since |-> 0])
  BY DEF Kill
<1>3. files' \in [DOMAIN files' -> Entries] /\ FilesInv'
  <2>1. CASE files' = files
    BY <1>1, <2>1 DEF Inv, TypeInv, FilesInv, Entries
  <2>2. CASE \E file : files' = Put(file, [text |-> Torn, at |-> clock, since |-> 0])
    <3>1. Torn \in Texts /\ 0 \in Nat
      BY DEF Texts
    <3> QED BY <1>1, <2>2, <3>1, FilesStep
  <2> QED BY <1>2, <2>1, <2>2
<1>4. DOMAIN jobs' = {} /\ jobs' \in [DOMAIN jobs' -> Jobs]
  BY <1>1 DEF NoJobs
<1>5. TypeInv'
  BY <1>1, <1>3, <1>4 DEF Inv, TypeInv, InDocument, Entries
<1> QED BY <1>1, <1>3, <1>4, <1>5 DEF Inv, JobsInv, TargetsInv, ChunksInv, ReportInv

-----------------------------------------------------------------------------
(* The theorems. *)

\* At the start there is nothing.
LEMMA InitHas ==
  ASSUME Init
  PROVE  Inv
<1>1. 1 \in DOMAIN Editions
  <2>1. Editions \in Seq(Range(Editions)) /\ Editions # <<>>
    BY OutdatedAssumption
  <2>2. Len(Editions) \in Nat /\ Len(Editions) # 0
    BY <2>1, EmptySeq
  <2> QED BY <2>1, <2>2
<1>2. DOMAIN jobs = {} /\ DOMAIN files = {} /\ DOMAIN targets = {} /\ stage = "idle" /\ chunks = {}
  BY DEF Init, NoJobs
<1>3. TypeInv
  BY <1>1, <1>2 DEF Init, TypeInv, NoJobs, InDocument
<1> QED BY <1>2, <1>3 DEF Inv, JobsInv, FilesInv, TargetsInv, ChunksInv, ReportInv

\* The invariant: types, what each job asks and has, and that every text of the cache is
\* torn or was an answer of the index for the place it is filed under.
THEOREM InvHolds ==
  ASSUME FilesApart
  PROVE  Spec => []Inv
<1>1. Inv /\ [Next]_vars => Inv'
  <2> SUFFICES ASSUME Inv, [Next]_vars PROVE Inv'
    OBVIOUS
  <2>1. CASE StartDocument
    BY <2>1, StartDocumentKeeps
  <2>2. CASE StartBatches
    BY <2>2, StartBatchesKeeps
  <2>3. CASE \E c \in chunks : AskBatch(c)
    BY <2>3, AskBatchKeeps
  <2>4. CASE (\E c \in chunks : BatchFails(c)) \/ ResolveBatches \/ AskRest
    BY <2>4, PartKeeps
  <2>5. CASE Conclude
    BY <2>5, ConcludeKeeps
  <2>6. CASE (\E r \in Runs : Begin(r)) \/ NextDocument \/ EndRun
    BY <2>6, BetweenDocumentsKeeps
  <2>7. CASE \E j \in DOMAIN jobs : JobStep(j)
    BY <2>7, JobStepKeeps
  <2>8. CASE Publish
    BY <2>8, PublishKeeps
  <2>9. CASE Kill
    BY <2>9, KillKeeps
  <2>10. CASE Tick \/ Rest \/ UNCHANGED vars
    BY <2>10, RestKeeps DEF Rest
  <2> QED BY <2>1, <2>2, <2>3, <2>4, <2>5, <2>6, <2>7, <2>8, <2>9, <2>10 DEF Next, RunStep
<1> QED BY InitHas, <1>1, PTL DEF Spec

\* What is compared has an answer, and of a mirror's package one that vouches for it.
LEMMA ComparedHas ==
  ASSUME Inv, stage = "reported", NEW i, IsCompared(i)
  PROVE  /\ i \in DOMAIN jobs /\ jobs[i].text \notin {None, Torn}
         /\ Asks(jobs[i], Packages[i]) /\ Sound(jobs[i], jobs[i].text, edition)
         /\ jobs[i].package.kind = "conda" /\ jobs[i].channel # jobs[i].package.channel => HashVouches(jobs[i])
<1> DEFINE x == jobs[i]
<1>1. i \in DOMAIN jobs /\ ReleasesOf(x) # <<>> /\ (IsSubstituted(x) => HashVouches(x))
  BY DEF IsCompared
<1>2. x.text \notin {None, Torn}
  BY <1>1 DEF ReleasesOf
<1>3. Asks(x, Packages[i]) /\ Has(x)
  BY <1>1 DEF Inv, JobsInv
<1>4. Sound(x, x.text, edition)
  BY <1>2, <1>3 DEF Has
<1>5. x.package.kind = "conda" /\ x.channel # x.package.channel => IsSubstituted(x)
  <2> HIDE DEF x
  <2> QED BY <1>3 DEF Asks, IsSubstituted, InDocument
<1> QED BY <1>1, <1>2, <1>3, <1>4, <1>5

\* An answer that vouches for a package's hash is of an index that has the file.
LEMMA VouchedIsHad ==
  ASSUME HashesTellVersions, NEW x \in Jobs, x.index # "pypi", edition \in DOMAIN Editions,
         HashVouches(x), Sound(x, x.text, edition)
  PROVE  \E e \in 1..edition :
           /\ Place(x) \in DOMAIN Editions[e].conda
           /\ Known(Editions[e].conda[Place(x)], x.package.version)
           /\ x.package.sha \in Range(Editions[e].conda[Place(x)].builds[x.package.version])
<1>1. \A e \in 1..edition : e \in DOMAIN Editions
  <2>1. Editions \in Seq(Range(Editions))
    BY OutdatedAssumption
  <2> QED BY <2>1
<1>2. x.package \in Listed /\ x.package.sha # None /\ x.index \in {"prefix", "anaconda"}
  BY DEF HashVouches, Jobs, Kinds
<1>3. CASE x.index = "prefix"
  <2>1. x.package.sha \in x.text.hashes
    BY <1>3 DEF HashVouches
  <2>2. PICK e \in 1..edition : HasHash(x, e, x.package.sha)
    BY <1>3, <2>1 DEF Sound
  <2> DEFINE project == Editions[e].conda[Place(x)]
  <2>3. Place(x) \in DOMAIN Editions[e].conda
        /\ \E v \in DOMAIN project.builds : x.package.sha \in Range(project.builds[v])
    BY <2>2 DEF HasHash
  <2>4. PICK v \in DOMAIN project.builds : x.package.sha \in Range(project.builds[v])
    BY <2>3
  <2>5. v = x.package.version
    BY <1>1, <1>2, <2>3, <2>4 DEF HashesTellVersions
  <2>6. project \in Projects
    BY <1>1, <2>3, ProjectsAre
  <2>7. v \in Range(project.versions)
    BY <2>6, OutdatedAssumption
  <2> QED BY <2>3, <2>4, <2>5, <2>7 DEF Known
<1>4. CASE x.index = "anaconda"
  <2>1. x.package.sha \in ProjectHashes(x.text, x.package.version)
    BY <1>4 DEF HashVouches
  <2>2. Known(x.text, x.package.version) /\ x.package.sha \in Range(x.text.builds[x.package.version])
    BY <2>1 DEF ProjectHashes
  <2>3. PICK e \in 1..edition : Place(x) \in DOMAIN Editions[e].conda /\ x.text = Editions[e].conda[Place(x)]
    BY <1>4 DEF Sound
  <2> QED BY <2>2, <2>3
<1> QED BY <1>2, <1>3, <1>4

\* What a sound answer of a whole project has.
LEMMA WholeIsCarried ==
  ASSUME NEW x, x.index \in {"anaconda", "pypi"}, NEW text, Sound(x, text, edition),
         edition \in DOMAIN Editions, \A e \in 1..edition : Carries(x, e)
  PROVE  text \in Projects /\ text.versions # <<>>
<1>1. \A e \in 1..edition : e \in DOMAIN Editions
  <2>1. Editions \in Seq(Range(Editions))
    BY OutdatedAssumption
  <2> QED BY <2>1
<1>2. CASE x.index = "anaconda"
  <2>1. PICK e \in 1..edition : Place(x) \in DOMAIN Editions[e].conda /\ text = Editions[e].conda[Place(x)]
    BY <1>2 DEF Sound
  <2>2. Editions[e].conda[Place(x)].versions # <<>>
    BY <1>2, <2>1 DEF Carries, Place
  <2> QED BY <1>1, <2>1, <2>2, ProjectsAre
<1>3. CASE x.index = "pypi"
  <2>1. PICK e \in 1..edition :
          x.package.name \in DOMAIN Editions[e].pypi /\ text = Editions[e].pypi[x.package.name]
    BY <1>3 DEF Sound
  <2>2. Editions[e].pypi[x.package.name].versions # <<>>
    BY <1>3, <2>1 DEF Carries
  <2> QED BY <1>1, <2>1, <2>2, ProjectsAre
<1> QED BY <1>2, <1>3

\* A list with an entry for each of some versions has one if they do.
LEMMA ListedIsNotEmpty ==
  ASSUME NEW versions \in Seq(Versions), versions # <<>>, NEW list, DOMAIN list = DOMAIN versions
  PROVE  list # <<>>
<1>1. Len(versions) \in Nat /\ Len(versions) # 0
  BY EmptySeq
<1>2. 1 \in DOMAIN versions
  BY <1>1
<1>3. DOMAIN <<>> = {}
  OBVIOUS
<1> QED BY <1>2, <1>3

\* Of a package whose index has had releases of it all along, an answer that is
\* neither torn nor short of a request is compared.
LEMMA HadIsCompared ==
  ASSUME Inv, stage = "reported", NEW i \in DOMAIN jobs,
         ~ jobs[i].lost, jobs[i].text # Torn,
         jobs[i].package.kind = "conda" => jobs[i].channel = jobs[i].package.channel,
         \A e \in 1..edition : Carries(jobs[i], e)
  PROVE  IsCompared(i)
<1> DEFINE x == jobs[i]
<1>1. Asks(x, Packages[i]) /\ Has(x) /\ x.at = "answered"
  BY DEF Inv, JobsInv, Has
<1>2. x.text \notin {None, Torn} /\ ~ x.unreachable
  BY <1>1 DEF Has
<1>3. ASSUME x.index = "prefix" PROVE ReleasesOf(x) # <<>>
  <2>1. \A e \in 1..edition : HasReleases(x, e)
    BY <1>3 DEF Carries, HasReleases, Place
  <2>2. x.text \in PageTexts /\ x.text.versions # <<>>
    BY <1>1, <1>2, <1>3, <2>1 DEF Has, Sound
  <2>3. ReleasesOf(x) = PrefixReleases(x.text)
    BY <1>2, <1>3 DEF ReleasesOf
  <2>4. DOMAIN PrefixReleases(x.text) = DOMAIN x.text.versions /\ x.text.versions \in Seq(Versions)
    BY <2>2 DEF PrefixReleases, PageTexts
  <2> HIDE DEF x
  <2>5. PrefixReleases(x.text) # <<>>
    BY <2>2, <2>4, ListedIsNotEmpty
  <2> QED BY <2>3, <2>5
<1>4. ASSUME x.index \in {"anaconda", "pypi"} PROVE ReleasesOf(x) # <<>>
  <2>1. edition \in DOMAIN Editions /\ Sound(x, x.text, edition)
    BY <1>1, <1>2 DEF Has, Inv, TypeInv
  <2>2. x.text \in Projects /\ x.text.versions # <<>>
    <3> HIDE DEF x
    <3> QED BY <1>4, <2>1, WholeIsCarried DEF x
  <2>3. ReleasesOf(x) = ProjectReleases(x.text, x.index)
    BY <1>2, <1>4 DEF ReleasesOf
  <2>4. DOMAIN ProjectReleases(x.text, x.index) = DOMAIN x.text.versions /\ x.text.versions \in Seq(Versions)
    BY <2>2, OutdatedAssumption DEF ProjectReleases
  <2> HIDE DEF x
  <2>5. ProjectReleases(x.text, x.index) # <<>>
    BY <2>2, <2>4, ListedIsNotEmpty
  <2> QED BY <2>3, <2>5
<1>5. ReleasesOf(x) # <<>>
  <2>1. x.index \in Kinds
    BY <1>1 DEF Asks, Jobs
  <2> QED BY <1>3, <1>4, <2>1 DEF Kinds
<1>6. ~ IsSubstituted(x)
  <2> HIDE DEF x
  <2> QED BY <1>1, Zenon DEF Asks, IsSubstituted, InDocument, x
<1> QED BY <1>2, <1>5, <1>6 DEF IsCompared

\* NoPackageIsMisplaced follows.
LEMMA InvSaysWhere ==
  ASSUME Inv, HashesTellVersions, stage = "reported"
  PROVE  NoPackageIsMisplaced
<1> DEFINE compared == {i \in DOMAIN Packages : IsCompared(i)}
           StatusOf(i) == Status(ReleasesOf(jobs[i]), jobs[i].package.version)
           rows == {[package |-> i, status |-> StatusOf(i)] : i \in compared}
           rest == DOMAIN Packages \ compared
           unavailable == {i \in rest : IsUnreachable(i)}
           unknown == {i \in rest \ unavailable : Packages[i].index \/ Packages[i].kind = "conda"}
<1>1. /\ output.checked = rows /\ output.unavailable = unavailable /\ output.unknown = unknown
      /\ output.notChecked = rest \ (unavailable \cup unknown)
  <2>1. output = Report
    BY DEF Inv, ReportInv
  <2> HIDE DEF StatusOf
  <2> QED BY <2>1 DEF Report, StatusOf
<1>2. DOMAIN jobs \subseteq DOMAIN Packages /\ edition \in DOMAIN Editions
  BY DEF Inv, TypeInv, InDocument
<1>3. \A row \in rows : row.package \in compared
  OBVIOUS
<1>4. ASSUME NEW row \in rows
      PROVE  LET job == jobs[row.package]
                 Had(e) == LET place == <<job.channel, job.package.name>>
                           IN  /\ place \in DOMAIN Editions[e].conda
                               /\ Known(Editions[e].conda[place], job.package.version)
                               /\ job.package.sha \in Range(Editions[e].conda[place].builds[job.package.version])
             IN  job.package.kind = "conda" /\ job.channel # job.package.channel => \E e \in 1..edition : Had(e)
  <2> DEFINE i == row.package
             x == jobs[i]
  <2>1. IsCompared(i)
    BY <1>3, <1>4
  <2> SUFFICES ASSUME x.package.kind = "conda", x.channel # x.package.channel
               PROVE  \E e \in 1..edition :
                        /\ Place(x) \in DOMAIN Editions[e].conda
                        /\ Known(Editions[e].conda[Place(x)], x.package.version)
                        /\ x.package.sha \in Range(Editions[e].conda[Place(x)].builds[x.package.version])
    BY DEF Place
  <2> HIDE DEF i
  <2>2. HashVouches(x) /\ Sound(x, x.text, edition) /\ Asks(x, Packages[i])
    BY <2>1, ComparedHas
  <2>3. x \in Jobs /\ x.index # "pypi"
    BY <2>2 DEF Asks
  <2> HIDE DEF x
  <2> QED BY <1>2, <2>2, <2>3, VouchedIsHad
<1>5. unavailable = {i \in DOMAIN jobs : jobs[i].lost /\ ~ run.offline /\ jobs[i].text = None}
  <2>1. \A i \in DOMAIN jobs : jobs[i].unreachable <=> jobs[i].lost /\ ~ run.offline /\ jobs[i].text = None
    BY DEF Inv, JobsInv, Has
  <2> QED BY <1>2, <2>1 DEF IsUnreachable, IsCompared
<1>6. ASSUME NEW i \in unknown \cap DOMAIN jobs
      PROVE  LET job == jobs[i]
             IN  \/ job.lost \/ job.text = Torn
                 \/ job.package.kind = "conda" /\ job.channel # job.package.channel
                 \/ \E e \in 1..edition : ~ Carries(job, e)
  <2>1. i \in DOMAIN jobs /\ ~ IsCompared(i)
    BY <1>6
  <2> QED BY <2>1, HadIsCompared
<1>7. {row.package : row \in rows} = compared
  <2>1. \A i : [package |-> i, status |-> StatusOf(i)].package = i
    OBVIOUS
  <2> HIDE DEF compared
  <2>2. {row.package : row \in rows} \subseteq compared
    OBVIOUS
  <2>3. ASSUME NEW i \in compared PROVE i \in {row.package : row \in rows}
    <3>1. [package |-> i, status |-> StatusOf(i)] \in rows
      OBVIOUS
    <3> HIDE DEF StatusOf, rows
    <3> QED BY <2>1, <3>1
  <2> QED BY <2>2, <2>3
<1>8. compared \cup unavailable \cup unknown \cup (rest \ (unavailable \cup unknown)) = DOMAIN Packages
  OBVIOUS
<1> HIDE DEF compared, rows, rest, unavailable, unknown
<1> QED BY <1>1, <1>4, <1>5, <1>6, <1>7, <1>8 DEF NoPackageIsMisplaced

\* Each package is held against its own history or none, and of those without a row the
\* report says why, whichever requests and batches fail and whatever is published.
THEOREM NoneIsMisplaced ==
  ASSUME FilesApart, HashesTellVersions
  PROVE  Spec => []NoPackageIsMisplaced
<1>1. Inv => NoPackageIsMisplaced
  <2>1. CASE stage = "reported"
    BY <2>1, InvSaysWhere
  <2>2. CASE stage # "reported"
    BY <2>2 DEF NoPackageIsMisplaced
  <2> QED BY <2>1, <2>2
<1> QED BY <1>1, InvHolds, PTL

-----------------------------------------------------------------------------
(***************************************************************************)
(* How far behind.  A row counts what its answer has, so the argument is     *)
(* about what the pages of an answer have of what the index listed when the  *)
(* first of them was asked for.                                             *)
(***************************************************************************)
\* What an index lists of a package is still listed later.
NothingWithdrawn ==
  \A e, f \in DOMAIN Editions : e <= f =>
    \A place \in DOMAIN Editions[e].conda :
      /\ place \in DOMAIN Editions[f].conda
      /\ Range(Editions[e].conda[place].versions) \subseteq Range(Editions[f].conda[place].versions)

IsVersion(v) == v \in [1..4 -> Nat]
IsHistory(s) ==
  /\ s \in Seq([1..4 -> Nat])
  /\ \A m, n \in DOMAIN s : m < n => IsNewer(s[m], s[n])

\* The versions before v, where the newest come first.
Above(s, v) == {w \in Range(s) : IsNewer(w, v)}

\* Versions are in order.
LEMMA IsNewerIsStrict ==
  /\ \A v : IsVersion(v) => ~ IsNewer(v, v)
  /\ \A u, v, w : (IsVersion(u) /\ IsVersion(v) /\ IsVersion(w) /\ IsNewer(u, v) /\ IsNewer(v, w)) => IsNewer(u, w)
<1>1. ASSUME NEW v, IsVersion(v) PROVE ~ IsNewer(v, v)
  <2>1. \A n \in 1..4 : v[n] \in Nat
    BY <1>1 DEF IsVersion
  <2> QED BY <2>1 DEF IsNewer
<1>2. ASSUME NEW u, NEW v, NEW w, IsVersion(u), IsVersion(v), IsVersion(w), IsNewer(u, v), IsNewer(v, w)
      PROVE  IsNewer(u, w)
  <2>1. \A n \in 1..4 : u[n] \in Nat /\ v[n] \in Nat /\ w[n] \in Nat
    BY <1>2 DEF IsVersion
  <2>2. PICK m \in 1..4 : u[m] > v[m] /\ \A i \in 1..m - 1 : u[i] = v[i]
    BY <1>2 DEF IsNewer
  <2>3. PICK n \in 1..4 : v[n] > w[n] /\ \A i \in 1..n - 1 : v[i] = w[i]
    BY <1>2 DEF IsNewer
  <2>4. CASE m < n
    <3>1. u[m] > w[m] /\ \A i \in 1..m - 1 : u[i] = w[i]
      <4>1. m \in 1..n - 1 /\ \A i \in 1..m - 1 : i \in 1..n - 1
        BY <2>4
      <4> QED BY <2>1, <2>2, <2>3, <4>1
    <3> QED BY <3>1 DEF IsNewer
  <2>5. CASE n < m
    <3>1. u[n] > w[n] /\ \A i \in 1..n - 1 : u[i] = w[i]
      <4>1. n \in 1..m - 1 /\ \A i \in 1..n - 1 : i \in 1..m - 1
        BY <2>5
      <4> QED BY <2>1, <2>2, <2>3, <4>1
    <3> QED BY <3>1 DEF IsNewer
  <2>6. CASE m = n
    <3>1. u[m] > w[m] /\ \A i \in 1..m - 1 : u[i] = w[i]
      BY <2>1, <2>2, <2>3, <2>6
    <3> QED BY <3>1 DEF IsNewer
  <2> QED BY <2>4, <2>5, <2>6
<1> QED BY <1>1, <1>2

\* A function has no more values than arguments, and as many if it tells them apart.
LEMMA ValuesAre ==
  ASSUME NEW S, IsFiniteSet(S), NEW f, DOMAIN f = S, f = [x \in S |-> f[x]]
  PROVE  LET T == {f[x] : x \in S}
         IN  /\ IsFiniteSet(T) /\ Cardinality(T) <= Cardinality(S)
             /\ (\A x, y \in S : f[x] = f[y] => x = y) => Cardinality(T) = Cardinality(S)
<1> DEFINE T == {f[x] : x \in S}
<1>1. f \in [S -> T]
  OBVIOUS
<1>2. f \in Surjection(S, T)
  BY <1>1 DEF Surjection
<1>3. IsFiniteSet(T) /\ Cardinality(T) <= Cardinality(S)
      /\ (Cardinality(T) = Cardinality(S) <=> f \in Injection(S, T))
  BY <1>2, FS_Surjection
<1>4. (\A x, y \in S : f[x] = f[y] => x = y) => f \in Injection(S, T)
  BY <1>1 DEF Injection, IsInjective
<1> QED BY <1>3, <1>4

\* The first n numbers are n.
LEMMA PlacesAre == \A n \in Nat : IsFiniteSet(1..n) /\ Cardinality(1..n) = n
<1> SUFFICES ASSUME NEW n \in Nat PROVE IsFiniteSet(1..n) /\ Cardinality(1..n) = n
  OBVIOUS
<1>1. IsFiniteSet(1..n) /\ Cardinality(1..n) = IF 1 > n THEN 0 ELSE n - 1 + 1
  BY FS_Interval
<1> QED BY <1>1

\* The places of a history.
LEMMA HistoryHas ==
  ASSUME NEW s, IsHistory(s)
  PROVE  /\ DOMAIN s = 1..Len(s) /\ Len(s) \in Nat /\ \A m \in DOMAIN s : IsVersion(s[m])
         /\ \A m, n \in DOMAIN s : m < n => IsNewer(s[m], s[n])
         /\ s = [m \in DOMAIN s |-> s[m]]
<1>1. s \in Seq([1..4 -> Nat])
  BY DEF IsHistory
<1>2. Len(s) \in Nat /\ s \in [1..Len(s) -> [1..4 -> Nat]]
  BY <1>1, LenProperties
<1>3. DOMAIN s = 1..Len(s) /\ s = [m \in DOMAIN s |-> s[m]]
  BY <1>2
<1>4. \A m \in DOMAIN s : s[m] \in [1..4 -> Nat]
  BY <1>2
<1>5. \A m \in DOMAIN s : IsVersion(s[m])
  BY <1>4, Zenon DEF IsVersion
<1> QED BY <1>2, <1>3, <1>5 DEF IsHistory

\* What is before a version of a history is in the places before it, and is as many.
LEMMA AboveAre ==
  ASSUME NEW s, IsHistory(s), NEW q \in DOMAIN s
  PROVE  /\ Above(s, s[q]) = {s[m] : m \in 1..q - 1}
         /\ IsFiniteSet(Above(s, s[q])) /\ Cardinality(Above(s, s[q])) = q - 1
<1>1. /\ DOMAIN s = 1..Len(s) /\ Len(s) \in Nat /\ \A m \in DOMAIN s : IsVersion(s[m])
      /\ \A m, n \in DOMAIN s : m < n => IsNewer(s[m], s[n])
  BY HistoryHas
<1>2. \A m \in DOMAIN s : IsNewer(s[m], s[q]) <=> m < q
  <2> SUFFICES ASSUME NEW m \in DOMAIN s PROVE IsNewer(s[m], s[q]) <=> m < q
    OBVIOUS
  <2>1. CASE m < q
    BY <1>1, <2>1
  <2>2. CASE m = q
    BY <1>1, <2>2, IsNewerIsStrict
  <2>3. CASE m > q
    <3>1. IsNewer(s[q], s[m]) /\ IsVersion(s[q]) /\ IsVersion(s[m])
      BY <1>1, <2>3
    <3>2. ~ IsNewer(s[m], s[q])
      BY <3>1, IsNewerIsStrict
    <3> QED BY <1>1, <2>3, <3>2
  <2> QED BY <1>1, <2>1, <2>2, <2>3
<1>3. q \in 1..Len(s) /\ \A m \in 1..q - 1 : m \in DOMAIN s /\ m < q
  BY <1>1
<1>4. Above(s, s[q]) = {s[m] : m \in 1..q - 1}
  <2>1. ASSUME NEW w \in Above(s, s[q]) PROVE w \in {s[m] : m \in 1..q - 1}
    <3>1. PICK m \in DOMAIN s : w = s[m] /\ IsNewer(s[m], s[q])
      BY <2>1 DEF Above, Range
    <3>2. m < q
      BY <1>2, <3>1
    <3>3. m \in 1..q - 1
      BY <1>1, <1>3, <3>2
    <3> QED BY <3>1, <3>3
  <2>2. ASSUME NEW m \in 1..q - 1 PROVE s[m] \in Above(s, s[q])
    BY <1>2, <1>3 DEF Above, Range
  <2> QED BY <2>1, <2>2
<1> DEFINE S == 1..q - 1
           f == [m \in S |-> s[m]]
<1>5. IsFiniteSet(S) /\ Cardinality(S) = q - 1
  <2>1. q - 1 \in Nat
    BY <1>3
  <2> QED BY <2>1, PlacesAre
<1>6. \A m, n \in S : s[m] = s[n] => m = n
  <2> SUFFICES ASSUME NEW m \in S, NEW n \in S, m < n PROVE s[m] # s[n]
    BY <1>3
  <2>1. IsNewer(s[m], s[n]) /\ IsVersion(s[n])
    BY <1>1, <1>3
  <2> QED BY <2>1, IsNewerIsStrict
<1>7. LET T == {f[m] : m \in S}
      IN  IsFiniteSet(T) /\ Cardinality(T) = Cardinality(S)
  <2>1. \A m, n \in S : f[m] = f[n] => m = n
    BY <1>6
  <2>2. DOMAIN f = S /\ f = [m \in S |-> f[m]]
    OBVIOUS
  <2> HIDE DEF S, f
  <2> QED BY <1>5, <2>1, <2>2, ValuesAre
<1>8. {f[m] : m \in S} = {s[m] : m \in 1..q - 1}
  OBVIOUS
<1> QED BY <1>4, <1>5, <1>7, <1>8

\* A history has as many versions as places.
LEMMA HistoryIs ==
  ASSUME NEW s, IsHistory(s)
  PROVE  /\ IsFiniteSet(Range(s)) /\ Cardinality(Range(s)) = Len(s) /\ Len(s) \in Nat
         /\ \A v \in Range(s) : IsVersion(v)
<1>1. /\ DOMAIN s = 1..Len(s) /\ Len(s) \in Nat /\ \A m \in DOMAIN s : IsVersion(s[m])
      /\ \A m, n \in DOMAIN s : m < n => IsNewer(s[m], s[n])
      /\ s = [m \in DOMAIN s |-> s[m]]
  BY HistoryHas
<1>2. \A m, n \in DOMAIN s : s[m] = s[n] => m = n
  <2> SUFFICES ASSUME NEW m \in DOMAIN s, NEW n \in DOMAIN s, m < n PROVE s[m] # s[n]
    BY <1>1
  <2>1. IsNewer(s[m], s[n]) /\ IsVersion(s[n])
    BY <1>1
  <2> QED BY <2>1, IsNewerIsStrict
<1>3. IsFiniteSet(DOMAIN s) /\ Cardinality(DOMAIN s) = Len(s)
  <2>1. IsFiniteSet(1..Len(s)) /\ Cardinality(1..Len(s)) = Len(s)
    BY <1>1, FS_Interval
  <2> QED BY <1>1, <2>1
<1>4. LET T == {s[m] : m \in DOMAIN s}
      IN  IsFiniteSet(T) /\ Cardinality(T) = Cardinality(DOMAIN s)
  <2> DEFINE S == DOMAIN s
  <2>1. IsFiniteSet(S) /\ DOMAIN s = S /\ s = [m \in S |-> s[m]] /\ \A m, n \in S : s[m] = s[n] => m = n
    BY <1>1, <1>2, <1>3
  <2> HIDE DEF S
  <2> QED BY <2>1, ValuesAre
<1>5. Range(s) = {s[m] : m \in DOMAIN s}
  BY DEF Range
<1> QED BY <1>1, <1>3, <1>4, <1>5

\* Every project has a history.
LEMMA ProjectsHaveHistories ==
  ASSUME NEW project \in Projects
  PROVE  IsHistory(project.versions)
<1>1. project.versions \in Seq(Versions) /\ Versions \subseteq [1..4 -> Nat]
      /\ \A m, n \in DOMAIN project.versions : m < n => IsNewer(project.versions[m], project.versions[n])
  BY OutdatedAssumption
<1>2. project.versions \in Seq([1..4 -> Nat])
  <2> DEFINE s == project.versions
  <2>1. s \in Seq(Versions)
    BY <1>1
  <2> HIDE DEF s
  <2>2. s \in [1..Len(s) -> [1..4 -> Nat]] /\ Len(s) \in Nat
    BY <1>1, <2>1
  <2>3. s \in Seq([1..4 -> Nat])
    BY <2>2
  <2> QED BY <2>3 DEF s
<1> QED BY <1>1, <1>2 DEF IsHistory

\* The pages t of an answer, over what an index listed when the first was asked for, s,
\* and what it lists now, c: a version that was listed and is on none of them is further
\* down by now than they go, and behind all that is on them.
PagesOf(s, t, c) ==
  /\ Len(t) <= Len(c)
  /\ \A v \in Range(s) :
       v \in Range(t) \/ (Len(t) <= Cardinality(Above(c, v)) /\ \A w \in Range(t) : IsNewer(w, v))

\* Before the first page, nothing is missing.
LEMMA NoPagesYet ==
  ASSUME NEW s, IsHistory(s)
  PROVE  PagesOf(s, <<>>, s)
<1>1. Len(<<>>) = 0 /\ Range(<<>>) = {} /\ Len(s) \in Nat
  BY HistoryHas DEF Range
<1>2. \A v \in Range(s) : 0 <= Cardinality(Above(s, v))
  <2> SUFFICES ASSUME NEW v \in Range(s) PROVE 0 <= Cardinality(Above(s, v))
    OBVIOUS
  <2>1. PICK q \in DOMAIN s : v = s[q]
    BY DEF Range
  <2>2. Cardinality(Above(s, v)) = q - 1 /\ q \in 1..Len(s)
    BY <2>1, AboveAre, HistoryHas
  <2> QED BY <1>1, <2>2
<1> QED BY <1>1, <1>2 DEF PagesOf

\* The next page, of what is listed now.
LEMMA NextPage ==
  ASSUME NEW s, NEW c, IsHistory(c), Range(s) \subseteq Range(c),
         NEW t \in Seq(Versions), NEW page \in Seq(Versions), PagesOf(s, t, c),
         Len(t) + Len(page) <= Len(c), \A i \in 1..Len(page) : page[i] = c[Len(t) + i]
  PROVE  PagesOf(s, t \o page, c)
<1> DEFINE u == t \o page
<1>1. /\ Len(t) \in Nat /\ Len(page) \in Nat /\ DOMAIN t = 1..Len(t) /\ DOMAIN page = 1..Len(page)
      /\ u \in Seq(Versions) /\ Len(u) = Len(t) + Len(page) /\ DOMAIN u = 1..Len(t) + Len(page)
      /\ \A i \in 1..Len(t) + Len(page) : u[i] = IF i <= Len(t) THEN t[i] ELSE page[i - Len(t)]
  BY ConcatProperties, LenProperties
<1>2. Range(t) \subseteq Range(u)
  <2> SUFFICES ASSUME NEW i \in DOMAIN t PROVE t[i] \in Range(u)
    BY DEF Range
  <2>1. i \in DOMAIN u /\ u[i] = t[i]
    BY <1>1
  <2> QED BY <2>1 DEF Range
<1>3. \A i \in Len(t) + 1..Len(t) + Len(page) : i \in DOMAIN u /\ u[i] = c[i]
  <2> SUFFICES ASSUME NEW i \in Len(t) + 1..Len(t) + Len(page) PROVE i \in DOMAIN u /\ u[i] = c[i]
    OBVIOUS
  <2>1. i \in 1..Len(t) + Len(page) /\ i - Len(t) \in 1..Len(page) /\ Len(t) + (i - Len(t)) = i /\ ~ (i <= Len(t))
    BY <1>1
  <2>2. u[i] = page[i - Len(t)] /\ page[i - Len(t)] = c[Len(t) + (i - Len(t))]
    BY <1>1, <2>1
  <2> HIDE DEF u
  <2> QED BY <1>1, <2>1, <2>2
<1> HIDE DEF u
<1>4. ASSUME NEW v \in Range(s), v \notin Range(u)
      PROVE  Len(u) <= Cardinality(Above(c, v)) /\ \A w \in Range(u) : IsNewer(w, v)
  <2>1. Len(t) <= Cardinality(Above(c, v)) /\ \A w \in Range(t) : IsNewer(w, v)
    BY <1>2, <1>4 DEF PagesOf
  <2>2. PICK q \in DOMAIN c : v = c[q]
    BY DEF Range
  <2>3. Cardinality(Above(c, v)) = q - 1 /\ q \in 1..Len(c) /\ Len(c) \in Nat
    BY <2>2, AboveAre, HistoryHas
  <2>4. q > Len(u)
    <3>1. q > Len(t)
      BY <1>1, <2>1, <2>3
    <3>2. ASSUME q <= Len(u) PROVE FALSE
      <4>1. q \in Len(t) + 1..Len(t) + Len(page)
        BY <1>1, <2>3, <3>1, <3>2
      <4>2. q \in DOMAIN u /\ u[q] = v
        BY <1>3, <2>2, <4>1
      <4> QED BY <1>4, <4>2 DEF Range
    <3> QED BY <1>1, <2>3, <3>2
  <2>5. ASSUME NEW w \in Range(u) PROVE IsNewer(w, v)
    <3>1. PICK i \in DOMAIN u : w = u[i]
      BY DEF Range
    <3>2. CASE i <= Len(t)
      <4>1. w = t[i] /\ i \in DOMAIN t
        BY <1>1, <3>1, <3>2
      <4> QED BY <2>1, <4>1 DEF Range
    <3>3. CASE i > Len(t)
      <4>1. i \in Len(t) + 1..Len(t) + Len(page) /\ i < q
        BY <1>1, <2>3, <2>4, <3>3
      <4>2. w = c[i] /\ i \in DOMAIN c
        BY <1>1, <1>3, <2>3, <3>1, <4>1, HistoryHas
      <4> QED BY <2>2, <4>1, <4>2, HistoryHas
    <3> QED BY <1>1, <3>2, <3>3
  <2> QED BY <1>1, <2>3, <2>4, <2>5
<1>5. Len(u) <= Len(c)
  BY <1>1
<1> QED BY <1>4, <1>5 DEF PagesOf, u

\* What is published pushes down what is not on a page.
LEMMA PagesLast ==
  ASSUME NEW s, NEW t, NEW c, NEW d, IsHistory(c), IsHistory(d),
         Range(s) \subseteq Range(c), Range(c) \subseteq Range(d),
         Len(t) \in Nat, PagesOf(s, t, c)
  PROVE  PagesOf(s, t, d)
<1>1. Len(c) <= Len(d) /\ Len(c) \in Nat /\ Len(d) \in Nat
  <2>1. Cardinality(Range(c)) <= Cardinality(Range(d))
    BY HistoryIs, FS_Subset
  <2> QED BY <2>1, HistoryIs
<1>2. \A v \in Range(s) : /\ Cardinality(Above(c, v)) \in Nat /\ Cardinality(Above(d, v)) \in Nat
                          /\ Cardinality(Above(c, v)) <= Cardinality(Above(d, v))
  <2> SUFFICES ASSUME NEW v \in Range(s)
               PROVE  /\ Cardinality(Above(c, v)) \in Nat /\ Cardinality(Above(d, v)) \in Nat
                      /\ Cardinality(Above(c, v)) <= Cardinality(Above(d, v))
    OBVIOUS
  <2>1. Above(c, v) \subseteq Above(d, v) /\ Above(d, v) \subseteq Range(d)
    BY DEF Above
  <2>2. IsFiniteSet(Above(d, v))
    BY <2>1, HistoryIs, FS_Subset
  <2>3. IsFiniteSet(Above(c, v)) /\ Cardinality(Above(c, v)) <= Cardinality(Above(d, v))
    BY <2>1, <2>2, FS_Subset
  <2> QED BY <2>2, <2>3, FS_CardinalityType
<1>3. Len(t) <= Len(d)
  BY <1>1 DEF PagesOf
<1>4. ASSUME NEW v \in Range(s), v \notin Range(t)
      PROVE  Len(t) <= Cardinality(Above(d, v)) /\ \A w \in Range(t) : IsNewer(w, v)
  <2>1. Len(t) <= Cardinality(Above(c, v)) /\ \A w \in Range(t) : IsNewer(w, v)
    BY <1>4 DEF PagesOf
  <2> QED BY <1>2, <2>1
<1> QED BY <1>3, <1>4 DEF PagesOf

\* Of any kind of versions, G, the pages have no more than there were, but for one for
\* each that was published since; and if they have all there were, no less.
LEMMA PagesCount ==
  ASSUME NEW s, NEW t, NEW c, IsHistory(s), IsHistory(c), Range(s) \subseteq Range(c),
         t \in Seq(Versions), PagesOf(s, t, c), NEW G
  PROVE  LET had == Range(s) \cap G
             have == {j \in DOMAIN t : t[j] \in G}
         IN  /\ Cardinality(had) \in Nat /\ Cardinality(have) \in Nat
             /\ Cardinality(have) <= Cardinality(had) + (Len(c) - Len(s))
             /\ had \subseteq Range(t) => Cardinality(had) <= Cardinality(have)
<1> DEFINE n == Len(t)
           had == Range(s) \cap G
           have == {j \in DOMAIN t : t[j] \in G}
           first == {c[m] : m \in 1..n}
           K == first \cap Range(s)
           f == [v \in K |-> CHOOSE j \in DOMAIN t : t[j] = v]
           J == {f[v] : v \in K}
<1>1. /\ n \in Nat /\ DOMAIN t = 1..n /\ n <= Len(c) /\ Len(c) \in Nat /\ Len(s) \in Nat
      /\ DOMAIN c = 1..Len(c) /\ IsFiniteSet(1..n) /\ Cardinality(1..n) = n
  <2>1. n \in Nat /\ DOMAIN t = 1..n
    BY LenProperties
  <2>2. n <= Len(c)
    BY DEF PagesOf
  <2>3. Len(c) \in Nat /\ Len(s) \in Nat /\ DOMAIN c = 1..Len(c)
    BY HistoryHas
  <2>4. IsFiniteSet(1..n) /\ Cardinality(1..n) = n
    BY <2>1, PlacesAre
  <2> QED BY <2>1, <2>2, <2>3, <2>4
<1>2. /\ IsFiniteSet(Range(s)) /\ Cardinality(Range(s)) = Len(s)
      /\ IsFiniteSet(Range(c)) /\ Cardinality(Range(c)) = Len(c)
  BY HistoryIs
<1>3. /\ IsFiniteSet(had) /\ IsFiniteSet(have) /\ have \subseteq 1..n
      /\ Cardinality(had) \in Nat /\ Cardinality(have) \in Nat
  <2>1. had \subseteq Range(s) /\ have \subseteq 1..n
    BY <1>1
  <2>2. IsFiniteSet(had) /\ IsFiniteSet(have)
    BY <1>1, <1>2, <2>1, FS_Subset
  <2> QED BY <2>1, <2>2, FS_CardinalityType
<1>4. IsFiniteSet(first) /\ Cardinality(first) = n /\ first \subseteq Range(c)
  <2>1. \A i, j \in 1..n : c[i] = c[j] => i = j
    <3> SUFFICES ASSUME NEW i \in 1..n, NEW j \in 1..n, i < j PROVE c[i] # c[j]
      BY <1>1
    <3>1. i \in DOMAIN c /\ j \in DOMAIN c
      BY <1>1
    <3>2. IsNewer(c[i], c[j]) /\ IsVersion(c[j])
      BY <3>1, HistoryHas
    <3> QED BY <3>2, IsNewerIsStrict
  <2> DEFINE g == [i \in 1..n |-> c[i]]
             S == 1..n
  <2>2. {g[i] : i \in S} = first
    OBVIOUS
  <2>6. DOMAIN g = S /\ g = [i \in S |-> g[i]] /\ \A i, j \in S : g[i] = g[j] => i = j
    BY <2>1
  <2>3. IsFiniteSet(S) /\ Cardinality(S) = n
    BY <1>1
  <2>4. first \subseteq Range(c)
    BY <1>1 DEF Range
  <2> HIDE DEF g, S, first, n
  <2>5. LET T == {g[i] : i \in S} IN IsFiniteSet(T) /\ Cardinality(T) = Cardinality(S)
    BY <2>3, <2>6, ValuesAre
  <2> QED BY <2>2, <2>3, <2>4, <2>5
<1>5. IsFiniteSet(K) /\ Cardinality(K) \in Nat /\ n - Cardinality(K) <= Len(c) - Len(s)
  <2>1. IsFiniteSet(K) /\ Cardinality(K) \in Nat
    BY <1>4, FS_Subset, FS_CardinalityType
  <2>2. Cardinality(first \ Range(s)) = n - Cardinality(K) /\ IsFiniteSet(first \ Range(s))
    BY <1>4, FS_Difference
  <2>3. Cardinality(Range(c) \ Range(s)) = Len(c) - Len(s) /\ IsFiniteSet(Range(c) \ Range(s))
    <3> HIDE DEF first, K, n
    <3>1. Range(c) \cap Range(s) = Range(s)
      OBVIOUS
    <3>2. /\ IsFiniteSet(Range(c) \ Range(s))
          /\ Cardinality(Range(c) \ Range(s)) = Cardinality(Range(c)) - Cardinality(Range(c) \cap Range(s))
      BY <1>2, FS_Difference
    <3> QED BY <1>2, <3>1, <3>2
  <2>4. first \ Range(s) \in SUBSET (Range(c) \ Range(s))
    BY <1>4
  <2>5. Cardinality(first \ Range(s)) <= Cardinality(Range(c) \ Range(s))
    BY <2>3, <2>4, FS_Subset
  <2> HIDE DEF first, K
  <2> QED BY <2>1, <2>2, <2>3, <2>5
<1>6. \A v \in K : f[v] \in DOMAIN t /\ t[f[v]] = v
  <2> SUFFICES ASSUME NEW v \in K PROVE \E j \in DOMAIN t : t[j] = v
    OBVIOUS
  <2>1. PICK m \in 1..n : v = c[m]
    OBVIOUS
  <2>2. Cardinality(Above(c, v)) = m - 1
    <3>1. m \in DOMAIN c
      BY <1>1
    <3> QED BY <2>1, <3>1, AboveAre
  <2>3. v \in Range(t)
    BY <1>1, <2>2 DEF PagesOf
  <2> QED BY <2>3 DEF Range
<1>7. J \subseteq 1..n /\ IsFiniteSet(J) /\ Cardinality(J) = Cardinality(K)
  <2>1. \A v, w \in K : f[v] = f[w] => v = w
    <3> HIDE DEF K, f
    <3> QED BY <1>6
  <2>2. DOMAIN f = K /\ f = [v \in K |-> f[v]]
    OBVIOUS
  <2>3. J \subseteq 1..n
    <3>1. DOMAIN t = 1..n
      BY <1>1
    <3> HIDE DEF f, K, n
    <3> QED BY <1>6, <3>1
  <2>4. IsFiniteSet(K)
    BY <1>5
  <2>5. J = {f[v] : v \in K}
    OBVIOUS
  <2> HIDE DEF f, K, J, n
  <2>6. LET T == {f[v] : v \in K} IN IsFiniteSet(T) /\ Cardinality(T) = Cardinality(K)
    BY <2>1, <2>2, <2>4, ValuesAre
  <2> QED BY <2>3, <2>5, <2>6
<1>8. \A i, j \in J : t[i] \in K /\ (t[i] = t[j] => i = j)
  <2>1. \A i \in J : \E v \in K : i = f[v]
    OBVIOUS
  <2> HIDE DEF f, K, J
  <2>2. \A i \in J : t[i] \in K /\ i = f[t[i]]
    BY <1>6, <2>1
  <2> QED BY <2>2
<1>9. Cardinality(have \cap J) <= Cardinality(had) /\ IsFiniteSet(have \cap J)
  <2> DEFINE S == have \cap J
             g == [i \in S |-> t[i]]
             T == {g[i] : i \in S}
  <2>1. DOMAIN g = S /\ g = [i \in S |-> g[i]] /\ \A i, j \in S : g[i] = g[j] => i = j
    <3> HIDE DEF J, have
    <3> QED BY <1>8
  <2>2. T \subseteq had
    <3> SUFFICES ASSUME NEW i \in S PROVE t[i] \in had
      OBVIOUS
    <3>1. t[i] \in K /\ t[i] \in G
      <4> HIDE DEF J, K
      <4> QED BY <1>8
    <3> QED BY <3>1
  <2>3. IsFiniteSet(S)
    <3> HIDE DEF have, J
    <3> QED BY <1>3, FS_Subset
  <2>4. Cardinality(T) = Cardinality(S)
    <3> HIDE DEF g, S
    <3> QED BY <2>1, <2>3, ValuesAre
  <2>5. Cardinality(T) <= Cardinality(had)
    <3> HIDE DEF T, had
    <3> QED BY <1>3, <2>2, FS_Subset
  <2> HIDE DEF T, had, have, J
  <2> QED BY <2>3, <2>4, <2>5
<1>10. Cardinality(have \ J) <= n - Cardinality(K) /\ IsFiniteSet(have \ J)
  <2> DEFINE S == 1..n
  <2>1. S \cap J = J /\ IsFiniteSet(S) /\ Cardinality(S) = n /\ have \subseteq S
    <3> HIDE DEF have, J, K
    <3> QED BY <1>1, <1>3, <1>7
  <2> HIDE DEF have, J, K, S, n
  <2>2. IsFiniteSet(S \ J) /\ Cardinality(S \ J) = Cardinality(S) - Cardinality(S \cap J)
    BY <2>1, FS_Difference
  <2>3. Cardinality(S \ J) = n - Cardinality(K)
    BY <1>7, <2>1, <2>2
  <2>4. have \ J \in SUBSET (S \ J)
    BY <2>1
  <2>5. IsFiniteSet(have \ J) /\ Cardinality(have \ J) <= Cardinality(S \ J)
    BY <2>2, <2>4, FS_Subset
  <2> QED BY <2>3, <2>5
<1>11. Cardinality(have) <= Cardinality(had) + (Len(c) - Len(s))
  <2> HIDE DEF have, had, J, K
  <2>1. Cardinality(have \ J) = Cardinality(have) - Cardinality(have \cap J)
    BY <1>3, FS_Difference
  <2>2. Cardinality(have \cap J) \in Nat /\ Cardinality(have \ J) \in Nat
    BY <1>9, <1>10, FS_CardinalityType
  <2> QED BY <1>1, <1>3, <1>5, <1>9, <1>10, <2>1, <2>2
<1>12. ASSUME had \subseteq Range(t) PROVE Cardinality(had) <= Cardinality(have)
  <2> DEFINE g == [i \in have |-> t[i]]
             T == {g[i] : i \in have}
  <2>1. IsFiniteSet(T) /\ Cardinality(T) <= Cardinality(have)
    <3>1. DOMAIN g = have /\ g = [i \in have |-> g[i]]
      OBVIOUS
    <3> HIDE DEF g, have
    <3> QED BY <1>3, <3>1, ValuesAre
  <2>2. had \subseteq T
    <3> SUFFICES ASSUME NEW v \in had PROVE v \in T
      OBVIOUS
    <3>1. PICK j \in DOMAIN t : t[j] = v
      BY <1>12 DEF Range
    <3>2. j \in have /\ g[j] = v
      BY <3>1
    <3> QED BY <3>2
  <2>3. Cardinality(had) <= Cardinality(T) /\ Cardinality(T) \in Nat
    <3> HIDE DEF T, had
    <3> QED BY <2>1, <2>2, FS_Subset, FS_CardinalityType
  <2> HIDE DEF T, had, have
  <2> QED BY <1>3, <2>1, <2>3
<1> QED BY <1>3, <1>11, <1>12, Zenon

-----------------------------------------------------------------------------
(* What an answer says, and of when. *)

IsListed(x, e) == Place(x) \in DOMAIN Editions[e].conda
History(x, e) == Editions[e].conda[Place(x)].versions

\* A text is what the index of x had at an edition, or pages of it, of which the first
\* was asked for then.
AsOf(x, text, since, n) ==
  /\ since \in 1..n
  /\ x.index = "pypi" =>
       x.package.name \in DOMAIN Editions[since].pypi /\ text = Editions[since].pypi[x.package.name]
  /\ x.index = "anaconda" => IsListed(x, since) /\ text = Editions[since].conda[Place(x)]
  /\ x.index = "prefix" =>
       /\ text \in PageTexts
       /\ IF IsListed(x, since) THEN PagesOf(History(x, since), text.versions, History(x, n))
          ELSE text.versions = <<>>

\* A job that asks for another page has full ones, and there were more.
HasFullPages(x) ==
  /\ IsListed(x, x.since) /\ x.pages = NumberOfPages(Editions[x.since].conda[Place(x)])
  /\ Len(x.text.versions) = x.page * PageSize
  /\ Len(x.text.versions) < Len(History(x, x.since))

FromThen(x) ==
  /\ x.text \notin {None, Torn} => AsOf(x, x.text, x.since, edition)
  /\ x.at = "asking" /\ x.cached.text \notin {None, Torn} => AsOf(x, x.cached.text, x.cached.since, edition)
  /\ x.at = "paging" => HasFullPages(x)
  /\ stage # "probing" => x.package.version # None

SinceJobs == \A j \in DOMAIN jobs : FromThen(jobs[j])
SinceFiles ==
  \A f \in DOMAIN files :
    files[f].text = Torn
      \/ \E w \in Wanted : FileName(w) = f /\ AsOf(w, files[f].text, files[f].since, edition)
SinceInv == SinceJobs /\ SinceFiles

\* What is said of a place is so for whatever asks for the same place.
LEMMA AsOfThePlace ==
  ASSUME NEW x, NEW y, NEW t, NEW since, NEW n,
         x.index = y.index, x.channel = y.channel, x.package.name = y.package.name, AsOf(x, t, since, n)
  PROVE  AsOf(y, t, since, n)
<1>1. Place(x) = Place(y)
  BY DEF Place
<1> QED BY <1>1 DEF AsOf, IsListed, History

\* What an index lists is a history, and goes on.
LEMMA IndexesHaveHistories ==
  ASSUME NEW x, NEW e \in DOMAIN Editions, IsListed(x, e)
  PROVE  /\ Editions[e].conda[Place(x)] \in Projects /\ IsHistory(History(x, e))
         /\ \A f \in DOMAIN Editions : NothingWithdrawn /\ e <= f =>
              IsListed(x, f) /\ Range(History(x, e)) \subseteq Range(History(x, f)) /\ IsHistory(History(x, f))
<1>1. Editions[e].conda[Place(x)] \in Projects /\ IsHistory(History(x, e))
  BY ProjectsAre, ProjectsHaveHistories DEF IsListed, History
<1>2. ASSUME NEW f \in DOMAIN Editions, NothingWithdrawn, e <= f
      PROVE  IsListed(x, f) /\ Range(History(x, e)) \subseteq Range(History(x, f)) /\ IsHistory(History(x, f))
  <2>1. IsListed(x, f) /\ Range(History(x, e)) \subseteq Range(History(x, f))
    BY <1>2 DEF IsListed, History, NothingWithdrawn
  <2>2. IsHistory(History(x, f))
    BY <2>1, ProjectsAre, ProjectsHaveHistories DEF IsListed, History
  <2> QED BY <2>1, <2>2
<1> QED BY <1>1, <1>2

\* The editions are numbered, and those before one of them are some.
LEMMA EditionsAre ==
  \A n \in DOMAIN Editions : n \in Nat /\ n \in 1..n /\ \A e \in 1..n : e \in DOMAIN Editions /\ e \in Nat /\ e <= n
<1>1. Editions \in Seq(Range(Editions))
  BY OutdatedAssumption
<1> QED BY <1>1

\* What is said of an edition goes on being so.
LEMMA AsOfLasts ==
  ASSUME NothingWithdrawn, NEW x, NEW t, NEW since, NEW n \in DOMAIN Editions, NEW m \in DOMAIN Editions,
         n <= m, AsOf(x, t, since, n)
  PROVE  AsOf(x, t, since, m)
<1>1. since \in DOMAIN Editions /\ since \in 1..m /\ since <= n
  BY EditionsAre DEF AsOf
<1>2. ASSUME x.index = "prefix", IsListed(x, since)
      PROVE  PagesOf(History(x, since), t.versions, History(x, m))
  <2>1. PagesOf(History(x, since), t.versions, History(x, n)) /\ t \in PageTexts
    BY <1>2 DEF AsOf
  <2>2. t.versions \in Seq(Versions)
    BY <2>1 DEF PageTexts
  <2>3. Len(t.versions) \in Nat
    BY <2>2, LenProperties
  <2>4. /\ IsListed(x, n) /\ IsHistory(History(x, n)) /\ Range(History(x, since)) \subseteq Range(History(x, n))
        /\ IsHistory(History(x, m)) /\ Range(History(x, n)) \subseteq Range(History(x, m))
    BY <1>1, <1>2, IndexesHaveHistories
  <2> QED BY <2>1, <2>3, <2>4, PagesLast
<1> QED BY <1>1, <1>2 DEF AsOf

-----------------------------------------------------------------------------
(* Pages. *)

\* More of the same is more.
LEMMA Multiples ==
  /\ \A a, b, c \in Nat : a <= b => a * c <= b * c
  /\ \A a, c \in Nat : a * c \in Nat /\ (a + 1) * c = a * c + c
  OBVIOUS

\* A page that there is begins before the end of the versions.
LEMMA ThereIsMore ==
  ASSUME NEW project \in Projects, NEW k \in Nat, k < NumberOfPages(project)
  PROVE  k * PageSize < Len(project.versions)
<1> DEFINE n == Len(project.versions)
           P == PageSize
           q == n \div P
           r == n % P
<1>1. n \in Nat /\ P \in Nat /\ P > 0
  <2>1. project.versions \in Seq(Versions)
    BY OutdatedAssumption
  <2> QED BY <2>1, OutdatedAssumption, LenProperties
<1>2. ASSUME NEW a \in Nat, NEW b \in Nat, b > 0
      PROVE  a \div b \in Nat /\ a % b \in Nat /\ a = b * (a \div b) + (a % b)
  BY <1>2
<1>3. q \in Nat /\ r \in Nat /\ n = P * q + r
  <2> HIDE DEF n, P
  <2> QED BY <1>1, <1>2
<1>4. k < q + (IF r = 0 THEN 0 ELSE 1)
  BY DEF NumberOfPages
<1> SUFFICES k * P < n
  OBVIOUS
<1> HIDE DEF n, P, q, r
<1>5. P * q = q * P
  BY <1>1, <1>3
<1>6. CASE r = 0
  <2>1. k + 1 <= q /\ k + 1 \in Nat
    BY <1>3, <1>4, <1>6
  <2>2. (k + 1) * P <= q * P /\ (k + 1) * P = k * P + P /\ k * P \in Nat /\ q * P \in Nat
    BY <1>1, <1>3, <2>1, Multiples
  <2> QED BY <1>1, <1>3, <1>5, <1>6, <2>2
<1>7. CASE r # 0
  <2>1. k <= q
    BY <1>3, <1>4, <1>7
  <2>2. k * P <= q * P /\ k * P \in Nat /\ q * P \in Nat
    BY <1>1, <1>3, <2>1, Multiples
  <2> QED BY <1>1, <1>3, <1>5, <1>7, <2>2
<1> QED BY <1>6, <1>7

\* What is on a page.
LEMMA PageHas ==
  ASSUME NEW project \in Projects, NEW k \in Nat, k * PageSize <= Len(project.versions)
  PROVE  LET n == k * PageSize
             s == project.versions
             page == VersionPage(project, k)
         IN  /\ n \in Nat /\ page \in Seq(Versions) /\ Len(page) \in Nat
             /\ n + Len(page) = IF n + PageSize <= Len(s) THEN n + PageSize ELSE Len(s)
             /\ \A i \in 1..Len(page) : page[i] = s[n + i]
<1> DEFINE n == k * PageSize
           s == project.versions
           page == VersionPage(project, k)
           last == IF n + PageSize <= Len(s) THEN n + PageSize ELSE Len(s)
<1>1. s \in Seq(Versions) /\ PageSize \in Nat /\ PageSize > 0 /\ Len(s) \in Nat
  <2>1. s \in Seq(Versions) /\ PageSize \in Nat \ {0}
    BY OutdatedAssumption
  <2> QED BY <2>1, LenProperties
<1>2. n \in Nat /\ n <= Len(s)
  BY <1>1, Multiples
<1>3. page = SubSeq(s, n + 1, last)
  <2>1. n + 1 + PageSize - 1 = n + PageSize
    BY <1>1, <1>2
  <2>2. Min({n + PageSize, Len(s)}) = last
    BY <1>1, <1>2, MinOfTwo
  <2>3. page = SubSeq(s, n + 1, Min({n + 1 + PageSize - 1, Len(s)}))
    BY DEF VersionPage
  <2> HIDE DEF n, last, s
  <2> QED BY <2>1, <2>2, <2>3
<1> HIDE DEF n, s, last
<1>4. last \in Nat /\ n <= last /\ last <= Len(s)
  BY <1>1, <1>2 DEF last
<1>5. \A i \in n + 1..last : s[i] \in Versions
  <2>1. \A i \in n + 1..last : i \in 1..Len(s)
    BY <1>1, <1>2, <1>4
  <2> QED BY <1>1, <2>1, ElementOfSeq
<1>6. /\ page \in Seq(Versions)
      /\ Len(page) = IF n + 1 <= last THEN last - (n + 1) + 1 ELSE 0
      /\ \A i \in 1..last - (n + 1) + 1 : page[i] = s[n + 1 + i - 1]
  <2>1. n + 1 \in Int /\ last \in Int
    BY <1>2, <1>4
  <2> HIDE DEF page
  <2> QED BY <1>3, <1>5, <2>1, SubSeqProperties
<1> HIDE DEF page
<1>7. Len(page) = last - n
  <2>1. Len(page) = IF n + 1 <= last THEN last - (n + 1) + 1 ELSE 0
    BY <1>6
  <2>2. n + 1 <= last \/ n = last
    BY <1>2, <1>4
  <2>3. n + 1 <= last => last - (n + 1) + 1 = last - n
    BY <1>2, <1>4
  <2>4. n = last => ~ (n + 1 <= last) /\ last - n = 0
    BY <1>2, <1>4
  <2> QED BY <2>1, <2>2, <2>3, <2>4, Zenon
<1>8. \A i \in 1..Len(page) : page[i] = s[n + i]
  <2> SUFFICES ASSUME NEW i \in 1..Len(page) PROVE page[i] = s[n + i]
    OBVIOUS
  <2>1. i \in 1..last - (n + 1) + 1 /\ n + 1 + i - 1 = n + i
    BY <1>2, <1>4, <1>7
  <2> QED BY <1>6, <2>1
<1>9. n + Len(page) = last /\ Len(page) \in Nat
  BY <1>2, <1>4, <1>7
<1> QED BY <1>2, <1>6, <1>8, <1>9 DEF n, s, last, page

\* A job needs a page only of those that there are.
LEMMA NeededIsThere ==
  ASSUME NEW x, x.page \in Nat, x.pages \in Nat, NeedsPage(x)
  PROVE  x.page < x.pages
<1>1. MorePages \in Nat
  BY OutdatedAssumption
<1>2. Min({x.pages, 1 + MorePages}) = IF x.pages <= 1 + MorePages THEN x.pages ELSE 1 + MorePages
  BY <1>1, MinOfTwo
<1>3. x.page <= Min({x.pages, 1 + MorePages}) - 1
  BY DEF NeedsPage, LastPage
<1> QED BY <1>1, <1>2, <1>3

-----------------------------------------------------------------------------
(* A job's step, and what its text is of. *)

\* A job that was resolved has the first page of what the index has.
LEMMA ResolvingIsNow ==
  ASSUME NEW x \in Jobs, x.index = "prefix", edition \in DOMAIN Editions
  PROVE  LET y == Resolving(x)
         IN  /\ y.package = x.package /\ y.index = x.index /\ y.channel = x.channel
             /\ y.at \in {"paging", "dating"} /\ AsOf(y, y.text, y.since, edition)
             /\ y.at = "paging" => HasFullPages(y)
<1> DEFINE project == ProjectOf(x)
           text == PrefixPage(project, x.package.version, x.package.build)
           pages == IF project = None THEN 0 ELSE NumberOfPages(project)
           z == [x EXCEPT !.text = text, !.page = 1, !.pages = pages, !.since = edition]
           y == [z EXCEPT !.at = IF NeedsPage(z) THEN "paging" ELSE "dating"]
<1>1. project \in Projects \cup {None} /\ pages \in Nat /\ edition \in Nat /\ edition \in 1..edition
  BY ProjectOfIs, NumberOfPagesIs, EditionIsNumber
<1>2. text \in PageTexts
  BY <1>1, PrefixPageIs
<1>3. Resolving(x) = y
  BY DEF Resolving, Onward
<1>4. /\ z.package = x.package /\ z.index = x.index /\ z.channel = x.channel
      /\ z.text = text /\ z.page = 1 /\ z.pages = pages /\ z.since = edition
      /\ y.package = x.package /\ y.index = x.index /\ y.channel = x.channel
      /\ y.text = text /\ y.page = 1 /\ y.pages = pages /\ y.since = edition
      /\ y.at = IF NeedsPage(z) THEN "paging" ELSE "dating"
  <2> HIDE DEF project, text, pages
  <2> QED BY DEF Jobs
<1>5. Place(y) = Place(x)
  BY <1>4 DEF Place
<1>6. CASE project = None
  <2>1. ~ IsListed(y, edition) /\ text.versions = <<>>
    BY <1>5, <1>6, ProjectOfIs DEF IsListed, PrefixPage
  <2>2. ~ NeedsPage(z)
    <3>1. z.page \in Nat /\ z.pages \in Nat /\ ~ (z.page < z.pages)
      BY <1>4, <1>6
    <3> QED BY <3>1, NeededIsThere
  <2>3. AsOf(y, text, edition, edition)
    <3> HIDE DEF y, text
    <3> QED BY <1>1, <1>2, <1>4, <2>1 DEF AsOf
  <2> HIDE DEF y, z, text, project, pages
  <2> QED BY <1>3, <1>4, <2>2, <2>3
<1>7. CASE project # None
  <2> DEFINE s == project.versions
             page == VersionPage(project, 0)
  <2>1. project \in Projects /\ IsListed(y, edition) /\ project = Editions[edition].conda[Place(y)] /\ s = History(y, edition)
    BY <1>1, <1>5, <1>7, ProjectOfIs DEF IsListed, History
  <2>2. IsHistory(s) /\ s \in Seq(Versions) /\ Len(s) \in Nat /\ PageSize \in Nat \ {0}
    BY <2>1, OutdatedAssumption, ProjectsHaveHistories, HistoryHas
  <2>3. text.versions = page
    BY <1>7 DEF PrefixPage
  <2>4. 0 * PageSize = 0 /\ 1 * PageSize = PageSize
    BY <2>2
  <2>5. /\ page \in Seq(Versions) /\ Len(page) \in Nat
        /\ 0 + Len(page) = IF 0 + PageSize <= Len(s) THEN 0 + PageSize ELSE Len(s)
        /\ \A i \in 1..Len(page) : page[i] = s[0 + i]
    <3>1. 0 * PageSize <= Len(project.versions)
      BY <2>2, <2>4
    <3>2. LET n == 0 * PageSize
          IN  /\ page \in Seq(Versions) /\ Len(page) \in Nat
              /\ n + Len(page) = IF n + PageSize <= Len(s) THEN n + PageSize ELSE Len(s)
              /\ \A i \in 1..Len(page) : page[i] = s[n + i]
      BY <2>1, <3>1, PageHas
    <3> HIDE DEF page, s
    <3> QED BY <2>4, <3>2
  <2>6. Len(page) = IF PageSize <= Len(s) THEN PageSize ELSE Len(s)
    <3> HIDE DEF page, s
    <3> QED BY <2>2, <2>5
  <2>7. PagesOf(s, page, s)
    <3> HIDE DEF page, s
    <3>1. PagesOf(s, <<>>, s) /\ Len(<<>>) = 0 /\ <<>> \in Seq(Versions) /\ <<>> \o page = page
      BY <2>2, <2>5, NoPagesYet, EmptySeq, ConcatEmptySeq
    <3>2. Len(<<>>) + Len(page) <= Len(s) /\ \A i \in 1..Len(page) : page[i] = s[Len(<<>>) + i]
      BY <2>2, <2>5, <2>6, <3>1
    <3>3. PagesOf(s, <<>> \o page, s)
      BY <2>2, <2>5, <3>1, <3>2, NextPage
    <3> QED BY <3>1, <3>3
  <2>8. AsOf(y, text, edition, edition)
    <3> HIDE DEF y, text, s, page
    <3> QED BY <1>1, <1>2, <1>4, <2>1, <2>3, <2>7 DEF AsOf
  <2>9. NeedsPage(z) => HasFullPages(y)
    <3> SUFFICES ASSUME NeedsPage(z) PROVE HasFullPages(y)
      OBVIOUS
    <3>1. z.page \in Nat /\ z.pages \in Nat
      BY <1>1, <1>4
    <3>2. 1 < NumberOfPages(project)
      BY <1>4, <1>7, <3>1, NeededIsThere
    <3>3. 1 * PageSize < Len(s)
      BY <2>1, <3>2, ThereIsMore
    <3>4. Len(page) = PageSize /\ Len(page) < Len(s)
      <4> HIDE DEF page, s
      <4> QED BY <2>2, <2>4, <2>6, <3>3
    <3>5. Len(y.text.versions) = y.page * PageSize /\ Len(y.text.versions) < Len(s)
      <4> HIDE DEF page, s, y, text
      <4> QED BY <1>4, <2>3, <2>4, <3>4
    <3>6. y.pages = NumberOfPages(project)
      BY <1>4, <1>7
    <3> HIDE DEF y, s, project
    <3> QED BY <1>4, <2>1, <3>5, <3>6 DEF HasFullPages
  <2> HIDE DEF y, z, text, project, pages
  <2> QED BY <1>3, <1>4, <2>8, <2>9
<1> HIDE DEF y, z, text, project, pages
<1> QED BY <1>6, <1>7

PageOf(x) == IF ProjectOf(x) = None THEN <<>> ELSE VersionPage(ProjectOf(x), x.page)
Turned(x, text) == Onward([x EXCEPT !.text = text, !.page = @ + 1])

\* The next page of a job, of what the index has by now.
LEMMA TurnedIsSince ==
  ASSUME NothingWithdrawn, NEW x \in Jobs, x.index = "prefix", edition \in DOMAIN Editions,
         HasFullPages(x), AsOf(x, x.text, x.since, edition),
         NEW page, page = PageOf(x),
         NEW text \in PageTexts, text.versions = x.text.versions \o page,
         NEW y, y = Turned(x, text)
  PROVE  /\ y.package = x.package /\ y.index = x.index /\ y.channel = x.channel
         /\ y.at \in {"paging", "dating"} /\ AsOf(y, y.text, y.since, edition)
         /\ y.at = "paging" => HasFullPages(y)
<1> DEFINE project == ProjectOf(x)
           t == x.text.versions
           u == t \o page
           next == x.page + 1
           z == [x EXCEPT !.text = text, !.page = next]
           v == [z EXCEPT !.at = IF NeedsPage(z) THEN "paging" ELSE "dating"]
           s == History(x, x.since)
           c == History(x, edition)
           first == Editions[x.since].conda[Place(x)]
<1>1. /\ x.since \in DOMAIN Editions /\ x.since <= edition /\ x.since \in 1..edition
      /\ IsListed(x, x.since) /\ x.pages = NumberOfPages(first) /\ first \in Projects /\ s = first.versions
      /\ x.text \in PageTexts /\ PagesOf(s, t, c) /\ x.page \in Nat /\ x.pages \in Nat
      /\ Len(t) = x.page * PageSize /\ Len(t) < Len(s)
  <2>1. x.since \in 1..edition /\ x.text \in PageTexts
    BY DEF AsOf
  <2>2. IsListed(x, x.since) /\ x.pages = NumberOfPages(first) /\ Len(t) = x.page * PageSize /\ Len(t) < Len(s)
    BY DEF HasFullPages
  <2>3. x.since \in DOMAIN Editions /\ x.since <= edition
    BY <2>1, EditionsAre
  <2>4. PagesOf(s, t, c)
    BY <2>2 DEF AsOf
  <2>5. first \in Projects
    BY <2>2, <2>3, IndexesHaveHistories
  <2>6. x.page \in Nat /\ x.pages \in Nat
    BY DEF Jobs
  <2> QED BY <2>1, <2>2, <2>3, <2>4, <2>5, <2>6 DEF History
<1>2. /\ IsListed(x, edition) /\ Range(s) \subseteq Range(c) /\ IsHistory(s) /\ IsHistory(c)
      /\ project = Editions[edition].conda[Place(x)] /\ project \in Projects /\ c = project.versions
      /\ project # None
  <2>1. IsListed(x, edition) /\ Range(s) \subseteq Range(c) /\ IsHistory(s) /\ IsHistory(c)
    BY <1>1, IndexesHaveHistories
  <2>2. project # None
    BY <2>1, ProjectOfIs DEF IsListed
  <2>3. project = Editions[edition].conda[Place(x)] /\ project \in Projects
    BY <2>2, ProjectOfIs
  <2> QED BY <2>1, <2>2, <2>3 DEF History
<1>3. Len(s) <= Len(c) /\ Len(s) \in Nat /\ Len(c) \in Nat
  <2>1. Cardinality(Range(s)) <= Cardinality(Range(c))
    <3> HIDE DEF s, c
    <3> QED BY <1>2, HistoryIs, FS_Subset
  <2> HIDE DEF s, c
  <2> QED BY <1>2, <2>1, HistoryIs
<1>4. t \in Seq(Versions) /\ Len(t) \in Nat /\ PageSize \in Nat /\ PageSize > 0
  <2>1. t \in Seq(Versions) /\ PageSize \in Nat \ {0}
    BY <1>1, OutdatedAssumption DEF PageTexts
  <2> HIDE DEF t
  <2> QED BY <2>1, LenProperties
<1>5. /\ page \in Seq(Versions) /\ Len(page) \in Nat
      /\ Len(t) + Len(page) = IF Len(t) + PageSize <= Len(c) THEN Len(t) + PageSize ELSE Len(c)
      /\ \A i \in 1..Len(page) : page[i] = c[Len(t) + i]
  <2> DEFINE p == VersionPage(project, x.page)
  <2>1. x.page * PageSize <= Len(project.versions)
    <3>1. Len(t) <= Len(c)
      <4>1. Len(t) < Len(s)
        BY <1>1
      <4> HIDE DEF s, c, t
      <4> QED BY <1>3, <1>4, <4>1
    <3>2. Len(t) = x.page * PageSize
      BY <1>1
    <3>3. c = project.versions
      BY <1>2
    <3> HIDE DEF s, c, t, project
    <3> QED BY <3>1, <3>2, <3>3, Zenon
  <2>2. LET n == x.page * PageSize
            h == project.versions
        IN  /\ p \in Seq(Versions) /\ Len(p) \in Nat
            /\ n + Len(p) = IF n + PageSize <= Len(h) THEN n + PageSize ELSE Len(h)
            /\ \A i \in 1..Len(p) : p[i] = h[n + i]
    <3> HIDE DEF project
    <3> QED BY <1>1, <1>2, <2>1, PageHas
  <2>3. page = p
    BY <1>2 DEF PageOf
  <2> HIDE DEF p, t, c, project
  <2> QED BY <1>1, <1>2, <2>2, <2>3
<1>6. PagesOf(s, u, c)
  <2>1. Len(t) + Len(page) <= Len(c)
    <3> HIDE DEF s, c, t
    <3> QED BY <1>3, <1>4, <1>5
  <2> HIDE DEF s, c, t
  <2> QED BY <1>1, <1>2, <1>4, <1>5, <2>1, NextPage DEF u
<1>7. u \in Seq(Versions) /\ Len(u) = Len(t) + Len(page)
  <2> HIDE DEF t
  <2> QED BY <1>4, <1>5, ConcatProperties DEF u
<1>8. text \in PageTexts /\ text.versions = u
  OBVIOUS
<1>9. y = v
  <2>1. Onward(z) = v
    BY DEF Onward
  <2> HIDE DEF v
  <2> QED BY <2>1 DEF Turned
<1>10. /\ z.package = x.package /\ z.index = x.index /\ z.channel = x.channel
       /\ z.text = text /\ z.page = next /\ z.pages = x.pages /\ z.since = x.since
       /\ y.package = x.package /\ y.index = x.index /\ y.channel = x.channel
       /\ y.text = text /\ y.page = next /\ y.pages = x.pages /\ y.since = x.since
       /\ y.at = IF NeedsPage(z) THEN "paging" ELSE "dating"
  <2> HIDE DEF next
  <2> QED BY <1>9 DEF Jobs
<1>11. Place(y) = Place(x) /\ History(y, x.since) = s /\ History(y, edition) = c
       /\ (IsListed(y, x.since) <=> IsListed(x, x.since))
  <2>1. Place(y) = Place(x)
    BY <1>10 DEF Place
  <2> QED BY <2>1 DEF History, IsListed
<1>12. AsOf(y, text, x.since, edition)
  <2> HIDE DEF s, c, u
  <2> QED BY <1>1, <1>6, <1>8, <1>10, <1>11 DEF AsOf
<1>13. NeedsPage(z) => HasFullPages(y)
  <2> SUFFICES ASSUME NeedsPage(z) PROVE HasFullPages(y)
    OBVIOUS
  <2>1. next \in Nat /\ next * PageSize = Len(t) + PageSize
    <3>1. x.page \in Nat /\ Len(t) = x.page * PageSize
      BY <1>1
    <3>2. (x.page + 1) * PageSize = x.page * PageSize + PageSize
      BY <1>4, <3>1, Multiples
    <3>3. (x.page + 1) * PageSize = Len(t) + PageSize
      <4> HIDE DEF t
      <4> QED BY <3>1, <3>2, Zenon
    <3>4. next \in Nat
      BY <3>1
    <3> HIDE DEF t
    <3> QED BY <3>3, <3>4 DEF next
  <2>2. next < NumberOfPages(first)
    <3> HIDE DEF z, next, first
    <3> QED BY <1>1, <1>10, <2>1, NeededIsThere
  <2>3. next * PageSize < Len(s)
    <3> HIDE DEF next, first
    <3> QED BY <1>1, <2>1, <2>2, ThereIsMore
  <2>4. Len(u) = next * PageSize /\ Len(u) < Len(s)
    <3> HIDE DEF next, t, u, s, c
    <3> QED BY <1>3, <1>4, <1>5, <1>7, <2>1, <2>3
  <2> HIDE DEF u, s, next, first
  <2> QED BY <1>1, <1>8, <1>10, <1>11, <2>4 DEF HasFullPages, first
<1> HIDE DEF z
<1> QED BY <1>10, <1>12, <1>13

-----------------------------------------------------------------------------
(* Every answer is of some edition, whatever a step does. *)

\* What a text is of depends on the versions of it alone.
LEMMA AsOfTheVersions ==
  ASSUME NEW x, NEW t, NEW u \in PageTexts, NEW since, NEW n, x.index = "prefix",
         u.versions = t.versions, AsOf(x, t, since, n)
  PROVE  AsOf(x, u, since, n)
  BY DEF AsOf

\* What the cache has under the name of a job's file is as of then.
LEMMA EntryIsSince ==
  ASSUME Inv, SinceInv, FilesApart, NEW j \in DOMAIN jobs, FileName(jobs[j]) \in DOMAIN files
  PROVE  LET entry == files[FileName(jobs[j])]
         IN  entry.text = Torn \/ AsOf(jobs[j], entry.text, entry.since, edition)
<1> DEFINE x == jobs[j]
           w == [package |-> x.package, index |-> x.index, channel |-> x.channel]
           entry == files[FileName(x)]
<1>1. x \in Jobs /\ Asks(x, Packages[j])
  BY DEF Inv, TypeInv, JobsInv
<1>2. w \in Wanted
  BY <1>1 DEF Wanted, Jobs, Asks
<1>3. FileName(w) = FileName(x)
  BY DEF FileName
<1>4. SUFFICES ASSUME entry.text # Torn PROVE AsOf(x, entry.text, entry.since, edition)
  OBVIOUS
<1>5. PICK v \in Wanted : FileName(v) = FileName(x) /\ AsOf(v, entry.text, entry.since, edition)
  BY <1>4 DEF SinceInv, SinceFiles
<1>6. v.index = w.index /\ v.channel = w.channel /\ v.package.name = w.package.name
  BY <1>2, <1>3, <1>5 DEF FilesApart
<1>7. v.index = x.index /\ v.channel = x.channel /\ v.package.name = x.package.name
  BY <1>6
<1> HIDE DEF x, entry
<1> QED BY <1>5, <1>7, AsOfThePlace

\* A job goes on with what is of some edition, and writes nothing else.
SinceEffect(j) ==
  \E y :
    /\ jobs' = [jobs EXCEPT ![j] = y]
    /\ y.package = jobs[j].package /\ y.index = jobs[j].index /\ y.channel = jobs[j].channel
    /\ FromThen(y)
    /\ files' = files \/ (files' = Store(y) /\ AsOf(y, y.text, y.since, edition))

\* Looking into the cache.
LEMMA LookIsSince ==
  ASSUME Inv, SinceInv, FilesApart, NEW j \in DOMAIN jobs, Look(j)
  PROVE  SinceEffect(j)
<1> DEFINE x == jobs[j]
           entry == Entry(x)
<1>1. x \in Jobs /\ x.text = None /\ FromThen(x) /\ files' = files
  BY JobIs DEF Look, Has, world, SinceInv, SinceJobs
<1>2. PICK text \in {IF entry = None THEN None ELSE entry.text} \cup (IF BeingWritten(j) THEN {Torn} ELSE {}) :
        jobs' = [jobs EXCEPT ![j] =
                   IF text # None /\ IsUsableEntry(entry)
                   THEN [@ EXCEPT !.at = "answered", !.text = text, !.since = entry.since]
                   ELSE [@ EXCEPT !.at = "asking", !.cached = [text |-> text,
                                                               since |-> IF entry = None THEN 0 ELSE entry.since]]]
  BY ZenonT(60) DEF Look
<1>3. text \notin {None, Torn} => entry # None /\ AsOf(x, text, entry.since, edition)
  <2> SUFFICES ASSUME text \notin {None, Torn} PROVE entry # None /\ AsOf(x, text, entry.since, edition)
    OBVIOUS
  <2>1. entry # None /\ text = entry.text
    BY <1>2
  <2>2. FileName(x) \in DOMAIN files /\ entry = files[FileName(x)]
    BY <2>1 DEF Entry
  <2> QED BY <2>1, <2>2, EntryIsSince
<1> DEFINE since == IF entry = None THEN 0 ELSE entry.since
           z == [x EXCEPT !.at = "answered", !.text = text, !.since = entry.since]
           c == [text |-> text, since |-> since]
           u == [x EXCEPT !.at = "asking", !.cached = c]
           y == IF text # None /\ IsUsableEntry(entry) THEN z ELSE u
<1>4. jobs' = [jobs EXCEPT ![j] = y]
  BY <1>2
<1>5. CASE text # None /\ IsUsableEntry(entry)
  <2> HIDE DEF entry, x
  <2>1. /\ z.package = x.package /\ z.index = x.index /\ z.channel = x.channel
        /\ z.at = "answered" /\ z.text = text /\ z.since = entry.since
    BY <1>1 DEF Jobs
  <2> HIDE DEF z
  <2>2. text \notin {None, Torn} => AsOf(z, text, entry.since, edition)
    BY <1>3, <2>1, AsOfThePlace
  <2>3. FromThen(z)
    BY <1>1, <2>1, <2>2 DEF FromThen
  <2>4. y = z
    BY <1>5
  <2> HIDE DEF y
  <2> QED BY <1>1, <1>4, <2>1, <2>3, <2>4 DEF SinceEffect, x
<1>6. CASE ~ (text # None /\ IsUsableEntry(entry))
  <2> HIDE DEF entry, x, since
  <2>1. /\ u.package = x.package /\ u.index = x.index /\ u.channel = x.channel
        /\ u.at = "asking" /\ u.text = None /\ u.cached.text = text /\ u.cached.since = since
    BY <1>1 DEF Jobs
  <2>2. text \notin {None, Torn} => since = entry.since
    BY <1>3 DEF since
  <2>3. y = u
    BY <1>6
  <2> HIDE DEF y, u
  <2>4. text \notin {None, Torn} => AsOf(u, text, since, edition)
    BY <1>3, <2>1, <2>2, AsOfThePlace
  <2>5. FromThen(u)
    BY <1>1, <2>1, <2>4 DEF FromThen
  <2> QED BY <1>1, <1>4, <2>1, <2>3, <2>5 DEF SinceEffect, x
<1> QED BY <1>5, <1>6

\* A request of its own.
LEMMA FetchIsSince ==
  ASSUME Inv, SinceInv, NEW j \in DOMAIN jobs, Fetch(j)
  PROVE  SinceEffect(j)
<1> DEFINE x == jobs[j]
<1>1. x \in Jobs /\ FromThen(x) /\ edition \in DOMAIN Editions
  BY JobIs DEF SinceInv, SinceJobs
<1>2. CASE x.index = "prefix"
  <2>1. jobs' = [jobs EXCEPT ![j] = Resolving(x)] /\ files' = files
    BY <1>2 DEF Fetch
  <2>2. PICK y : y = Resolving(x)
    OBVIOUS
  <2>3. /\ y.package = x.package /\ y.index = x.index /\ y.channel = x.channel
        /\ y.at \in {"paging", "dating"} /\ AsOf(y, y.text, y.since, edition)
        /\ y.at = "paging" => HasFullPages(y)
    <3> HIDE DEF x
    <3> QED BY <1>1, <1>2, <2>2, ResolvingIsNow
  <2>4. FromThen(y)
    <3> HIDE DEF x
    <3> QED BY <1>1, <2>3 DEF FromThen
  <2> QED BY <2>1, <2>2, <2>3, <2>4 DEF SinceEffect
<1>3. CASE x.index # "prefix"
  <2> DEFINE project == ProjectOf(x)
             y == [x EXCEPT !.at = "answered", !.text = project, !.since = edition]
  <2>1. /\ project # None /\ jobs' = [jobs EXCEPT ![j] = y]
        /\ files' = Store(jobs'[j])
    BY <1>3 DEF Fetch, NotFound
  <2>2. jobs'[j] = y
    BY <2>1 DEF Inv, TypeInv
  <2>3. edition \in 1..edition
    BY <1>1, EditionIsNumber
  <2>4. /\ y.package = x.package /\ y.index = x.index /\ y.channel = x.channel
        /\ y.at = "answered" /\ y.text = project /\ y.since = edition
    <3> HIDE DEF x, project
    <3> QED BY <1>1 DEF Jobs
  <2>5. x.index = "pypi" =>
          x.package.name \in DOMAIN Editions[edition].pypi /\ project = Editions[edition].pypi[x.package.name]
    BY <2>1 DEF ProjectOf
  <2>6. x.index = "anaconda" => IsListed(x, edition) /\ project = Editions[edition].conda[Place(x)]
    BY <1>1, <2>1, ProjectOfIs DEF IsListed
  <2>7. AsOf(x, project, edition, edition)
    <3> HIDE DEF x, project
    <3> QED BY <1>3, <2>3, <2>5, <2>6 DEF AsOf
  <2> HIDE DEF y, project
  <2>8. AsOf(y, project, edition, edition)
    <3> HIDE DEF x
    <3> QED BY <2>4, <2>7, AsOfThePlace
  <2>9. FromThen(y)
    <3> HIDE DEF x
    <3> QED BY <1>1, <2>4, <2>8 DEF FromThen
  <2> QED BY <2>1, <2>2, <2>4, <2>8, <2>9 DEF SinceEffect
<1> QED BY <1>2, <1>3

\* A request of its own that fails: what was cached is of when it was.
LEMMA FetchFailsIsSince ==
  ASSUME Inv, SinceInv, NEW j \in DOMAIN jobs, FetchFails(j)
  PROVE  SinceEffect(j)
<1> DEFINE x == jobs[j]
           At(refused) ==
             [x EXCEPT !.at = "answered", !.text = x.cached.text, !.since = x.cached.since,
                       !.lost = TRUE, !.refused = refused, !.unreachable = x.cached.text = None /\ ~ run.offline]
<1>1. x \in Jobs /\ FromThen(x) /\ x.at = "asking" /\ files' = files
  BY JobIs DEF SinceInv, SinceJobs, FetchFails, world
<1>2. PICK refused \in BOOLEAN : jobs' = [jobs EXCEPT ![j] = At(refused)]
  BY DEF FetchFails, NotFound
<1> DEFINE y == At(refused)
<1>7. jobs' = [jobs EXCEPT ![j] = y]
  BY <1>2
<1>3. /\ y.package = x.package /\ y.index = x.index /\ y.channel = x.channel
      /\ y.at = "answered" /\ y.text = x.cached.text /\ y.since = x.cached.since
  <2> HIDE DEF x
  <2> QED BY <1>1 DEF Jobs
<1> HIDE DEF y
<1>4. y.text \notin {None, Torn} => AsOf(y, y.text, y.since, edition)
  <2> HIDE DEF x
  <2>1. y.text \notin {None, Torn} => AsOf(x, y.text, y.since, edition)
    BY <1>1, <1>3 DEF FromThen
  <2> QED BY <1>3, <2>1, AsOfThePlace
<1>5. FromThen(y)
  <2> HIDE DEF x
  <2> QED BY <1>1, <1>3, <1>4 DEF FromThen
<1> QED BY <1>1, <1>3, <1>5, <1>7 DEF SinceEffect

\* The next page.
LEMMA TurnPageIsSince ==
  ASSUME Inv, SinceInv, NothingWithdrawn, NEW j \in DOMAIN jobs, TurnPage(j)
  PROVE  SinceEffect(j)
<1> DEFINE x == jobs[j]
<1>1. x \in Jobs /\ FromThen(x) /\ x.at = "paging" /\ edition \in DOMAIN Editions /\ files' = files
  BY JobIs DEF SinceInv, SinceJobs, TurnPage, world
<1>2. x.index = "prefix" /\ x.text \notin {None, Torn}
  BY <1>1, JobIs, TextsAreTexts DEF Has
<1>3. HasFullPages(x) /\ AsOf(x, x.text, x.since, edition)
  BY <1>1, <1>2 DEF FromThen
<1>4. PICK page : page = PageOf(x)
  OBVIOUS
<1>5. PICK text \in PageTexts : text = [x.text EXCEPT !.versions = @ \o page]
  <2>1. page \in Seq(Versions)
    <3>1. x.page \in Nat /\ <<>> \in Seq(Versions)
      BY <1>1 DEF Jobs
    <3> HIDE DEF x
    <3> QED BY <1>1, <1>4, <3>1, ProjectOfIs, VersionPageIs DEF PageOf
  <2>2. x.text \in PageTexts
    BY <1>1, JobIs DEF Has
  <2>3. x.text.versions \o page \in Seq(Versions)
    <3>1. x.text.versions \in Seq(Versions)
      BY <2>2 DEF PageTexts
    <3> HIDE DEF x
    <3> QED BY <2>1, <3>1, ConcatProperties
  <2>4. [x.text EXCEPT !.versions = @ \o page] \in PageTexts
    <3> HIDE DEF x
    <3> QED BY <2>2, <2>3 DEF PageTexts
  <2> QED BY <2>4
<1>6. PICK y : y = Turned(x, text)
  OBVIOUS
<1>7. jobs' = [jobs EXCEPT ![j] = y] /\ text.versions = x.text.versions \o page
  <2>1. [x EXCEPT !.text.versions = @ \o page, !.page = @ + 1] = [x EXCEPT !.text = text, !.page = @ + 1]
    <3> HIDE DEF x
    <3> QED BY <1>5
  <2>2. jobs' = [jobs EXCEPT ![j] = Onward([x EXCEPT !.text.versions = @ \o page, !.page = @ + 1])]
    BY <1>4 DEF TurnPage, PageOf
  <2>3. text.versions = x.text.versions \o page
    <3>1. x.text \in PageTexts
      BY <1>1, JobIs DEF Has
    <3> HIDE DEF x
    <3> QED BY <1>5, <3>1 DEF PageTexts
  <2> HIDE DEF x
  <2> QED BY <1>6, <2>1, <2>2, <2>3, Zenon DEF Turned
<1>8. /\ y.package = x.package /\ y.index = x.index /\ y.channel = x.channel
      /\ y.at \in {"paging", "dating"} /\ AsOf(y, y.text, y.since, edition)
      /\ y.at = "paging" => HasFullPages(y)
  <2>1. x \in Jobs /\ edition \in DOMAIN Editions /\ x.index = "prefix"
    BY <1>1, <1>2
  <2>2. text.versions = x.text.versions \o page
    BY <1>7
  <2> HIDE DEF x
  <2> QED BY <1>3, <1>4, <1>6, <2>1, <2>2, TurnedIsSince
<1>9. FromThen(y)
  <2> HIDE DEF x
  <2> QED BY <1>1, <1>8 DEF FromThen
<1> QED BY <1>1, <1>7, <1>8, <1>9 DEF SinceEffect

\* A page that fails.
LEMMA PageFailsIsSince ==
  ASSUME Inv, SinceInv, NEW j \in DOMAIN jobs, PageFails(j)
  PROVE  SinceEffect(j)
<1> DEFINE x == jobs[j]
           y == [x EXCEPT !.at = "dating", !.lost = TRUE]
<1>1. /\ x \in Jobs /\ FromThen(x) /\ x.at = "paging" /\ files' = files
      /\ jobs' = [jobs EXCEPT ![j] = y]
  BY JobIs DEF SinceInv, SinceJobs, PageFails, world
<1>2. x.text \notin {None, Torn}
  BY <1>1, JobIs, TextsAreTexts DEF Has
<1>3. AsOf(x, x.text, x.since, edition)
  BY <1>1, <1>2 DEF FromThen
<1>4. /\ y.package = x.package /\ y.index = x.index /\ y.channel = x.channel
      /\ y.at = "dating" /\ y.text = x.text /\ y.since = x.since
  <2> HIDE DEF x
  <2> QED BY <1>1 DEF Jobs
<1> HIDE DEF y
<1>5. AsOf(y, y.text, y.since, edition)
  <2> HIDE DEF x
  <2> QED BY <1>3, <1>4, AsOfThePlace
<1>6. FromThen(y)
  <2> HIDE DEF x
  <2> QED BY <1>1, <1>4, <1>5 DEF FromThen
<1> QED BY <1>1, <1>4, <1>6 DEF SinceEffect

\* The day of the newest.
LEMMA DateIsSince ==
  ASSUME Inv, SinceInv, NEW j \in DOMAIN jobs, Date(j)
  PROVE  SinceEffect(j)
<1> DEFINE x == jobs[j]
<1>1. /\ x \in Jobs /\ FromThen(x) /\ x.at = "dating" /\ files' = Store(jobs'[j])
      /\ edition \in DOMAIN Editions
  BY JobIs DEF SinceInv, SinceJobs, Date
<1>2. x.index = "prefix" /\ x.text \in PageTexts
  BY <1>1, JobIs DEF Has
<1>3. AsOf(x, x.text, x.since, edition)
  BY <1>1, <1>2, TextsAreTexts DEF FromThen
<1>4. PICK y : jobs' = [jobs EXCEPT ![j] = y] /\ y.at = "answered" /\ y.text \in PageTexts
               /\ y.package = x.package /\ y.index = x.index /\ y.channel = x.channel
               /\ y.since = x.since /\ y.text.versions = x.text.versions
  <2>1. PICK dated \in SUBSET (Versions \X Days) :
          jobs' = [jobs EXCEPT ![j] = [x EXCEPT !.at = "answered", !.text.dates = @ \cup dated]]
    <3> DEFINE newest == UndatedNewest(x.text)
               project == ProjectOf(x)
               days == IF newest = None \/ project = None THEN {}
                       ELSE IF Known(project, newest) THEN {<<newest, project.published[newest]>>} ELSE {}
    <3>1. PICK dated \in {{}, days} :
            jobs' = [jobs EXCEPT ![j] = [x EXCEPT !.at = "answered", !.text.dates = @ \cup dated]]
      BY DEF Date
    <3>2. days \in SUBSET (Versions \X Days)
      <4> HIDE DEF newest
      <4> QED BY <1>1, DaysAre
    <3> HIDE DEF days
    <3> QED BY <3>1, <3>2, Zenon
  <2> DEFINE y == [x EXCEPT !.at = "answered", !.text.dates = @ \cup dated]
  <2>2. jobs'[j] = y
    BY <2>1 DEF Inv, TypeInv
  <2>3. /\ y.at = "answered" /\ y.package = x.package /\ y.index = x.index /\ y.channel = x.channel
        /\ y.since = x.since /\ y.text.versions = x.text.versions
    <3> HIDE DEF x
    <3> QED BY <1>1, <1>2 DEF Jobs, PageTexts
  <2>4. y.text \in PageTexts
    <3> HIDE DEF x
    <3> QED BY <1>1, <1>2, <2>1 DEF Jobs, PageTexts
  <2> HIDE DEF y, x
  <2> QED BY <2>1, <2>3, <2>4 DEF y
<1>5. jobs'[j] = y
  BY <1>4 DEF Inv, TypeInv
<1>6. AsOf(y, y.text, y.since, edition)
  <2> HIDE DEF x
  <2>1. AsOf(x, y.text, y.since, edition)
    BY <1>2, <1>3, <1>4, AsOfTheVersions
  <2> QED BY <1>4, <2>1, AsOfThePlace
<1>7. FromThen(y)
  <2> HIDE DEF x
  <2> QED BY <1>1, <1>4, <1>6 DEF FromThen
<1> QED BY <1>1, <1>4, <1>5, <1>6, <1>7 DEF SinceEffect

\* What a job says of then as long as the index stays and nothing is asked about but versions.
LEMMA FromThenStays ==
  ASSUME NEW x, edition' = edition, stage = "probing" \/ stage' = "probing" => stage' = stage, FromThen(x)
  PROVE  FromThen(x)'
  BY DEF FromThen

\* A file that is written.
LEMMA FilesStepSince ==
  ASSUME SinceFiles, NEW file, NEW text, NEW since, edition' = edition,
         files' = Put(file, [text |-> text, at |-> clock, since |-> since]),
         text = Torn \/ \E w \in Wanted : FileName(w) = file /\ AsOf(w, text, since, edition)
  PROVE  SinceFiles'
<1> DEFINE entry == [text |-> text, at |-> clock, since |-> since]
<1>1. entry.text = text /\ entry.since = since
  OBVIOUS
<1> HIDE DEF entry
<1>2. files' = [f \in DOMAIN files \cup {file} |-> IF f = file THEN entry ELSE files[f]]
  BY DEF Put, entry
<1> SUFFICES ASSUME NEW f \in DOMAIN files'
             PROVE  files'[f].text = Torn
                      \/ \E w \in Wanted : FileName(w) = f /\ AsOf(w, files'[f].text, files'[f].since, edition)
  BY DEF SinceFiles
<1>3. CASE f = file
  BY <1>1, <1>2, <1>3
<1>4. CASE f # file
  <2>1. f \in DOMAIN files /\ files'[f] = files[f]
    BY <1>2, <1>4
  <2> QED BY <2>1 DEF SinceFiles
<1> QED BY <1>3, <1>4

\* A step of a job.
LEMMA JobStepKeepsSince ==
  ASSUME Inv, SinceInv, FilesApart, NothingWithdrawn, NEW j \in DOMAIN jobs, JobStep(j)
  PROVE  SinceInv'
<1>1. SinceEffect(j) /\ JobEffect(j)
  BY LookIsSince, FetchIsSince, FetchFailsIsSince, TurnPageIsSince, PageFailsIsSince, DateIsSince,
     LookEffect, FetchEffect, FetchFailsEffect, TurnPageEffect, PageFailsEffect, DateEffect DEF JobStep
<1>2. edition' = edition /\ stage' = stage
  BY <1>1 DEF JobEffect
<1>3. PICK y : /\ jobs' = [jobs EXCEPT ![j] = y]
               /\ y.package = jobs[j].package /\ y.index = jobs[j].index /\ y.channel = jobs[j].channel
               /\ FromThen(y)
               /\ files' = files \/ (files' = Store(y) /\ AsOf(y, y.text, y.since, edition))
  BY <1>1 DEF SinceEffect
<1>4. SinceJobs'
  <2> SUFFICES ASSUME NEW k \in DOMAIN jobs PROVE FromThen(jobs[k])'
    BY <1>3 DEF SinceJobs
  <2>1. PICK z : z = IF k = j THEN y ELSE jobs[k]
    OBVIOUS
  <2>2. jobs'[k] = z
    BY <1>3, <2>1 DEF Inv, TypeInv
  <2>3. FromThen(z)
    BY <1>3, <2>1 DEF SinceInv, SinceJobs
  <2>4. FromThen(z)'
    BY <1>2, <2>3, FromThenStays
  <2> QED BY <2>2, <2>4
<1>5. SinceFiles'
  <2>1. CASE files' = files
    BY <1>2, <2>1 DEF SinceInv, SinceFiles
  <2>2. CASE files' = Store(y) /\ AsOf(y, y.text, y.since, edition)
    <3>1. CASE run.policy = "noCache"
      BY <2>1, <2>2, <3>1 DEF Store
    <3>2. CASE run.policy # "noCache"
      <4>1. files' = Put(FileName(y), [text |-> y.text, at |-> clock, since |-> y.since])
        BY <2>2, <3>2 DEF Store
      <4> DEFINE w == [package |-> y.package, index |-> y.index, channel |-> y.channel]
      <4>2. w \in Wanted
        <5>1. jobs[j] \in Jobs /\ Asks(jobs[j], Packages[j])
          BY DEF Inv, TypeInv, JobsInv
        <5> QED BY <1>3, <5>1 DEF Wanted, Jobs, Asks
      <4>3. FileName(w) = FileName(y) /\ AsOf(w, y.text, y.since, edition)
        <5>1. w.package = y.package /\ w.index = y.index /\ w.channel = y.channel
          OBVIOUS
        <5> HIDE DEF w
        <5> QED BY <2>2, <5>1, AsOfThePlace DEF FileName
      <4> HIDE DEF w
      <4> QED BY <1>2, <4>1, <4>2, <4>3, FilesStepSince DEF SinceInv
    <3> QED BY <3>1, <3>2
  <2> QED BY <1>3, <2>1, <2>2
<1> QED BY <1>4, <1>5 DEF SinceInv

\* A fresh job has no answer.
LEMMA FreshIsSince ==
  ASSUME NEW p, NEW index, NEW channel, NEW x, x = NewJob(p, index, channel),
         stage' = "probing" \/ p.version # None
  PROVE  FromThen(x)'
<1>1. x.package = p /\ x.at = "waiting" /\ x.text = None
  BY DEF NewJob
<1> QED BY <1>1 DEF FromThen

\* The probes and the packages' own jobs; what nobody can answer for has no version.
LEMMA StartKeepsSince ==
  ASSUME Inv, SinceInv, StartDocument \/ StartBatches
  PROVE  SinceInv'
<1>1. edition' = edition /\ files' = files
  BY DEF StartDocument, StartBatches, world
<1>2. CASE StartDocument
  <2> DEFINE packages == run.documents[doc + 1]
             probes == {i \in Representatives(packages) : run.candidate # None /\ packages[i].channel # run.candidate}
  <2>1. stage' = "probing" /\ jobs' = [i \in probes |-> CondaJob(packages[i], packages[i].channel)]
    BY <1>2 DEF StartDocument
  <2>2. ASSUME NEW i \in probes PROVE FromThen(jobs[i])'
    <3>1. PICK q : q = packages[i]
      OBVIOUS
    <3>2. PICK x : x = NewJob(q, run.kind, q.channel)
      OBVIOUS
    <3>3. jobs'[i] = x
      BY <2>1, <3>1, <3>2 DEF CondaJob
    <3>4. FromThen(x)'
      BY <2>1, <3>2, FreshIsSince
    <3> QED BY <3>3, <3>4
  <2>3. DOMAIN jobs' = probes
    BY <2>1
  <2> HIDE DEF probes
  <2> QED BY <1>1, <2>2, <2>3 DEF SinceInv, SinceJobs, SinceFiles
<1>3. CASE StartBatches
  <2> DEFINE of == [i \in DOMAIN Packages |-> JobOf(Packages[i], targets')]
             wanted == {i \in DOMAIN of : of[i] # None}
  <2>1. jobs' = [i \in wanted |-> of[i]]
    BY <1>3 DEF StartBatches
  <2>2. ASSUME NEW i \in wanted PROVE FromThen(jobs[i])'
    <3>1. PICK q : q = Packages[i]
      OBVIOUS
    <3>2. PICK t : t = targets'
      OBVIOUS
    <3>3. JobOf(q, t) # None /\ jobs'[i] = JobOf(q, t)
      BY <2>1, <2>2, <3>1, <3>2
    <3>4. q.version # None
      BY <3>3 DEF JobOf
    <3>5. \E index, channel : JobOf(q, t) = NewJob(q, index, channel)
      BY <3>3 DEF JobOf, CondaJob
    <3>6. PICK index, channel : JobOf(q, t) = NewJob(q, index, channel)
      BY <3>5
    <3>7. PICK x : x = NewJob(q, index, channel)
      OBVIOUS
    <3>8. FromThen(x)'
      BY <3>4, <3>7, FreshIsSince
    <3> QED BY <3>3, <3>6, <3>7, <3>8
  <2>3. DOMAIN jobs' = wanted
    BY <2>1
  <2> HIDE DEF wanted
  <2> QED BY <1>1, <2>2, <2>3 DEF SinceInv, SinceJobs, SinceFiles
<1> QED BY <1>2, <1>3

\* A batch that is answered.
LEMMA AskBatchKeepsSince ==
  ASSUME Inv, SinceInv, NEW c \in chunks, AskBatch(c)
  PROVE  SinceInv'
<1>1. /\ stage = "batching" /\ edition' = edition /\ files' = files /\ stage' = stage
      /\ jobs' = [j \in DOMAIN jobs |-> IF j \in c /\ ProjectOf(jobs[j]) # None THEN Resolving(jobs[j]) ELSE jobs[j]]
  BY DEF AskBatch, world
<1>2. ASSUME NEW j \in DOMAIN jobs PROVE FromThen(jobs[j])'
  <2>1. PICK x : x = jobs[j]
    OBVIOUS
  <2>2. x \in Jobs /\ FromThen(x) /\ edition \in DOMAIN Editions
    BY <2>1 DEF Inv, TypeInv, SinceInv, SinceJobs
  <2>3. CASE j \in c /\ ProjectOf(x) # None
    <3>1. x.index = "prefix"
      BY <1>1, <2>1, <2>3 DEF Inv, ChunksInv
    <3>2. PICK y : y = Resolving(x)
      OBVIOUS
    <3>3. /\ y.package = x.package
          /\ y.at \in {"paging", "dating"} /\ AsOf(y, y.text, y.since, edition)
          /\ y.at = "paging" => HasFullPages(y)
      BY <2>2, <3>1, <3>2, ResolvingIsNow
    <3>4. FromThen(y)
      BY <2>2, <3>3 DEF FromThen
    <3>5. FromThen(y)'
      BY <1>1, <3>4, FromThenStays
    <3>6. jobs'[j] = y
      BY <1>1, <2>1, <2>3, <3>2
    <3> QED BY <3>5, <3>6
  <2>4. CASE ~ (j \in c /\ ProjectOf(x) # None)
    <3>1. jobs'[j] = x
      BY <1>1, <2>1, <2>4
    <3>2. FromThen(x)'
      BY <1>1, <2>2, FromThenStays
    <3> QED BY <3>1, <3>2
  <2> QED BY <2>3, <2>4
<1>3. DOMAIN jobs' = DOMAIN jobs
  BY <1>1
<1> QED BY <1>1, <1>2, <1>3 DEF SinceInv, SinceJobs, SinceFiles

\* What asks nobody: the jobs stay, or there are none.
LEMMA OthersKeepSince ==
  ASSUME Inv, SinceInv, \/ (\E c \in chunks : BatchFails(c)) \/ ResolveBatches \/ AskRest \/ Conclude
                        \/ (\E r \in Runs : Begin(r)) \/ NextDocument \/ EndRun
                        \/ Tick \/ UNCHANGED vars
  PROVE  SinceInv'
<1>1. edition' = edition /\ files' = files
  BY DEF BatchFails, ResolveBatches, AskRest, Conclude, Begin, NextDocument, EndRun, Tick, world, vars
<1>2. \/ DOMAIN jobs' = {}
      \/ jobs' = jobs /\ (stage = "probing" \/ stage' = "probing" => stage' = stage)
  BY DEF BatchFails, ResolveBatches, AskRest, Conclude, Begin, NextDocument, EndRun, Tick, vars, NoJobs
<1>3. SinceJobs'
  <2> SUFFICES ASSUME NEW j \in DOMAIN jobs' PROVE FromThen(jobs[j])'
    BY DEF SinceJobs
  <2>1. jobs' = jobs /\ (stage = "probing" \/ stage' = "probing" => stage' = stage)
    BY <1>2
  <2>2. PICK x : x = jobs[j]
    OBVIOUS
  <2>3. FromThen(x)
    BY <2>1, <2>2 DEF SinceInv, SinceJobs
  <2>4. FromThen(x)'
    BY <1>1, <2>1, <2>3, FromThenStays
  <2> QED BY <2>1, <2>2, <2>4
<1> QED BY <1>1, <1>3 DEF SinceInv, SinceFiles

\* What is published: what was so at an edition stays so.
LEMMA PublishKeepsSince ==
  ASSUME Inv, SinceInv, NothingWithdrawn, Publish
  PROVE  SinceInv'
<1>1. /\ edition' = edition + 1 /\ edition < Len(Editions)
      /\ files' = files /\ jobs' = jobs /\ stage' = stage
  BY DEF Publish
<1>2. edition \in DOMAIN Editions /\ edition' \in DOMAIN Editions /\ edition <= edition'
  <2>1. Editions \in Seq(Range(Editions)) /\ edition \in DOMAIN Editions
    BY OutdatedAssumption DEF Inv, TypeInv
  <2> QED BY <1>1, <2>1
<1>3. ASSUME NEW x, NEW t, NEW since, AsOf(x, t, since, edition) PROVE AsOf(x, t, since, edition')
  <2>1. PICK n \in DOMAIN Editions : n = edition
    BY <1>2
  <2>2. PICK m \in DOMAIN Editions : m = edition'
    BY <1>2
  <2>3. n <= m /\ AsOf(x, t, since, n)
    BY <1>2, <1>3, <2>1, <2>2
  <2>4. AsOf(x, t, since, m)
    BY <2>3, AsOfLasts
  <2> QED BY <2>2, <2>4
<1>4. SinceJobs'
  <2> SUFFICES ASSUME NEW j \in DOMAIN jobs PROVE FromThen(jobs[j])'
    BY <1>1 DEF SinceJobs
  <2>1. FromThen(jobs[j])
    BY DEF SinceInv, SinceJobs
  <2> QED BY <1>1, <1>3, <2>1 DEF FromThen
<1>5. SinceFiles'
  BY <1>1, <1>3 DEF SinceInv, SinceFiles
<1> QED BY <1>4, <1>5 DEF SinceInv

\* A run that is killed leaves a torn file.
LEMMA KillKeepsSince ==
  ASSUME Inv, SinceInv, Kill
  PROVE  SinceInv'
<1>1. DOMAIN jobs' = {} /\ edition' = edition
  BY DEF Kill, NoJobs
<1>2. \/ files' = files
      \/ \E file : files' = Put(file, [text |-> Torn, at |-> clock, since |-> 0])
  BY DEF Kill
<1>3. SinceFiles'
  <2>1. CASE files' = files
    BY <1>1, <2>1 DEF SinceInv, SinceFiles
  <2>2. CASE \E file : files' = Put(file, [text |-> Torn, at |-> clock, since |-> 0])
    BY <1>1, <2>2, FilesStepSince DEF SinceInv
  <2> QED BY <1>2, <2>1, <2>2
<1> QED BY <1>1, <1>3 DEF SinceInv, SinceJobs

\* Every text that a job or the cache has, unless it is torn, is what the index had at an
\* edition, or pages of it that lack only what is listed before the end of them.
THEOREM SinceHolds ==
  ASSUME FilesApart, NothingWithdrawn
  PROVE  Spec => []SinceInv
<1>1. Init => SinceInv
  BY DEF Init, NoJobs, SinceInv, SinceJobs, SinceFiles
<1>2. Inv /\ SinceInv /\ [Next]_vars => SinceInv'
  <2> SUFFICES ASSUME Inv, SinceInv, [Next]_vars PROVE SinceInv'
    OBVIOUS
  <2>1. CASE StartDocument \/ StartBatches
    BY <2>1, StartKeepsSince
  <2>2. CASE \E c \in chunks : AskBatch(c)
    BY <2>2, AskBatchKeepsSince
  <2>3. CASE \/ (\E c \in chunks : BatchFails(c)) \/ ResolveBatches \/ AskRest \/ Conclude
             \/ (\E r \in Runs : Begin(r)) \/ NextDocument \/ EndRun
             \/ Tick \/ Rest \/ UNCHANGED vars
    BY <2>3, OthersKeepSince DEF Rest
  <2>4. CASE \E j \in DOMAIN jobs : JobStep(j)
    BY <2>4, JobStepKeepsSince
  <2>5. CASE Publish
    BY <2>5, PublishKeepsSince
  <2>6. CASE Kill
    BY <2>6, KillKeepsSince
  <2> QED BY <2>1, <2>2, <2>3, <2>4, <2>5, <2>6 DEF Next, RunStep
<1> QED BY <1>1, <1>2, InvHolds, PTL DEF Spec

-----------------------------------------------------------------------------
(* How far behind a row says a package is. *)

\* The releases that count against an installed version.
Counted(x, project) ==
  {v \in Versions : /\ ~ IsPrerelease(v) /\ IsNewer(v, x.package.version)
                    /\ x.index = "pypi" => v \notin project.yanked}

BehindOf(releases, current) ==
  Cardinality({n \in DOMAIN releases : IsUsable(releases[n]) /\ IsNewer(releases[n].version, current)})

\* A history has each version at one place.
LEMMA HistoryCounts ==
  ASSUME NEW s, IsHistory(s), NEW G
  PROVE  Cardinality({n \in DOMAIN s : s[n] \in G}) = Cardinality(Range(s) \cap G)
<1> DEFINE S == {n \in DOMAIN s : s[n] \in G}
           f == [n \in S |-> s[n]]
<1>1. /\ DOMAIN s = 1..Len(s) /\ Len(s) \in Nat /\ \A m \in DOMAIN s : IsVersion(s[m])
      /\ \A m, n \in DOMAIN s : m < n => IsNewer(s[m], s[n])
  BY HistoryHas
<1>2. \A m, n \in S : f[m] = f[n] => m = n
  <2> SUFFICES ASSUME NEW m \in DOMAIN s, NEW n \in DOMAIN s, m < n PROVE s[m] # s[n]
    BY <1>1
  <2>1. IsNewer(s[m], s[n]) /\ IsVersion(s[n])
    BY <1>1
  <2> QED BY <2>1, IsNewerIsStrict
<1>3. IsFiniteSet(S)
  <2>1. IsFiniteSet(DOMAIN s)
    BY <1>1, PlacesAre
  <2>2. S \subseteq DOMAIN s
    OBVIOUS
  <2> HIDE DEF S
  <2> QED BY <2>1, <2>2, FS_Subset
<1>4. DOMAIN f = S /\ f = [n \in S |-> f[n]]
  OBVIOUS
<1>5. {f[n] : n \in S} = Range(s) \cap G
  BY DEF Range
<1> HIDE DEF S, f
<1>6. Cardinality({f[n] : n \in S}) = Cardinality(S)
  BY <1>2, <1>3, <1>4, ValuesAre
<1> QED BY <1>5, <1>6 DEF S

\* What a project's releases say of an installed version is what the index lists.
LEMMA WholeProjects ==
  ASSUME NEW x, NEW project \in Projects, x.index # "prefix"
  PROVE  BehindOf(ProjectReleases(project, x.index), x.package.version)
           = Cardinality(Range(project.versions) \cap Counted(x, project))
<1> DEFINE s == project.versions
           releases == ProjectReleases(project, x.index)
           yanked == project.yanked
<1>1. IsHistory(s) /\ s \in Seq(Versions)
  BY ProjectsHaveHistories, OutdatedAssumption
<1>2. \A n \in DOMAIN s : s[n] \in Versions
  <2> HIDE DEF s
  <2> QED BY <1>1, ElementOfSeq
<1>3. DOMAIN releases = DOMAIN s
      /\ \A n \in DOMAIN s : releases[n].version = s[n]
                             /\ (releases[n].yanked <=> x.index = "pypi" /\ s[n] \in project.yanked)
  BY DEF ProjectReleases
<1> HIDE DEF s, releases
<1>4. \A n \in DOMAIN s : (IsUsable(releases[n]) /\ IsNewer(releases[n].version, x.package.version))
                          <=> s[n] \in Counted(x, project)
  BY <1>2, <1>3 DEF IsUsable, Counted
<1>5. {n \in DOMAIN releases : IsUsable(releases[n]) /\ IsNewer(releases[n].version, x.package.version)}
        = {n \in DOMAIN s : s[n] \in Counted(x, project)}
  BY <1>3, <1>4
<1>6. Cardinality({n \in DOMAIN s : s[n] \in Counted(x, project)}) = Cardinality(Range(s) \cap Counted(x, project))
  BY <1>1, HistoryCounts
<1>7. BehindOf(releases, x.package.version) = Cardinality({n \in DOMAIN s : s[n] \in Counted(x, project)})
  BY <1>5 DEF BehindOf
<1> QED BY <1>6, <1>7 DEF s, releases

\* What pages say of it.
LEMMA PagesOfProjects ==
  ASSUME NothingWithdrawn, NEW x, x.index = "prefix", NEW n \in DOMAIN Editions, NEW since,
         NEW text, AsOf(x, text, since, n), IsListed(x, since), IsVersion(x.package.version)
  PROVE  LET behind == BehindOf(PrefixReleases(text), x.package.version)
             newer == Cardinality(Range(History(x, since)) \cap Counted(x, None))
         IN  /\ behind <= newer + (Len(History(x, n)) - Len(History(x, since)))
             /\ Reaches(text.versions, x.package.version) => newer <= behind
<1> DEFINE s == History(x, since)
           t == text.versions
           c == History(x, n)
           G == Counted(x, None)
           cur == x.package.version
           releases == PrefixReleases(text)
<1>1. since \in DOMAIN Editions /\ since <= n /\ PagesOf(s, t, c) /\ text \in PageTexts
  BY EditionsAre DEF AsOf
<1>2. IsHistory(s) /\ IsHistory(c) /\ Range(s) \subseteq Range(c) /\ t \in Seq(Versions) /\ Range(s) \subseteq Versions
  <2>1. IsHistory(s) /\ IsHistory(c) /\ Range(s) \subseteq Range(c)
    BY <1>1, IndexesHaveHistories
  <2>2. t \in Seq(Versions)
    BY <1>1 DEF PageTexts
  <2>3. Range(s) \subseteq Versions
    <3>1. Editions[since].conda[Place(x)] \in Projects
      BY <1>1, IndexesHaveHistories
    <3> QED BY <3>1 DEF Versions, History
  <2> QED BY <2>1, <2>2, <2>3
<1>3. /\ DOMAIN releases = DOMAIN t
      /\ \A i \in DOMAIN t : releases[i].version = t[i] /\ ~ releases[i].yanked
  BY DEF PrefixReleases
<1>4. \A i \in DOMAIN t : t[i] \in Versions
  <2> HIDE DEF t
  <2> QED BY <1>2, ElementOfSeq
<1> HIDE DEF s, t, c, releases
<1>5. BehindOf(releases, cur) = Cardinality({i \in DOMAIN t : t[i] \in G})
  <2>1. \A i \in DOMAIN t : (IsUsable(releases[i]) /\ IsNewer(releases[i].version, cur)) <=> t[i] \in G
    BY <1>3, <1>4 DEF IsUsable, Counted
  <2>2. {i \in DOMAIN releases : IsUsable(releases[i]) /\ IsNewer(releases[i].version, cur)} = {i \in DOMAIN t : t[i] \in G}
    BY <1>3, <2>1
  <2> QED BY <2>2 DEF BehindOf
<1>6. LET had == Range(s) \cap G
          have == {i \in DOMAIN t : t[i] \in G}
      IN  /\ Cardinality(have) <= Cardinality(had) + (Len(c) - Len(s))
          /\ had \subseteq Range(t) => Cardinality(had) <= Cardinality(have)
  <2> HIDE DEF G
  <2> QED BY <1>1, <1>2, PagesCount
<1>7. Reaches(t, cur) => Range(s) \cap G \subseteq Range(t)
  <2> SUFFICES ASSUME Reaches(t, cur), NEW v \in Range(s) \cap G, v \notin Range(t) PROVE FALSE
    OBVIOUS
  <2>1. PICK w \in Range(t) : ~ IsNewer(w, cur)
    BY DEF Reaches
  <2>2. IsNewer(w, v) /\ IsNewer(v, cur)
    BY <1>1, <2>1 DEF PagesOf, Counted
  <2>3. w \in Versions /\ v \in Versions
    BY <1>2, <1>4, <2>1 DEF Range
  <2>4. IsVersion(w) /\ IsVersion(v)
    BY <2>3, OutdatedAssumption DEF IsVersion
  <2> QED BY <2>1, <2>2, <2>4, IsNewerIsStrict
<1> HIDE DEF G, cur
<1> QED BY <1>5, <1>6, <1>7 DEF s, t, c, releases, G, cur

\* BehindIsSound follows.
LEMMA SinceSaysBehind ==
  ASSUME Inv, SinceInv, NothingWithdrawn, stage = "reported"
  PROVE  BehindIsSound
<1> DEFINE compared == {i \in DOMAIN Packages : IsCompared(i)}
           StatusOf(i) == Status(ReleasesOf(jobs[i]), jobs[i].package.version)
           rows == {[package |-> i, status |-> StatusOf(i)] : i \in compared}
<1>1. output.checked = rows
  <2>1. output = Report
    BY DEF Inv, ReportInv
  <2> HIDE DEF StatusOf
  <2> QED BY <2>1 DEF Report, StatusOf
<1>2. ASSUME NEW i \in compared
      PROVE  SaysHowFar(jobs[i], StatusOf(i).behind)
  <2> DEFINE x == jobs[i]
             since == x.since
             cur == x.package.version
             behind == StatusOf(i).behind
  <2>1. /\ i \in DOMAIN jobs /\ x.text \notin {None, Torn} /\ x \in Jobs /\ ReleasesOf(x) # <<>>
        /\ edition \in DOMAIN Editions /\ FromThen(x)
    <3>1. IsCompared(i)
      BY <1>2
    <3>2. i \in DOMAIN jobs /\ x.text \notin {None, Torn} /\ Asks(x, Packages[i])
      BY <3>1, ComparedHas
    <3> QED BY <3>1, <3>2 DEF IsCompared, Asks, Inv, TypeInv, SinceInv, SinceJobs
  <2>2. AsOf(x, x.text, since, edition) /\ cur # None
    BY <2>1 DEF FromThen
  <2>3. IsVersion(cur) /\ since \in DOMAIN Editions
    <3>1. cur \in {p.version : p \in Listed} \ {None}
      BY <2>1, <2>2 DEF Jobs
    <3>2. since \in DOMAIN Editions
      BY <2>1, <2>2, EditionsAre DEF AsOf
    <3> QED BY <3>1, <3>2, OutdatedAssumption DEF IsVersion
  <2>4. behind = BehindOf(ReleasesOf(x), cur)
    BY DEF Status, BehindOf
  <2> HIDE DEF behind
  <2>5. CASE x.index = "prefix"
    <3>1. ReleasesOf(x) = PrefixReleases(x.text)
      BY <2>1, <2>5 DEF ReleasesOf
    <3>2. IsListed(x, since)
      <4> SUFFICES ASSUME ~ IsListed(x, since) PROVE FALSE
        OBVIOUS
      <4>1. x.text.versions = <<>>
        BY <2>2, <2>5 DEF AsOf
      <4>2. PrefixReleases(x.text) = <<>>
        BY <4>1 DEF PrefixReleases
      <4> QED BY <2>1, <3>1, <4>2
    <3>3. NewerReleases(x, ProjectAt(x, since)) = Cardinality(Range(History(x, since)) \cap Counted(x, None))
      <4>1. Range(History(x, since)) \subseteq Versions
        <5>1. Editions[since].conda[Place(x)] \in Projects
          BY <2>3, <3>2, IndexesHaveHistories
        <5> QED BY <5>1 DEF Versions, History
      <4>2. ProjectAt(x, since).versions = History(x, since)
        BY <2>5 DEF ProjectAt, History, Place
      <4> HIDE DEF x, cur
      <4>3. {v \in Range(History(x, since)) : /\ ~ IsPrerelease(v) /\ IsNewer(v, x.package.version)
                                              /\ x.index = "pypi" => v \notin ProjectAt(x, since).yanked}
              = Range(History(x, since)) \cap Counted(x, None)
        BY <2>5, <4>1 DEF Counted
      <4> QED BY <4>2, <4>3 DEF NewerReleases
    <3>4. LET newer == NewerReleases(x, ProjectAt(x, since))
          IN  /\ behind <= newer + (Len(History(x, edition)) - Len(History(x, since)))
              /\ Reaches(x.text.versions, cur) => newer <= behind
      <4> HIDE DEF x
      <4> QED BY <2>1, <2>2, <2>3, <2>4, <2>5, <3>1, <3>2, <3>3, PagesOfProjects
    <3>5. ProjectAt(x, since).versions = History(x, since) /\ ProjectAt(x, edition).versions = History(x, edition)
      BY <2>5 DEF ProjectAt, History, Place
    <3> HIDE DEF x
    <3>6. SaysHowFar(x, behind)
      BY <2>5, <3>4, <3>5 DEF SaysHowFar
    <3> QED BY <3>6 DEF x, behind
  <2>6. CASE x.index # "prefix"
    <3> DEFINE project == ProjectAt(x, since)
    <3>1. project \in Projects /\ x.text = project
      <4>1. x.index \in {"pypi", "anaconda"}
        BY <2>1, <2>6 DEF Jobs, Kinds
      <4> QED BY <2>2, <2>3, <4>1, ProjectsAre DEF AsOf, IsListed, ProjectAt, Place
    <3>2. ReleasesOf(x) = ProjectReleases(project, x.index)
      BY <2>1, <2>6, <3>1 DEF ReleasesOf
    <3>3. behind = Cardinality(Range(project.versions) \cap Counted(x, project))
      <4> HIDE DEF project, x
      <4> QED BY <2>4, <2>6, <3>1, <3>2, WholeProjects
    <3>4. behind = NewerReleases(x, project)
      <4> HIDE DEF project, x, cur
      <4>1. Range(project.versions) \subseteq Versions
        BY <3>1 DEF Versions
      <4>2. {v \in Range(project.versions) : /\ ~ IsPrerelease(v) /\ IsNewer(v, x.package.version)
                                             /\ x.index = "pypi" => v \notin project.yanked}
              = Range(project.versions) \cap Counted(x, project)
        BY <4>1 DEF Counted
      <4> QED BY <3>3, <4>2 DEF NewerReleases
    <3> HIDE DEF x
    <3>5. SaysHowFar(x, behind)
      BY <2>6, <3>4 DEF SaysHowFar
    <3> QED BY <3>5 DEF x, behind
  <2> QED BY <2>5, <2>6
<1> HIDE DEF StatusOf
<1>3. \A row \in rows : \E i \in compared : row.package = i /\ row.status = StatusOf(i)
  OBVIOUS
<1> HIDE DEF compared, rows
<1> QED BY <1>1, <1>2, <1>3 DEF BehindIsSound

\* A row says how far behind a package was when its index was asked, whatever the run, the
\* documents and the pages, and more only by what was published since.
THEOREM BehindHolds ==
  ASSUME FilesApart, NothingWithdrawn
  PROVE  Spec => []BehindIsSound
<1>1. Inv /\ SinceInv => BehindIsSound
  <2>1. CASE stage = "reported"
    BY <2>1, SinceSaysBehind
  <2>2. CASE stage # "reported"
    BY <2>2 DEF BehindIsSound
  <2> QED BY <2>1, <2>2
<1> QED BY <1>1, InvHolds, SinceHolds, PTL
=============================================================================

--------------------------- MODULE OsvLookup_proofs ---------------------------
(***************************************************************************)
(* What holds of the OSV lookup, for any document, any pages and requests,   *)
(* whatever OSV changes and leaves unanswered, however old the caches are    *)
(* and whenever a run is killed: a purl has exactly the advisories OSV has   *)
(* for it, and no record is older than the cached answers may be.           *)
(***************************************************************************)
EXTENDS OsvLookup, SequenceTheorems, WellFoundedInduction, TLAPS

\* No two purls of the document share a cache file.  query_cache_name joins and
\* shortens, so that it holds for the purls there are and not for all there could be.
NamesApart == \A p, q \in Purls : CacheName[p] = CacheName[q] => p = q

-----------------------------------------------------------------------------
(* The operators. *)

\* Induction over the natural numbers, for a set.
LEMMA Induction ==
  ASSUME NEW S, 0 \in S, \A n \in Nat : n \in S => n + 1 \in S
  PROVE  Nat \subseteq S
<1>1. SUFFICES ASSUME Nat \ S # {} PROVE FALSE
  OBVIOUS
<1>2. PICK x \in Nat : x \notin S /\ \A y \in Nat \ S : ~ (<<y, x>> \in OpToRel(<, Nat))
  BY <1>1, NatLessThanWellFounded, WFMin
<1>3. PICK y \in Nat : x = y + 1
  <2>1. x # 0
    BY <1>2
  <2> QED BY <2>1
<1>4. <<y, x>> \in OpToRel(<, Nat)
  BY <1>3 DEF OpToRel
<1>5. y \in S
  BY <1>2, <1>4
<1> QED BY <1>2, <1>3, <1>5

\* What Those does with one more member.
More(s, S, t, n) == IF s[n] \in S THEN Append(t, s[n]) ELSE t

\* f gives those of each prefix of s, up to the k-th.
GivesThose(f, s, S, k) ==
  /\ f = [n \in 0..k |-> f[n]]
  /\ f[0] = <<>>
  /\ \A n \in 1..k : f[n] = More(s, S, f[n - 1], n)

\* There is such a function.
LEMMA ThoseExist ==
  ASSUME NEW s, NEW S, NEW N \in Nat
  PROVE  \E f : GivesThose(f, s, S, N)
<1> DEFINE K == {k \in Nat : \E f : GivesThose(f, s, S, k)}
<1>1. 0 \in K
  <2>1. GivesThose([n \in 0..0 |-> <<>>], s, S, 0)
    BY DEF GivesThose
  <2> QED BY <2>1
<1>2. ASSUME NEW k \in Nat, k \in K PROVE k + 1 \in K
  <2>1. PICK f : GivesThose(f, s, S, k)
    BY <1>2
  <2> DEFINE g == [n \in 0..(k + 1) |-> IF n <= k THEN f[n] ELSE More(s, S, f[k], k + 1)]
  <2>2. g[0] = <<>> /\ DOMAIN g = 0..(k + 1)
    BY <2>1 DEF GivesThose
  <2>3. ASSUME NEW n \in 1..(k + 1) PROVE g[n] = More(s, S, g[n - 1], n)
    <3>1. n - 1 \in 0..k /\ g[n - 1] = f[n - 1]
      OBVIOUS
    <3>2. CASE n <= k
      BY <2>1, <3>1, <3>2 DEF GivesThose
    <3>3. CASE n = k + 1
      BY <3>1, <3>3
    <3> QED BY <3>2, <3>3
  <2>4. GivesThose(g, s, S, k + 1)
    BY <2>2, <2>3 DEF GivesThose
  <2> QED BY <2>4
<1>3. Nat \subseteq K
  <2> HIDE DEF K
  <2> QED BY <1>1, <1>2, Induction
<1> QED BY <1>3

\* Those picks the members of a sequence that are in a set, and no others.
LEMMA ThoseAre ==
  ASSUME NEW T, NEW s \in Seq(T), NEW S
  PROVE  /\ Those(s, S) \in Seq(T)
         /\ ToSet(Those(s, S)) = ToSet(s) \cap S
<1> DEFINE those == CHOOSE f : f = [n \in 0..Len(s) |->
                       IF n = 0 THEN <<>>
                       ELSE IF s[n] \in S THEN Append(f[n - 1], s[n]) ELSE f[n - 1]]
<1>0. Len(s) \in Nat /\ \A n \in 1..Len(s) : s[n] \in T
  OBVIOUS
<1>1. GivesThose(those, s, S, Len(s))
  <2>1. \A f : f = [n \in 0..Len(s) |->
                     IF n = 0 THEN <<>>
                     ELSE IF s[n] \in S THEN Append(f[n - 1], s[n]) ELSE f[n - 1]]
               <=> GivesThose(f, s, S, Len(s))
    <3> SUFFICES ASSUME NEW f
                 PROVE  f = [n \in 0..Len(s) |->
                               IF n = 0 THEN <<>>
                               ELSE IF s[n] \in S THEN Append(f[n - 1], s[n]) ELSE f[n - 1]]
                        <=> GivesThose(f, s, S, Len(s))
      OBVIOUS
    <3> DEFINE body(g, n) == IF n = 0 THEN <<>>
                             ELSE IF s[n] \in S THEN Append(g[n - 1], s[n]) ELSE g[n - 1]
    <3>1. ASSUME f = [n \in 0..Len(s) |-> body(f, n)] PROVE GivesThose(f, s, S, Len(s))
      <4>1. \A n \in 0..Len(s) : f[n] = body(f, n)
        BY <3>1, Zenon
      <4>2. f = [n \in 0..Len(s) |-> f[n]]
        BY <3>1, Zenon
      <4>3. 0 \in 0..Len(s) /\ \A n \in 1..Len(s) : n \in 0..Len(s) /\ n # 0
        BY <1>0
      <4> QED BY <4>1, <4>2, <4>3, Zenon DEF GivesThose, More
    <3>2. ASSUME GivesThose(f, s, S, Len(s)) PROVE f = [n \in 0..Len(s) |-> body(f, n)]
      <4>1. \A n \in 0..Len(s) : n = 0 \/ n \in 1..Len(s)
        BY <1>0
      <4>2. \A n \in 0..Len(s) : f[n] = body(f, n)
        BY <3>2, <4>1 DEF GivesThose, More
      <4> HIDE DEF body
      <4> QED BY <3>2, <4>2, Zenon DEF GivesThose
    <3> QED BY <3>1, <3>2, Zenon
  <2> QED BY <1>0, <2>1, ThoseExist
<1>2. Those(s, S) = those[Len(s)]
  BY DEF Those
<1> HIDE DEF those
\* Up to every position they are those of the members so far.
<1> DEFINE K == {k \in Nat : k <= Len(s) =>
                   those[k] \in Seq(T) /\ ToSet(those[k]) = {s[i] : i \in 1..k} \cap S}
<1>3. 0 \in K
  <2>1. those[0] = <<>>
    BY <1>1 DEF GivesThose
  <2>2. DOMAIN <<>> = {}
    OBVIOUS
  <2>3. ToSet(<<>>) = {}
    BY <2>2, Zenon DEF ToSet
  <2>4. <<>> \in Seq(T) /\ 1..0 = {}
    OBVIOUS
  <2> QED BY <2>1, <2>3, <2>4
<1>4. ASSUME NEW k \in Nat, k \in K PROVE k + 1 \in K
  <2> SUFFICES ASSUME k + 1 <= Len(s)
               PROVE  /\ those[k + 1] \in Seq(T)
                      /\ ToSet(those[k + 1]) = {s[i] : i \in 1..(k + 1)} \cap S
    OBVIOUS
  <2>1. those[k] \in Seq(T) /\ ToSet(those[k]) = {s[i] : i \in 1..k} \cap S
    BY <1>0, <1>4
  <2>2. those[k + 1] = IF s[k + 1] \in S THEN Append(those[k], s[k + 1]) ELSE those[k]
    BY <1>0, <1>1 DEF GivesThose, More
  <2>3. {s[i] : i \in 1..(k + 1)} = {s[i] : i \in 1..k} \cup {s[k + 1]}
    BY <1>0
  <2>4. CASE s[k + 1] \in S
    <3>1. ToSet(Append(those[k], s[k + 1])) = ToSet(those[k]) \cup {s[k + 1]}
      <4>1. those[k] \in Seq(T) /\ s[k + 1] \in T
        BY <2>1, <1>0
      <4> HIDE DEF those
      <4>2. /\ Len(Append(those[k], s[k + 1])) = Len(those[k]) + 1
            /\ \A i \in 1..Len(those[k]) : Append(those[k], s[k + 1])[i] = those[k][i]
            /\ Append(those[k], s[k + 1])[Len(those[k]) + 1] = s[k + 1]
            /\ DOMAIN those[k] = 1..Len(those[k]) /\ Len(those[k]) \in Nat
            /\ DOMAIN Append(those[k], s[k + 1]) = 1..(Len(those[k]) + 1)
        BY <4>1, AppendProperties, LenProperties
      <4> DEFINE t == Append(those[k], s[k + 1])
                 m == Len(those[k])
      <4>3. /\ \A i \in DOMAIN t : (i \in DOMAIN those[k] /\ t[i] = those[k][i]) \/ t[i] = s[k + 1]
            /\ \A i \in DOMAIN those[k] : i \in DOMAIN t /\ t[i] = those[k][i]
            /\ m + 1 \in DOMAIN t /\ t[m + 1] = s[k + 1]
        <5> HIDE DEF t
        <5>1. /\ \A i \in 1..m : t[i] = those[k][i]
              /\ t[m + 1] = s[k + 1] /\ m \in Nat
              /\ DOMAIN those[k] = 1..m /\ DOMAIN t = 1..(m + 1)
          BY <4>2 DEF t
        <5> HIDE DEF m
        <5> QED BY <5>1
      <4> HIDE DEF t, m
      <4> QED BY <4>3, Zenon DEF ToSet, t
    <3>2. \A x : x \in ToSet(those[k]) <=> x \in {s[i] : i \in 1..k} /\ x \in S
      BY <2>1
    <3> HIDE DEF those
    <3> QED BY <2>1, <2>2, <2>3, <2>4, <3>1, <1>0
  <2>5. CASE s[k + 1] \notin S
    BY <2>1, <2>2, <2>3, <2>5
  <2> QED BY <2>4, <2>5
<1>5. Nat \subseteq K
  <2> HIDE DEF K
  <2> QED BY <1>3, <1>4, Induction
<1>6. ToSet(s) = {s[i] : i \in 1..Len(s)}
  BY DEF ToSet
<1>7. Len(s) \in K
  BY <1>0, <1>5
<1>8. those[Len(s)] \in Seq(T) /\ ToSet(those[Len(s)]) = {s[i] : i \in 1..Len(s)} \cap S
  BY <1>0, <1>7
<1> QED BY <1>2, <1>6, <1>8, Zenon

\* The members of a sequence, and of what is cut from it.
LEMMA MembersOf ==
  ASSUME NEW T, NEW s \in Seq(T)
  PROVE  /\ ToSet(s) = {s[i] : i \in 1..Len(s)} /\ ToSet(s) \subseteq T
         /\ s = <<>> => ToSet(s) = {}
         /\ s # <<>> => /\ Head(s) \in ToSet(s) /\ Tail(s) \in Seq(T)
                        /\ ToSet(s) = {Head(s)} \cup ToSet(Tail(s))
<1>1. Len(s) \in Nat /\ DOMAIN s = 1..Len(s) /\ \A i \in 1..Len(s) : s[i] \in T
  OBVIOUS
<1>2. ToSet(s) = {s[i] : i \in 1..Len(s)}
  BY <1>1 DEF ToSet
<1>3. ASSUME s = <<>> PROVE ToSet(s) = {}
  BY <1>2, <1>3
<1>4. ASSUME s # <<>>
      PROVE  /\ Head(s) \in ToSet(s) /\ Tail(s) \in Seq(T)
             /\ ToSet(s) = {Head(s)} \cup ToSet(Tail(s))
  <2>1. /\ Tail(s) \in Seq(T) /\ Len(Tail(s)) = Len(s) - 1 /\ Len(s) \in Nat \ {0} /\ Head(s) = s[1]
        /\ \A i \in 1..Len(Tail(s)) : Tail(s)[i] = s[i + 1]
    BY <1>1, <1>4, HeadTailProperties, EmptySeq
  <2>2. ToSet(Tail(s)) = {Tail(s)[i] : i \in 1..Len(Tail(s))}
    <3>1. DOMAIN Tail(s) = 1..Len(Tail(s))
      BY <2>1, LenProperties
    <3> QED BY <3>1, Zenon DEF ToSet
  <2>3. ToSet(Tail(s)) = {s[i] : i \in 2..Len(s)}
    <3>1. ASSUME NEW i \in 1..Len(Tail(s)) PROVE Tail(s)[i] = s[i + 1] /\ i + 1 \in 2..Len(s)
      BY <2>1
    <3>2. ASSUME NEW i \in 2..Len(s) PROVE i - 1 \in 1..Len(Tail(s)) /\ s[i] = Tail(s)[i - 1]
      <4>1. i - 1 \in 1..Len(Tail(s)) /\ (i - 1) + 1 = i
        BY <2>1
      <4> QED BY <2>1, <4>1
    <3>3. {Tail(s)[i] : i \in 1..Len(Tail(s))} \subseteq {s[i] : i \in 2..Len(s)}
      BY <3>1
    <3>4. \A i \in 2..Len(s) : \E k \in 1..Len(Tail(s)) : s[i] = Tail(s)[k]
      BY <3>2
    <3>5. {s[i] : i \in 2..Len(s)} \subseteq {Tail(s)[i] : i \in 1..Len(Tail(s))}
      BY <3>4
    <3> QED BY <2>2, <3>3, <3>5
  <2>4. {s[i] : i \in 1..Len(s)} = {s[1]} \cup {s[i] : i \in 2..Len(s)}
    BY <2>1
  <2> QED BY <1>2, <2>1, <2>3, <2>4
<1> QED BY <1>1, <1>2, <1>3, <1>4

\* The members of a part of a sequence.
LEMMA PartOf ==
  ASSUME NEW T, NEW s \in Seq(T), NEW a \in Nat, NEW b \in Nat, 1 <= a, b <= Len(s)
  PROVE  SubSeq(s, a, b) \in Seq(T) /\ ToSet(SubSeq(s, a, b)) = {s[i] : i \in a..b}
<1>0. Len(s) \in Nat /\ \A i \in 1..Len(s) : s[i] \in T
  OBVIOUS
<1> DEFINE part == SubSeq(s, a, b)
<1>1. /\ part \in Seq(T) /\ Len(part) = IF a <= b THEN b - a + 1 ELSE 0
      /\ \A i \in 1..(b - a + 1) : part[i] = s[a + i - 1]
  BY <1>0, SubSeqProperties
<1>2. ToSet(part) = {part[i] : i \in 1..Len(part)}
  BY <1>1, MembersOf
<1> HIDE DEF part
<1>3. ASSUME NEW i \in 1..Len(part) PROVE part[i] = s[a + i - 1] /\ a + i - 1 \in a..b
  BY <1>1
<1>4. ASSUME NEW i \in a..b PROVE \E k \in 1..Len(part) : part[k] = s[i]
  <2>1. i - a + 1 \in 1..Len(part) /\ a + (i - a + 1) - 1 = i
    BY <1>1, <1>0
  <2>2. part[i - a + 1] = s[a + (i - a + 1) - 1]
    BY <1>1, <2>1
  <2> QED BY <2>1, <2>2
<1>5. {part[i] : i \in 1..Len(part)} \subseteq {s[i] : i \in a..b}
  BY <1>3
<1>6. {s[i] : i \in a..b} \subseteq {part[i] : i \in 1..Len(part)}
  BY <1>4
<1>7. ToSet(part) = {s[i] : i \in a..b}
  BY <1>2, <1>5, <1>6
<1> QED BY <1>1, <1>7 DEF part

\* A sequence cut in two has the members of both parts.
LEMMA CutInTwo ==
  ASSUME NEW T, NEW s \in Seq(T), NEW n \in 0..Len(s)
  PROVE  /\ SubSeq(s, 1, n) \in Seq(T) /\ SubSeq(s, n + 1, Len(s)) \in Seq(T)
         /\ ToSet(s) = ToSet(SubSeq(s, 1, n)) \cup ToSet(SubSeq(s, n + 1, Len(s)))
<1>1. Len(s) \in Nat /\ n \in Nat /\ n <= Len(s)
  OBVIOUS
<1>2. /\ SubSeq(s, 1, n) \in Seq(T) /\ ToSet(SubSeq(s, 1, n)) = {s[i] : i \in 1..n}
      /\ SubSeq(s, n + 1, Len(s)) \in Seq(T)
      /\ ToSet(SubSeq(s, n + 1, Len(s))) = {s[i] : i \in (n + 1)..Len(s)}
  BY <1>1, PartOf
<1>3. {s[i] : i \in 1..Len(s)} = {s[i] : i \in 1..n} \cup {s[i] : i \in (n + 1)..Len(s)}
  BY <1>1
<1> QED BY <1>2, <1>3, MembersOf

\* What is left of a division is less than the divisor.
LEMMA NextMultiple ==
  ASSUME NEW n \in Nat, NEW c \in Nat \ {0}
  PROVE  n \div c \in Nat /\ n < (n \div c + 1) * c
<1>1. n \div c \in Nat /\ n < c * (n \div c) + c
  OBVIOUS
<1>2. ASSUME NEW q \in Nat PROVE (q + 1) * c = c * q + c
  OBVIOUS
<1> QED BY <1>1, <1>2

\* The pages of a purl hold its advisories, each where its place says.
LEMMA PagesAre ==
  ASSUME NEW p \in Purls, NEW k \in Nat
  PROVE  /\ LastPage(p) \in Nat /\ Len(Advisories[p]) <= (LastPage(p) + 1) * PageSize
         /\ PageIds(p, k) \subseteq Known(p) /\ PageIds(p, k) \subseteq Ids
         /\ \A x \in 1..Len(Advisories[p]) :
              k * PageSize < x /\ x <= (k + 1) * PageSize => Advisories[p][x] \in PageIds(p, k)
<1> DEFINE n == Len(Advisories[p])
           last == (n - 1) \div PageSize
           end == Min2((k + 1) * PageSize, n)
<1>1. Advisories[p] \in Seq(Ids) /\ PageSize \in Nat \ {0} /\ n \in Nat
  BY OsvAssumption
<1>2. LastPage(p) \in Nat /\ n <= (LastPage(p) + 1) * PageSize
  <2>1. CASE n = 0
    <3>1. Advisories[p] = <<>>
      BY <1>1, <2>1, EmptySeq
    <3> QED BY <1>1, <2>1, <3>1 DEF LastPage
  <2>2. CASE n # 0
    <3>1. Advisories[p] # <<>>
      BY <1>1, <2>2
    <3>2. n - 1 \in Nat
      BY <1>1, <2>2
    <3>3. last \in Nat /\ n - 1 < (last + 1) * PageSize
      BY <1>1, <3>2, NextMultiple
    <3>4. LastPage(p) = last
      BY <3>1 DEF LastPage
    <3> HIDE DEF last
    <3>5. (last + 1) * PageSize \in Nat
      BY <1>1, <3>3
    <3>6. n <= (last + 1) * PageSize
      BY <1>1, <3>3, <3>5
    <3> QED BY <3>3, <3>4, <3>6
  <2> QED BY <2>1, <2>2
<1>3. k * PageSize \in Nat /\ (k + 1) * PageSize \in Nat
  BY <1>1
<1>4. end \in Nat /\ end <= n
  BY <1>1, <1>3 DEF Min2
<1>5. PageIds(p, k) = {Advisories[p][i] : i \in (k * PageSize + 1)..end}
  <2>1. PageIds(p, k) = ToSet(SubSeq(Advisories[p], k * PageSize + 1, end))
    BY DEF PageIds
  <2>2. k * PageSize + 1 \in Nat /\ 1 <= k * PageSize + 1
    BY <1>3
  <2> HIDE DEF end
  <2> QED BY <1>1, <1>4, <2>1, <2>2, PartOf
<1>6. {Advisories[p][i] : i \in (k * PageSize + 1)..end} \subseteq {Advisories[p][i] : i \in 1..n}
  BY <1>1, <1>3, <1>4
<1>7. Known(p) = {Advisories[p][i] : i \in 1..n} /\ Known(p) \subseteq Ids
  BY <1>1, MembersOf DEF Known
<1>8. ASSUME NEW x \in 1..n, k * PageSize < x, x <= (k + 1) * PageSize
      PROVE  x \in (k * PageSize + 1)..end
  BY <1>1, <1>3, <1>8 DEF Min2
<1> QED BY <1>2, <1>5, <1>6, <1>7, <1>8

-----------------------------------------------------------------------------
(* Types. *)

Answers == [purl : Purls, at : Nat, refs : SUBSET Refs]

TypeOK ==
  /\ clock \in Nat
  /\ stamp \in [Ids -> Versions]
  /\ changed \in [Ids -> {None} \cup Nat]
  /\ queries \in [Files -> {None} \cup Answers]
  /\ records \in [Ids -> {None} \cup Versions]
  /\ pc \in {"idle", "query", "post", "store", "records", "done", "failed"}
  /\ offline \in BOOLEAN
  /\ policy \in {"default", "refresh", "noCache"}
  /\ now \in Nat
  /\ out \in [Purls -> {None} \cup SUBSET Refs]
  /\ unanswered \subseteq Purls
  /\ pending \in Seq(Purls) /\ chunk \in Seq(Purls) /\ toStore \in Seq(Purls)
  /\ page \in [Purls -> Nat]
  /\ done \subseteq Purls
  /\ collected \in [Purls -> SUBSET Refs]
  /\ record \in [Ids -> {None} \cup Versions]
  /\ toFetch \subseteq Ids
  /\ turn \in BOOLEAN
  /\ shorted \in BOOLEAN

-----------------------------------------------------------------------------
(* A request. *)

\* What refs of time t say of an advisory: that it has no `modified`, or the version
\* that OSV has had up to then at least.
Fresh(refs, t) ==
  \A r \in refs :
    /\ r.stamp = 0 => r.id \in Unstamped
    /\ r.stamp = 1 => changed[r.id] = None \/ changed[r.id] >= t

\* OSV serves the first version until it modifies an advisory, which is not yet to come.
DatesInv ==
  /\ now <= clock
  /\ \A i \in Ids : stamp[i] = 1 => changed[i] = None

\* The purls that the first n results of a request answer, and the refs of a purl's page.
Asked(n) == {Open[j] : j \in 1..n}
PageRefs(p) ==
  {[id |-> i, stamp |-> IF i \in Unstamped THEN 0 ELSE stamp[i]] : i \in PageIds(p, page[p])}

\* What a request asks is of the chunk, and not finished.
LEMMA OpenIs ==
  ASSUME TypeOK
  PROVE  Open \in Seq(Purls) /\ ToSet(Open) = ToSet(chunk) \ done /\ Len(Open) \in Nat
<1>1. Open \in Seq(Purls) /\ ToSet(Open) = ToSet(chunk) \cap (Purls \ done)
  BY ThoseAre DEF TypeOK, Open
<1>2. ToSet(chunk) \subseteq Purls
  BY MembersOf DEF TypeOK
<1> QED BY <1>1, <1>2

\* The refs of a page are of that page, and of versions that OSV has now.
LEMMA PageRefsAre ==
  ASSUME TypeOK, NEW p \in Purls
  PROVE  /\ PageRefs(p) \subseteq Refs /\ RefIds(PageRefs(p)) = PageIds(p, page[p])
         /\ DatesInv => Fresh(PageRefs(p), now)
<1> DEFINE ref(i) == [id |-> i, stamp |-> IF i \in Unstamped THEN 0 ELSE stamp[i]]
<1>1. page[p] \in Nat /\ stamp \in [Ids -> Versions]
  BY DEF TypeOK
<1>2. PageIds(p, page[p]) \subseteq Ids
  BY <1>1, PagesAre
<1>3. ASSUME NEW i \in Ids
      PROVE  /\ ref(i) \in Refs /\ ref(i).id = i
             /\ ref(i).stamp = 0 => i \in Unstamped
             /\ ref(i).stamp = 1 => stamp[i] = 1
  <2>1. stamp[i] \in {1, 2}
    BY <1>1 DEF Versions
  <2> QED BY <2>1 DEF Refs, Stamps, Versions
<1>4. PageRefs(p) = {ref(i) : i \in PageIds(p, page[p])}
  BY DEF PageRefs
<1> HIDE DEF ref
<1>5. RefIds(PageRefs(p)) = PageIds(p, page[p])
  BY <1>2, <1>3, <1>4 DEF RefIds
<1>6. PageRefs(p) \subseteq Refs
  BY <1>2, <1>3, <1>4
<1>7. DatesInv => Fresh(PageRefs(p), now)
  BY <1>2, <1>3, <1>4 DEF Fresh, DatesInv
<1> QED BY <1>5, <1>6, <1>7

\* A request gives each purl it is answered for its next page, and finishes the
\* purls that have no page left or no answer.
LEMMA PostIs ==
  ASSUME TypeOK, NEW n \in 0..Len(Open), Post(n)
  PROVE  /\ Asked(n) \subseteq ToSet(Open)
         /\ n = Len(Open) => Asked(n) = ToSet(Open)
         /\ collected' = [p \in Purls |-> IF p \in Asked(n) THEN collected[p] \cup PageRefs(p)
                                                            ELSE collected[p]]
         /\ page' = [p \in Purls |-> IF p \in Asked(n) /\ page[p] < LastPage(p)
                                     THEN page[p] + 1 ELSE page[p]]
         /\ done' = done \cup {p \in ToSet(Open) : p \in Asked(n) => ~ (page[p] < LastPage(p))}
<1>1. Open \in Seq(Purls) /\ Len(Open) \in Nat /\ ToSet(Open) = {Open[j] : j \in 1..Len(Open)}
      /\ ToSet(Open) \subseteq Purls
  BY OpenIs, MembersOf
<1>2. Asked(n) \subseteq ToSet(Open) /\ (n = Len(Open) => Asked(n) = ToSet(Open))
  BY <1>1 DEF Asked
<1>3. Results(n) = {<<p, p>> : p \in Asked(n)}
  BY DEF Results, Target, Asked
<1> DEFINE ref(i) == [id |-> i, stamp |-> IF i \in Unstamped THEN 0 ELSE stamp[i]]
           asked(p) == UNION {PageIds(r[2], page[r[2]]) : r \in {x \in Results(n) : x[1] = p}}
           more == {r[1] : r \in {x \in Results(n) : page[x[2]] < LastPage(x[2])}}
<1>4. ASSUME NEW p \in Purls
      PROVE  asked(p) = IF p \in Asked(n) THEN PageIds(p, page[p]) ELSE {}
  <2>1. {x \in Results(n) : x[1] = p} = IF p \in Asked(n) THEN {<<p, p>>} ELSE {}
    BY <1>3
  <2>2. CASE p \in Asked(n)
    <3>1. {PageIds(r[2], page[r[2]]) : r \in {<<p, p>>}} = {PageIds(p, page[p])}
      OBVIOUS
    <3> QED BY <2>1, <2>2, <3>1
  <2>3. CASE p \notin Asked(n)
    BY <2>1, <2>3
  <2> QED BY <2>2, <2>3
<1>5. more = {p \in Asked(n) : page[p] < LastPage(p)}
  <2>1. {x \in Results(n) : page[x[2]] < LastPage(x[2])}
          = {<<p, p>> : p \in {q \in Asked(n) : page[q] < LastPage(q)}}
    BY <1>3
  <2>2. \A Q : {r[1] : r \in {<<p, p>> : p \in Q}} = Q
    <3> SUFFICES ASSUME NEW Q PROVE {r[1] : r \in {<<p, p>> : p \in Q}} = Q
      OBVIOUS
    <3>1. \A p \in Q : <<p, p>> \in {<<q, q>> : q \in Q} /\ <<p, p>>[1] = p
      OBVIOUS
    <3>2. ASSUME NEW x PROVE x \in {r[1] : r \in {<<p, p>> : p \in Q}} <=> x \in Q
      <4>1. x \in {r[1] : r \in {<<p, p>> : p \in Q}} <=> \E p \in Q : x = <<p, p>>[1]
        BY Zenon
      <4> QED BY <3>1, <4>1, Zenon
    <3> QED BY <3>2, Zenon
  <2> QED BY <2>1, <2>2
<1>6. /\ collected' = [p \in Purls |-> collected[p] \cup {ref(i) : i \in asked(p)}]
      /\ page' = [p \in Purls |-> IF p \in more THEN page[p] + 1 ELSE page[p]]
      /\ done' = done \cup (ToSet(Open) \ more)
  BY Zenon DEF Post
<1> HIDE DEF asked, more
<1>7. ASSUME NEW p \in Purls
      PROVE  collected[p] \cup {ref(i) : i \in asked(p)}
               = IF p \in Asked(n) THEN collected[p] \cup PageRefs(p) ELSE collected[p]
  <2>1. PageRefs(p) = {ref(i) : i \in PageIds(p, page[p])}
    BY DEF PageRefs
  <2> HIDE DEF ref
  <2>2. CASE p \in Asked(n)
    BY <1>4, <2>1, <2>2
  <2>3. CASE p \notin Asked(n)
    BY <1>4, <2>3
  <2> QED BY <2>2, <2>3
<1> HIDE DEF ref
<1>8. collected' = [p \in Purls |-> IF p \in Asked(n) THEN collected[p] \cup PageRefs(p)
                                                      ELSE collected[p]]
  BY <1>6, <1>7
<1> QED BY <1>2, <1>5, <1>6, <1>8

\* The purls whose answer is still to come.
Waiting == ToSet(pending) \cup (IF pc = "post" THEN ToSet(chunk) ELSE ToSet(toStore))

\* Where the run is in its chunk, and that it has answers for the purls behind it.
PlaceInv ==
  /\ pc \notin {"post", "store", "failed"} =>
       chunk = <<>> /\ done = {} /\ \A p \in Purls : page[p] = 0 /\ collected[p] = {}
  /\ pc # "store" => toStore = <<>>
  /\ pc = "store" => ToSet(chunk) \subseteq done /\ ToSet(toStore) \subseteq ToSet(chunk)
  /\ pc \in {"records", "done"} => Waiting = {}
  /\ pc \notin {"idle", "failed"} => \A p \in Purls \ Waiting : out[p] \in SUBSET Refs

\* What a new run starts with.
LEMMA ForgetIs ==
  ASSUME Forget
  PROVE  /\ offline' \in BOOLEAN /\ policy' \in {"default", "refresh", "noCache"}
         /\ now' \in Nat /\ out' \in [Purls -> {None} \cup SUBSET Refs]
         /\ unanswered' \subseteq Purls
         /\ pending' = <<>> /\ chunk' = <<>> /\ toStore' = <<>> /\ <<>> \in Seq(Purls)
         /\ page' \in [Purls -> Nat] /\ \A p \in Purls : page'[p] = 0
         /\ done' = {} /\ toFetch' = {} /\ turn' \in BOOLEAN
         /\ collected' \in [Purls -> SUBSET Refs] /\ \A p \in Purls : collected'[p] = {}
         /\ record' \in [Ids -> {None} \cup Versions] /\ \A i \in Ids : record'[i] = None
         /\ pc' = "idle" /\ UNCHANGED <<clock, stamp, changed, shorted>>
<1>1. out' \in [Purls -> {None} \cup SUBSET Refs]
  BY DEF Forget
<1>2. page' \in [Purls -> Nat] /\ \A p \in Purls : page'[p] = 0
  BY DEF Forget
<1>3. collected' \in [Purls -> SUBSET Refs] /\ \A p \in Purls : collected'[p] = {}
  BY DEF Forget
<1>4. record' \in [Ids -> {None} \cup Versions] /\ \A i \in Ids : record'[i] = None
  BY DEF Forget
<1>5. /\ offline' = FALSE /\ policy' = "default" /\ now' = 0 /\ unanswered' = {}
      /\ pending' = <<>> /\ chunk' = <<>> /\ toStore' = <<>> /\ done' = {} /\ toFetch' = {}
      /\ turn' = FALSE /\ pc' = "idle" /\ UNCHANGED <<clock, stamp, changed, shorted>>
  BY DEF Forget, world
<1>6. /\ offline' \in BOOLEAN /\ policy' \in {"default", "refresh", "noCache"}
      /\ unanswered' \subseteq Purls /\ turn' \in BOOLEAN
  BY <1>5, Zenon
<1>7. now' \in Nat /\ <<>> \in Seq(Purls)
  <2>1. 0 \in Nat /\ <<>> \in Seq(Purls)
    OBVIOUS
  <2> QED BY <1>5, <2>1, Zenon
<1> QED BY <1>1, <1>2, <1>3, <1>4, <1>5, <1>6, <1>7, Zenon

\* A step keeps the types: what is indexed by the page or the chunk is within it.
LEMMA TypeStep == ASSUME TypeOK, PlaceInv, [Next]_vars PROVE TypeOK'
<1> USE DEF world, cache, setup, asking, vars
<1>1. CASE UNCHANGED vars
  BY <1>1 DEF TypeOK
<1>2. CASE Start
  <2>1. ASSUME NEW p \in Purls, Cached(p)
        PROVE  queries[CacheName[p]].refs \in SUBSET Refs
    BY <2>1 DEF TypeOK, Cached, Files, Answers
  <2>2. out' \in [Purls -> {None} \cup SUBSET Refs]
    <3>1. out' = [p \in Purls |->
                    IF Cached(p) THEN queries[CacheName[p]].refs
                    ELSE IF offline' THEN {} ELSE None]
      BY <1>2 DEF Start
    <3>2. ASSUME NEW p \in Purls
          PROVE  (IF Cached(p) THEN queries[CacheName[p]].refs
                  ELSE IF offline' THEN {} ELSE None) \in {None} \cup SUBSET Refs
      BY <2>1
    <3> QED BY <3>1, <3>2, Zenon
  <2>3. pending' \in Seq(Purls)
    BY <1>2, OsvAssumption, ThoseAre DEF Start
  <2>4. /\ pc' = "query" /\ offline' \in BOOLEAN
        /\ policy' \in {"default", "refresh", "noCache"} /\ now' = clock
        /\ unanswered' \subseteq Purls
        /\ UNCHANGED <<world, cache, chunk, asking, toStore, record, toFetch, turn, shorted>>
    BY <1>2 DEF Start
  <2> QED BY <2>2, <2>3, <2>4 DEF TypeOK
<1>3. CASE NextChunk
  <2>1. PICK n \in 0..Len(pending) : chunk' = SubSeq(pending, 1, n)
                                     /\ pending' = SubSeq(pending, n + 1, Len(pending))
    <3>1. Len(pending) \in Nat /\ BatchSize \in Nat
      BY OsvAssumption DEF TypeOK
    <3>2. Min2(BatchSize, Len(pending)) \in 0..Len(pending)
      BY <3>1 DEF Min2
    <3> QED BY <1>3, <3>2 DEF NextChunk
  <2>2. chunk' \in Seq(Purls) /\ pending' \in Seq(Purls)
    BY <2>1, CutInTwo DEF TypeOK
  <2> QED BY <1>3, <2>2 DEF TypeOK, NextChunk
<1>4. ASSUME NEW n \in 0..Len(Open), Post(n) PROVE TypeOK'
  <2>1. collected' \in [Purls -> SUBSET Refs]
    <3>1. collected' = [p \in Purls |-> IF p \in Asked(n) THEN collected[p] \cup PageRefs(p)
                                                         ELSE collected[p]]
      BY <1>4, PostIs
    <3>2. \A p \in Purls : PageRefs(p) \subseteq Refs /\ collected[p] \subseteq Refs
      BY PageRefsAre DEF TypeOK
    <3> QED BY <3>1, <3>2
  <2>2. page' \in [Purls -> Nat]
    <3>1. \A p \in Purls : page[p] \in Nat /\ page[p] + 1 \in Nat
      BY DEF TypeOK
    <3>2. page' = [p \in Purls |-> IF p \in Asked(n) /\ page[p] < LastPage(p)
                                   THEN page[p] + 1 ELSE page[p]]
      BY <1>4, PostIs
    <3> QED BY <3>1, <3>2, Zenon
  <2>3. done' \subseteq Purls
    BY <1>4, PostIs, OpenIs, MembersOf DEF TypeOK
  <2>4. toStore' \in Seq(Purls) /\ pc' \in {"store", "post"} /\ shorted' \in BOOLEAN
        /\ turn' \in BOOLEAN
    BY <1>4 DEF Post, TypeOK
  <2> QED BY <1>4, <2>1, <2>2, <2>3, <2>4 DEF Post, TypeOK
<1>5. CASE PostFails
  BY <1>5 DEF PostFails, TypeOK
<1>6. CASE StoreQuery
  <2>1. Head(toStore) \in Purls /\ toStore' \in Seq(Purls)
    BY <1>6, MembersOf DEF StoreQuery, TypeOK
  <2>2. collected[Head(toStore)] \in SUBSET Refs
    BY <2>1 DEF TypeOK
  <2>3. [purl |-> Head(toStore), at |-> now, refs |-> collected[Head(toStore)]] \in Answers
    BY <2>1, <2>2 DEF TypeOK, Answers
  <2>4. queries' \in [Files -> {None} \cup Answers]
    BY <1>6, <2>3 DEF StoreQuery, TypeOK
  <2>5. out' \in [Purls -> {None} \cup SUBSET Refs]
    BY <1>6, <2>2 DEF StoreQuery, TypeOK
  <2> QED BY <1>6, <2>1, <2>4, <2>5 DEF StoreQuery, TypeOK
<1>7. CASE ChunkStored
  BY <1>7 DEF ChunkStored, TypeOK
<1>8. CASE QueryDone
  <2>1. ASSUME NEW p \in Purls PROVE RefIds(out[p]) \subseteq Ids
    <3>1. Waiting = {}
      BY <1>8, MembersOf DEF QueryDone, Waiting, PlaceInv, TypeOK
    <3>2. out[p] \in SUBSET Refs
      BY <1>8, <3>1 DEF QueryDone, PlaceInv
    <3> QED BY <3>2 DEF RefIds, Refs
  <2>2. toFetch' \subseteq Ids
    BY <1>8, <2>1 DEF QueryDone
  <2> QED BY <1>8, <2>2 DEF QueryDone, TypeOK
<1>9. ASSUME NEW i \in Ids, RecordStep(i) PROVE TypeOK'
  <2>1. CASE RecordCached(i)
    BY <2>1 DEF RecordCached, CachedRecord, TypeOK
  <2>2. CASE RecordFetched(i)
    BY <2>2 DEF RecordFetched, TypeOK
  <2>3. CASE RecordMissing(i)
    BY <2>3 DEF RecordMissing, TypeOK
  <2> QED BY <1>9, <2>1, <2>2, <2>3 DEF RecordStep
<1>10. CASE RecordsDone
  BY <1>10 DEF RecordsDone, TypeOK
<1>11. CASE Finish
  <2>1. Forget /\ queries' = queries /\ records' = records
    BY <1>11 DEF Finish
  <2> QED BY <2>1, ForgetIs DEF TypeOK
<1>12. CASE Kill
  <2>1. queries' \in [Files -> {None} \cup Answers]
    BY <1>12 DEF Kill, TypeOK
  <2>2. records' \in [Ids -> {None} \cup Versions]
    BY <1>12 DEF Kill, TypeOK
  <2>3. Forget
    BY <1>12 DEF Kill
  <2> QED BY <2>1, <2>2, <2>3, ForgetIs DEF TypeOK
<1>13. CASE Tick
  BY <1>13 DEF Tick, TypeOK
<1>14. ASSUME NEW i \in Ids, Modify(i) PROVE TypeOK'
  BY <1>14 DEF Modify, TypeOK, Versions
<1> QED BY <1>1, <1>2, <1>3, <1>4, <1>5, <1>6, <1>7, <1>8, <1>9, <1>10, <1>11, <1>12,
           <1>13, <1>14 DEF Next, Work

\* The purls whose answer is to come stay the same but for those that get theirs.
LEMMA WaitingIs ==
  ASSUME TypeOK, PlaceInv
  PROVE  /\ Start => Waiting' = {p \in Purls : ~Cached(p) /\ ~offline'}
         /\ NextChunk => Waiting' = Waiting
         /\ \A n \in 0..Len(Open) : Post(n) => Waiting' = Waiting
         /\ StoreQuery => /\ Head(toStore) \in ToSet(chunk)
                          /\ ToSet(toStore') \subseteq ToSet(toStore)
                          /\ Waiting \subseteq Waiting' \cup {Head(toStore)}
         /\ ChunkStored => Waiting' = Waiting
         /\ QueryDone => Waiting' = {} /\ Waiting = {}
<1>1. pending \in Seq(Purls) /\ chunk \in Seq(Purls) /\ toStore \in Seq(Purls)
  BY DEF TypeOK
<1>2. ToSet(<<>>) = {}
  <2>1. <<>> \in Seq(Purls)
    OBVIOUS
  <2> QED BY <2>1, MembersOf
<1>3. ASSUME Start PROVE Waiting' = {p \in Purls : ~Cached(p) /\ ~offline'}
  <2> DEFINE S == {p \in Purls : ~Cached(p) /\ ~offline'}
  <2>1. pending' = Those(PurlOrder, S) /\ pc' = "query" /\ toStore' = <<>>
    BY <1>3 DEF Start, PlaceInv
  <2>2. S \subseteq Purls
    OBVIOUS
  <2> HIDE DEF S
  <2>3. ToSet(pending') = S
    <3>1. ToSet(PurlOrder) = Purls
      BY DEF Purls
    <3>2. PurlOrder \in Seq(Purls)
      BY OsvAssumption
    <3>3. ToSet(Those(PurlOrder, S)) = ToSet(PurlOrder) \cap S
      BY <3>2, ThoseAre
    <3> QED BY <2>1, <2>2, <3>1, <3>3
  <2>4. Waiting' = S
    BY <1>2, <2>1, <2>3 DEF Waiting
  <2> QED BY <2>4 DEF S
<1>4. ASSUME NextChunk PROVE Waiting' = Waiting
  <2>1. PICK n \in 0..Len(pending) : chunk' = SubSeq(pending, 1, n)
                                     /\ pending' = SubSeq(pending, n + 1, Len(pending))
    <3>1. Len(pending) \in Nat /\ BatchSize \in Nat
      BY <1>1, OsvAssumption
    <3>2. Min2(BatchSize, Len(pending)) \in 0..Len(pending)
      BY <3>1 DEF Min2
    <3> QED BY <1>4, <3>2 DEF NextChunk
  <2>2. ToSet(pending) = ToSet(chunk') \cup ToSet(pending')
    BY <1>1, <2>1, CutInTwo
  <2>3. toStore = <<>> /\ pc = "query" /\ pc' = "post"
    BY <1>4 DEF NextChunk, PlaceInv
  <2> QED BY <1>2, <2>2, <2>3 DEF Waiting
<1>5. ASSUME NEW n \in 0..Len(Open), Post(n) PROVE Waiting' = Waiting
  <2>1. /\ pc = "post" /\ chunk' = chunk /\ pending' = pending /\ pc' \in {"post", "store"}
        /\ pc' = "store" => toStore' = chunk
    BY <1>5 DEF Post
  <2> QED BY <2>1 DEF Waiting
<1>6. ASSUME StoreQuery
      PROVE  /\ Head(toStore) \in ToSet(chunk)
             /\ ToSet(toStore') \subseteq ToSet(toStore)
             /\ Waiting \subseteq Waiting' \cup {Head(toStore)}
  <2>1. /\ pc = "store" /\ pc' = "store" /\ toStore # <<>> /\ toStore' = Tail(toStore)
        /\ pending' = pending
    BY <1>6 DEF StoreQuery
  <2>2. Head(toStore) \in ToSet(toStore) /\ ToSet(toStore) = {Head(toStore)} \cup ToSet(toStore')
    BY <1>1, <2>1, MembersOf
  <2>3. Waiting = ToSet(pending) \cup ToSet(toStore)
        /\ Waiting' = ToSet(pending) \cup ToSet(toStore')
    BY <2>1 DEF Waiting
  <2> QED BY <2>1, <2>2, <2>3 DEF PlaceInv
<1>7. ASSUME ChunkStored PROVE Waiting' = Waiting
  BY <1>7 DEF ChunkStored, Waiting
<1>8. ASSUME QueryDone PROVE Waiting' = {} /\ Waiting = {}
  <2>1. /\ pc = "query" /\ pc' = "records" /\ pending = <<>> /\ pending' = <<>>
        /\ toStore = <<>> /\ toStore' = <<>>
    BY <1>8 DEF QueryDone, PlaceInv
  <2> QED BY <1>2, <2>1 DEF Waiting
<1> QED BY <1>3, <1>4, <1>5, <1>6, <1>7, <1>8

\* A step keeps what each place in the lookup promises.
LEMMA PlaceStep == ASSUME TypeOK, PlaceInv, [Next]_vars PROVE PlaceInv'
<1> USE DEF world, cache, setup, asking, vars
<1>0. ASSUME UNCHANGED <<pending, chunk, toStore, done, page, collected, out>>,
             \/ pc' = pc
             \/ pc \in {"post", "store"} /\ pc' = "failed" /\ toStore = <<>>
             \/ pc = "records" /\ pc' = "done"
      PROVE  PlaceInv'
  BY <1>0 DEF PlaceInv, Waiting
<1>1. CASE UNCHANGED vars
  BY <1>1, <1>0
<1>2. CASE Start
  <2>1. ASSUME NEW p \in Purls \ Waiting' PROVE out'[p] \in SUBSET Refs
    <3>1. Cached(p) \/ offline'
      BY <1>2, <2>1, WaitingIs
    <3>2. out'[p] = IF Cached(p) THEN queries[CacheName[p]].refs ELSE {}
      BY <1>2, <3>1 DEF Start
    <3>3. Cached(p) => queries[CacheName[p]].refs \in SUBSET Refs
      BY DEF TypeOK, Cached, Files, Answers
    <3> QED BY <3>2, <3>3
  <2>2. pc = "idle" /\ pc' = "query" /\ UNCHANGED <<chunk, page, done, collected, toStore>>
    BY <1>2 DEF Start
  <2> QED BY <2>1, <2>2 DEF PlaceInv
<1>3. CASE NextChunk
  <2>1. Waiting' = Waiting
    BY <1>3, WaitingIs
  <2>2. pc = "query" /\ pc' = "post" /\ toStore' = toStore /\ out' = out
    BY <1>3 DEF NextChunk
  <2> QED BY <2>1, <2>2 DEF PlaceInv
<1>4. ASSUME NEW n \in 0..Len(Open), Post(n) PROVE PlaceInv'
  <2>1. Waiting' = Waiting
    BY <1>4, WaitingIs
  <2>2. /\ pc = "post" /\ pc' = (IF ToSet(chunk) \subseteq done' THEN "store" ELSE "post")
        /\ toStore' = (IF pc' = "store" THEN chunk ELSE <<>>) /\ out' = out /\ chunk' = chunk
    BY <1>4 DEF Post
  <2> QED BY <2>1, <2>2 DEF PlaceInv
<1>5. CASE PostFails
  BY <1>0, <1>5 DEF PostFails, PlaceInv
<1>6. CASE StoreQuery
  <2>1. /\ Head(toStore) \in ToSet(chunk) /\ ToSet(toStore') \subseteq ToSet(toStore)
        /\ Waiting \subseteq Waiting' \cup {Head(toStore)}
    BY <1>6, WaitingIs
  <2>2. /\ pc = "store" /\ pc' = "store" /\ UNCHANGED <<chunk, done>>
        /\ out' = [out EXCEPT ![Head(toStore)] = collected[Head(toStore)]]
    BY <1>6 DEF StoreQuery
  <2>3. ASSUME NEW p \in Purls \ Waiting' PROVE out'[p] \in SUBSET Refs
    BY <2>1, <2>2 DEF PlaceInv, TypeOK
  <2> QED BY <2>1, <2>2, <2>3 DEF PlaceInv
<1>7. CASE ChunkStored
  <2>1. Waiting' = Waiting
    BY <1>7, WaitingIs
  <2>2. /\ pc = "store" /\ pc' = "query" /\ chunk' = <<>> /\ done' = {} /\ toStore' = <<>>
        /\ out' = out /\ \A p \in Purls : page'[p] = 0 /\ collected'[p] = {}
    BY <1>7 DEF ChunkStored
  <2> QED BY <2>1, <2>2 DEF PlaceInv
<1>8. CASE QueryDone
  <2>1. Waiting' = {} /\ Waiting = {}
    BY <1>8, WaitingIs
  <2>2. /\ pc = "query" /\ pc' = "records"
        /\ UNCHANGED <<chunk, done, page, collected, toStore, out>>
    BY <1>8 DEF QueryDone
  <2> QED BY <2>1, <2>2 DEF PlaceInv
<1>9. ASSUME NEW i \in Ids, RecordStep(i) PROVE PlaceInv'
  BY <1>0, <1>9 DEF RecordStep, RecordCached, RecordFetched, RecordMissing
<1>10. CASE RecordsDone
  BY <1>0, <1>10 DEF RecordsDone
<1>11. ASSUME Forget PROVE PlaceInv'
  BY <1>11, ForgetIs DEF PlaceInv
<1>12. CASE Tick
  BY <1>0, <1>12 DEF Tick
<1>13. ASSUME NEW i \in Ids, Modify(i) PROVE PlaceInv'
  BY <1>0, <1>13 DEF Modify
<1> QED BY <1>1, <1>2, <1>3, <1>4, <1>5, <1>6, <1>7, <1>8, <1>9, <1>10, <1>11, <1>12,
           <1>13 DEF Next, Work, Finish, Kill

\* A lookup keeps its types and its place.
LEMMA TypeInit == Init => TypeOK /\ PlaceInv
<1> SUFFICES ASSUME Init PROVE TypeOK /\ PlaceInv
  OBVIOUS
<1>1. /\ out \in [Purls -> {None} \cup SUBSET Refs] /\ page \in [Purls -> Nat]
      /\ collected \in [Purls -> SUBSET Refs] /\ record \in [Ids -> {None} \cup Versions]
      /\ stamp \in [Ids -> Versions] /\ changed \in [Ids -> {None} \cup Nat]
      /\ queries \in [Files -> {None} \cup Answers]
      /\ records \in [Ids -> {None} \cup Versions]
  BY DEF Init, Idle, Versions
<1>2. offline \in BOOLEAN /\ turn \in BOOLEAN /\ shorted \in BOOLEAN
  BY Zenon DEF Init, Idle
<1>3. /\ clock = 0 /\ now = 0 /\ pc = "idle" /\ policy = "default" /\ unanswered = {}
      /\ done = {} /\ toFetch = {} /\ pending = <<>> /\ chunk = <<>> /\ toStore = <<>>
      /\ \A p \in Purls : page[p] = 0 /\ collected[p] = {}
  BY DEF Init, Idle
<1>4. TypeOK
  BY <1>1, <1>2, <1>3 DEF TypeOK
<1>5. PlaceInv
  BY <1>3 DEF PlaceInv
<1> QED BY <1>4, <1>5

\* Whatever OSV answers, the answers and the records are refs and versions of its
\* advisories, and every purl behind the run has an answer: no lookup reads one
\* that is not there.
THEOREM PlaceHolds == Spec => [](TypeOK /\ PlaceInv)
<1>1. TypeOK /\ PlaceInv /\ [Next]_vars => (TypeOK /\ PlaceInv)'
  BY TypeStep, PlaceStep
<1> QED BY <1>1, TypeInit, PTL DEF Spec

-----------------------------------------------------------------------------
(* The answers. *)

\* Refs that are of a purl, and all of them unless OSV gave too few answers.
Own(p, refs) == RefIds(refs) \subseteq Known(p)
Whole(p, refs) == Known(p) \subseteq RefIds(refs) \/ shorted

\* The pages before the next one have been collected.
PagesInv ==
  \A p \in Purls :
    /\ page[p] <= LastPage(p)
    /\ Own(p, collected[p])
    /\ p \in done => Whole(p, collected[p])
    /\ \A x \in 1..Len(Advisories[p]) :
         x <= page[p] * PageSize => Advisories[p][x] \in RefIds(collected[p]) \/ shorted

\* The cache files hold the answers for the purls they name.
FilesInv ==
  \A f \in Files : queries[f] # None =>
    /\ CacheName[queries[f].purl] = f
    /\ Own(queries[f].purl, queries[f].refs)
    /\ Whole(queries[f].purl, queries[f].refs)

AnswersInv ==
  pc \notin {"idle", "failed"} =>
    \A p \in Purls \ Waiting :
      /\ Own(p, out[p])
      /\ Whole(p, out[p]) \/ p \in unanswered

\* Once OSV was short it stays so.
LEMMA ShortedStays == ASSUME [Next]_vars, shorted PROVE shorted'
BY DEF Next, Work, Start, NextChunk, Post, PostFails, StoreQuery, ChunkStored, QueryDone,
       RecordStep, RecordCached, RecordFetched, RecordMissing, RecordsDone, Finish, Kill,
       Forget, Tick, Modify, vars, world

\* A request keeps the pages of each purl, the last of which finishes it.
LEMMA PostKeepsPages ==
  ASSUME TypeOK, PlaceInv, PagesInv, NEW n \in 0..Len(Open), Post(n)
  PROVE  PagesInv'
<1>1. shorted => shorted'
  BY DEF Post
<1> SUFFICES ASSUME NEW p \in Purls
    PROVE  /\ page'[p] <= LastPage(p)
           /\ Own(p, collected'[p])
           /\ p \in done' => Known(p) \subseteq RefIds(collected'[p]) \/ shorted'
           /\ \A x \in 1..Len(Advisories[p]) :
                x <= page'[p] * PageSize =>
                  Advisories[p][x] \in RefIds(collected'[p]) \/ shorted'
  BY DEF PagesInv, Whole
<1> DEFINE a == Advisories[p]
           k == page[p]
<1>2. /\ a \in Seq(Ids) /\ k \in Nat /\ k <= LastPage(p) /\ PageSize \in Nat \ {0}
      /\ Known(p) = {a[x] : x \in 1..Len(a)}
  BY OsvAssumption, MembersOf DEF TypeOK, PagesInv, Known
<1>3. /\ Own(p, collected[p]) /\ (p \in done => Whole(p, collected[p]))
      /\ \A x \in 1..Len(a) : x <= k * PageSize => a[x] \in RefIds(collected[p]) \/ shorted
  BY DEF PagesInv
<1>4. CASE p \in Asked(n)
  <2>1. /\ p \notin done /\ collected'[p] = collected[p] \cup PageRefs(p)
        /\ page'[p] = (IF k < LastPage(p) THEN k + 1 ELSE k)
        /\ p \in done' => ~ (k < LastPage(p))
    BY <1>4, PostIs, OpenIs
  <2>2. RefIds(collected'[p]) = RefIds(collected[p]) \cup PageIds(p, k)
    BY <2>1, PageRefsAre DEF RefIds
  <2>3. /\ LastPage(p) \in Nat /\ Len(a) <= (LastPage(p) + 1) * PageSize
        /\ PageIds(p, k) \subseteq Known(p)
        /\ \A x \in 1..Len(a) : k * PageSize < x /\ x <= (k + 1) * PageSize => a[x] \in PageIds(p, k)
    BY <1>2, PagesAre
  <2>4. Own(p, collected'[p])
    BY <1>3, <2>2, <2>3 DEF Own
  <2>5. ASSUME NEW x \in 1..Len(a), x <= (k + 1) * PageSize
        PROVE  a[x] \in RefIds(collected'[p]) \/ shorted'
    <3>1. k * PageSize \in Nat /\ x \in Nat
      BY <1>2
    <3>2. CASE x <= k * PageSize
      BY <1>1, <1>3, <2>2, <3>2
    <3>3. CASE k * PageSize < x
      BY <2>2, <2>3, <2>5, <3>3
    <3> QED BY <3>1, <3>2, <3>3
  <2>6. ASSUME p \in done' PROVE Known(p) \subseteq RefIds(collected'[p]) \/ shorted'
    <3>1. LastPage(p) = k
      BY <1>2, <2>1, <2>3, <2>6
    <3>2. (k + 1) * PageSize \in Nat /\ Len(a) \in Nat
      BY <1>2
    <3>3. \A x \in 1..Len(a) : x <= (k + 1) * PageSize
      BY <2>3, <3>1, <3>2
    <3> QED BY <1>2, <2>5, <3>3
  <2>7. ASSUME NEW x \in 1..Len(a), x <= page'[p] * PageSize
        PROVE  a[x] \in RefIds(collected'[p]) \/ shorted'
    <3>1. CASE k < LastPage(p)
      BY <2>1, <2>5, <2>7, <3>1
    <3>2. CASE ~ (k < LastPage(p))
      BY <1>1, <1>3, <2>1, <2>2, <2>7, <3>2
    <3> QED BY <3>1, <3>2
  <2>8. page'[p] <= LastPage(p)
    BY <1>2, <2>1, <2>3
  <2> QED BY <2>4, <2>6, <2>7, <2>8
<1>5. CASE p \notin Asked(n)
  <2>1. collected'[p] = collected[p] /\ page'[p] = k
    BY <1>5, PostIs
  <2>2. ASSUME p \in done', p \notin done PROVE shorted'
    <3>1. n # Len(Open)
      BY <1>5, <2>2, PostIs
    <3>2. n < Len(Open)
      BY <3>1, OpenIs
    <3> QED BY <3>2, Zenon DEF Post
  <2> QED BY <1>1, <1>2, <1>3, <2>1, <2>2 DEF Whole
<1> QED BY <1>4, <1>5

\* A step keeps the pages collected so far together with their number.
LEMMA PagesStep == ASSUME TypeOK, PlaceInv, PagesInv, [Next]_vars PROVE PagesInv'
<1> USE DEF world, cache, setup, asking, vars
<1>1. ASSUME UNCHANGED <<page, done, collected>> PROVE PagesInv'
  <2>1. shorted => shorted'
    BY ShortedStays
  <2> QED BY <1>1, <2>1 DEF PagesInv, Whole
<1>2. ASSUME done' = {}, \A p \in Purls : page'[p] = 0 /\ collected'[p] = {} PROVE PagesInv'
  <2>1. ASSUME NEW p \in Purls
        PROVE  /\ page'[p] <= LastPage(p) /\ Own(p, collected'[p]) /\ p \notin done'
               /\ \A x \in 1..Len(Advisories[p]) : ~ (x <= page'[p] * PageSize)
    <3>1. Len(Advisories[p]) \in Nat /\ PageSize \in Nat /\ LastPage(p) \in Nat
      BY OsvAssumption, PagesAre
    <3>2. page'[p] * PageSize = 0
      BY <1>2, <3>1
    <3>3. Own(p, collected'[p])
      BY <1>2 DEF Own, RefIds
    <3> QED BY <1>2, <3>1, <3>2, <3>3
  <2> QED BY <2>1 DEF PagesInv
<1>3. ASSUME Forget PROVE PagesInv'
  BY <1>2, <1>3, ForgetIs
<1>4. CASE ChunkStored
  <2>1. done' = {} /\ \A p \in Purls : page'[p] = 0 /\ collected'[p] = {}
    BY <1>4 DEF ChunkStored
  <2> QED BY <1>2, <2>1
<1>5. ASSUME Start \/ NextChunk \/ PostFails \/ StoreQuery \/ QueryDone \/ RecordsDone \/ Tick
             \/ (\E i \in Ids : RecordStep(i) \/ Modify(i)) \/ UNCHANGED vars
      PROVE  PagesInv'
  BY <1>1, <1>5 DEF Start, NextChunk, PostFails, StoreQuery, QueryDone, RecordStep, RecordCached,
     RecordFetched, RecordMissing, RecordsDone, Tick, Modify
<1> QED BY <1>3, <1>4, <1>5, PostKeepsPages DEF Next, Work, Finish, Kill

\* The answer that is stored is of the purl it is stored for.
LEMMA FilesStep ==
  ASSUME TypeOK, PlaceInv, PagesInv, FilesInv, [Next]_vars PROVE FilesInv'
<1> USE DEF world, cache, setup, asking, vars
<1>1. shorted => shorted'
  BY ShortedStays
<1>2. ASSUME \A f \in Files : queries'[f] \in {None, queries[f]} PROVE FilesInv'
  BY <1>1, <1>2 DEF FilesInv, Whole
<1>3. CASE StoreQuery
  <2> DEFINE p == Head(toStore)
             answer == [purl |-> p, at |-> now, refs |-> collected[p]]
  <2>1. p \in Purls /\ p \in done
    <3>1. Head(toStore) \in ToSet(chunk) /\ pc = "store" /\ ToSet(chunk) \subseteq Purls
      BY <1>3, WaitingIs, MembersOf DEF StoreQuery, TypeOK
    <3> QED BY <3>1 DEF PlaceInv
  <2>2. Own(p, collected[p]) /\ Whole(p, collected[p])
    BY <2>1 DEF PagesInv
  <2>3. queries' \in {queries, [queries EXCEPT ![CacheName[p]] = answer]}
    BY <1>3 DEF StoreQuery
  <2>4. answer.purl = p /\ answer.refs = collected[p]
    OBVIOUS
  <2> HIDE DEF answer, p
  <2>5. ASSUME NEW f \in Files
        PROVE  queries'[f] = queries[f] \/ (f = CacheName[p] /\ queries'[f] = answer)
    BY <2>3 DEF TypeOK
  <2> QED BY <1>1, <2>2, <2>4, <2>5 DEF FilesInv, Whole
<1>4. CASE Kill
  <2>1. \A f \in Files : queries'[f] \in {None, queries[f]}
    BY <1>4 DEF Kill, TypeOK
  <2> QED BY <1>2, <2>1
<1>5. ASSUME UNCHANGED queries PROVE FilesInv'
  BY <1>2, <1>5
<1>6. ASSUME Start \/ NextChunk \/ (\E n \in 0..Len(Open) : Post(n)) \/ PostFails \/ ChunkStored
             \/ QueryDone \/ RecordsDone \/ Finish \/ Tick
             \/ (\E i \in Ids : RecordStep(i) \/ Modify(i)) \/ UNCHANGED vars
      PROVE  FilesInv'
  BY <1>5, <1>6 DEF Start, NextChunk, Post, PostFails, ChunkStored, QueryDone, RecordStep,
     RecordCached, RecordFetched, RecordMissing, RecordsDone, Finish, Tick, Modify
<1> QED BY <1>3, <1>4, <1>6 DEF Next, Work

\* The answer that is read is of the purl it is read for.
LEMMA AnswersStep ==
  ASSUME NamesApart, TypeOK, PlaceInv, PagesInv, FilesInv, AnswersInv, [Next]_vars
  PROVE  AnswersInv'
<1> USE DEF world, cache, setup, asking, vars
<1>1. shorted => shorted'
  BY ShortedStays
<1>2. ASSUME pc \notin {"idle", "failed"}, UNCHANGED <<out, unanswered>>, Waiting' = Waiting
      PROVE  AnswersInv'
  BY <1>1, <1>2 DEF AnswersInv, Whole
<1>3. ASSUME pc' \in {"idle", "failed"} PROVE AnswersInv'
  BY <1>3 DEF AnswersInv
<1>4. ASSUME UNCHANGED <<pc, pending, chunk, toStore, out, unanswered>> PROVE AnswersInv'
  BY <1>2, <1>3, <1>4 DEF Waiting
<1>5. CASE Start
  <2>1. ASSUME NEW p \in Purls \ Waiting'
        PROVE  /\ Own(p, out'[p])
               /\ Known(p) \subseteq RefIds(out'[p]) \/ shorted' \/ p \in unanswered'
    <3>1. Cached(p) \/ offline'
      BY <1>5, <2>1, WaitingIs
    <3>2. CASE Cached(p)
      <4> DEFINE f == CacheName[p]
      <4>1. f \in Files /\ queries[f] # None
        BY <3>2 DEF Cached, Files
      <4>2. CacheName[queries[f].purl] = f /\ queries[f].purl \in Purls
            /\ Own(queries[f].purl, queries[f].refs) /\ Whole(queries[f].purl, queries[f].refs)
        BY <4>1 DEF FilesInv, TypeOK, Answers
      <4>3. queries[f].purl = p
        BY <4>2 DEF NamesApart
      <4>4. out'[p] = queries[f].refs
        BY <1>5, <3>2 DEF Start
      <4> QED BY <1>1, <4>2, <4>3, <4>4 DEF Whole
    <3>3. CASE ~ Cached(p)
      <4>1. out'[p] = {} /\ p \in unanswered'
        BY <1>5, <3>1, <3>3 DEF Start
      <4> QED BY <4>1 DEF Own, RefIds
    <3> QED BY <3>2, <3>3
  <2> QED BY <2>1 DEF AnswersInv, Whole
<1>6. CASE NextChunk
  <2>1. Waiting' = Waiting /\ pc = "query" /\ UNCHANGED <<out, unanswered>>
    BY <1>6, WaitingIs DEF NextChunk
  <2> QED BY <1>2, <2>1
<1>7. ASSUME NEW n \in 0..Len(Open), Post(n) PROVE AnswersInv'
  <2>1. Waiting' = Waiting /\ pc = "post" /\ UNCHANGED <<out, unanswered>>
    BY <1>7, WaitingIs DEF Post
  <2> QED BY <1>2, <2>1
<1>8. CASE StoreQuery
  <2> DEFINE q == Head(toStore)
  <2>1. /\ q \in ToSet(chunk) /\ Waiting \subseteq Waiting' \cup {q}
        /\ pc = "store" /\ UNCHANGED unanswered /\ out' = [out EXCEPT ![q] = collected[q]]
    BY <1>8, WaitingIs DEF StoreQuery
  <2>2. q \in Purls /\ Own(q, collected[q]) /\ Whole(q, collected[q])
    BY <2>1, MembersOf DEF TypeOK, PlaceInv, PagesInv
  <2> HIDE DEF q
  <2>3. ASSUME NEW p \in Purls \ Waiting'
        PROVE  /\ Own(p, out'[p])
               /\ Known(p) \subseteq RefIds(out'[p]) \/ shorted' \/ p \in unanswered'
    <3>1. CASE p = q
      <4>1. out'[p] = collected[p]
        BY <2>1, <3>1 DEF TypeOK
      <4> QED BY <1>1, <2>2, <3>1, <4>1 DEF Whole
    <3>2. CASE p # q
      <4>1. out'[p] = out[p] /\ p \in Purls \ Waiting
        BY <2>1, <2>3, <3>2 DEF TypeOK
      <4> QED BY <1>1, <2>1, <4>1 DEF AnswersInv, Whole
    <3> QED BY <3>1, <3>2
  <2> QED BY <2>3 DEF AnswersInv, Whole
<1>9. CASE ChunkStored
  <2>1. Waiting' = Waiting /\ pc = "store" /\ UNCHANGED <<out, unanswered>>
    BY <1>9, WaitingIs DEF ChunkStored
  <2> QED BY <1>2, <2>1
<1>10. CASE QueryDone
  <2>1. Waiting' = Waiting /\ pc = "query" /\ UNCHANGED <<out, unanswered>>
    BY <1>10, WaitingIs DEF QueryDone
  <2> QED BY <1>2, <2>1
<1>11. CASE RecordsDone
  <2>1. Waiting' = Waiting /\ pc = "records" /\ UNCHANGED <<out, unanswered>>
    BY <1>11 DEF RecordsDone, Waiting
  <2> QED BY <1>2, <2>1
<1>12. ASSUME PostFails \/ Forget PROVE AnswersInv'
  BY <1>3, <1>12 DEF PostFails, Forget
<1>13. ASSUME Tick \/ (\E i \in Ids : RecordStep(i) \/ Modify(i)) \/ UNCHANGED vars
       PROVE  AnswersInv'
  BY <1>4, <1>13 DEF RecordStep, RecordCached, RecordFetched, RecordMissing, Tick, Modify
<1> QED BY <1>5, <1>6, <1>7, <1>8, <1>9, <1>10, <1>11, <1>12, <1>13 DEF Next, Work, Finish, Kill

\* A lookup that succeeds has exactly the advisories OSV has for each purl, when no
\* two purls share a cache file (the code does not compare the purl a file names).
THEOREM AnswersHold == ASSUME NamesApart PROVE Spec => []AdvisoriesAreExact
<1> DEFINE Inv == TypeOK /\ PlaceInv /\ PagesInv /\ FilesInv /\ AnswersInv
<1>1. Init => Inv
  <2> SUFFICES ASSUME Init PROVE Inv
    OBVIOUS
  <2>1. pc = "idle" /\ \A f \in Files : queries[f] = None
    BY DEF Init
  <2>2. /\ done = {} /\ \A p \in Purls : /\ page[p] = 0 /\ collected[p] = {}
                                         /\ LastPage(p) \in Nat /\ Len(Advisories[p]) \in Nat
    BY OsvAssumption, PagesAre DEF Init, Idle
  <2>3. PagesInv
    <3>1. PageSize \in Nat /\ 0 * PageSize = 0
      BY OsvAssumption
    <3> QED BY <2>2, <3>1 DEF PagesInv, Own, RefIds
  <2>4. FilesInv /\ AnswersInv
    BY <2>1 DEF FilesInv, AnswersInv
  <2> QED BY <2>3, <2>4, TypeInit
<1>2. Inv /\ [Next]_vars => Inv'
  BY TypeStep, PlaceStep, PagesStep, FilesStep, AnswersStep
<1>3. Inv => AdvisoriesAreExact
  <2> SUFFICES ASSUME Inv, pc \in {"records", "done"}, NEW p \in Purls
               PROVE  /\ RefIds(out[p]) \subseteq Known(p)
                      /\ Known(p) \subseteq RefIds(out[p]) \/ p \in unanswered \/ shorted
    BY DEF AdvisoriesAreExact
  <2>1. Waiting = {}
    BY DEF PlaceInv
  <2> QED BY <2>1 DEF AnswersInv, Own, Whole
<1> QED BY <1>1, <1>2, <1>3, PTL DEF Spec

-----------------------------------------------------------------------------
(* The records. *)

StampsInv ==
  /\ DatesInv
  /\ \A f \in Files : queries[f] # None =>
       queries[f].at <= clock /\ Fresh(queries[f].refs, queries[f].at)
  /\ \A p \in Purls : Fresh(collected[p], now)
  /\ pc \notin {"idle", "failed"} /\ ~offline =>
       \A p \in Purls \ Waiting : Fresh(out[p], now - MaxAge + 1)

\* The advisories the workers are given, and have been given, are named in the answers.
Named(i) == \E p \in Purls : i \in RefIds(out[p])

\* What may be said of an advisory in the first version: it has been that long.
Recent(i) == i \in Unstamped \/ changed[i] = None \/ changed[i] > now - MaxAge

RecordsInv ==
  /\ toFetch # {} => pc = "records"
  /\ pc \in {"records", "done"} =>
    /\ \A i \in Ids : i \in toFetch \/ record[i] # None => Named(i)
    /\ \A i \in Ids : ~offline /\ record[i] = 1 => Recent(i)
  /\ pc \notin {"records", "done"} => \A i \in Ids : record[i] = None

\* An advisory's date does not move, unless OSV modifies it now.
LEMMA DatesStep ==
  ASSUME TypeOK, DatesInv, [Next]_vars
  PROVE  /\ DatesInv' /\ clock' \in Nat /\ clock <= clock'
         /\ \A i \in Ids : changed'[i] = changed[i] \/ changed'[i] = clock
<1> USE DEF world, cache, setup, asking, vars
<1>1. CASE Start
  <2>1. now' = clock /\ UNCHANGED world
    BY <1>1 DEF Start
  <2> QED BY <2>1 DEF DatesInv, TypeOK
<1>2. ASSUME NEW i \in Ids, Modify(i)
      PROVE  /\ DatesInv' /\ clock' \in Nat /\ clock <= clock'
             /\ \A j \in Ids : changed'[j] = changed[j] \/ changed'[j] = clock
  BY <1>2 DEF Modify, DatesInv, TypeOK
<1>3. CASE Tick
  BY <1>3 DEF Tick, DatesInv, TypeOK
<1>4. CASE Finish \/ Kill
  <2>1. now' = 0 /\ UNCHANGED world
    BY <1>4 DEF Finish, Kill, Forget
  <2> QED BY <2>1 DEF DatesInv, TypeOK
<1>5. ASSUME UNCHANGED <<world, now>>
      PROVE  /\ DatesInv' /\ clock' \in Nat /\ clock <= clock'
             /\ \A i \in Ids : changed'[i] = changed[i] \/ changed'[i] = clock
  BY <1>5 DEF DatesInv, TypeOK
<1>6. ASSUME Work \/ PostFails \/ UNCHANGED vars PROVE UNCHANGED <<world, now>>
  BY <1>6 DEF Work, NextChunk, Post, PostFails, StoreQuery, ChunkStored, QueryDone,
     RecordStep, RecordCached, RecordFetched, RecordMissing, RecordsDone
<1> QED BY <1>1, <1>2, <1>3, <1>4, <1>5, <1>6 DEF Next

\* What refs say of a time that is past, or of an earlier one, stays so.
LEMMA FreshStays ==
  ASSUME TypeOK, DatesInv, [Next]_vars, NEW refs \in SUBSET Refs,
         NEW t \in Int, NEW u \in Int, Fresh(refs, t), u <= t, u <= clock
  PROVE  \A r \in refs :
           /\ r.stamp = 0 => r.id \in Unstamped
           /\ r.stamp = 1 => changed'[r.id] = None \/ changed'[r.id] >= u
<1>1. \A i \in Ids : changed'[i] = changed[i] \/ changed'[i] = clock
  BY DatesStep
<1>2. ASSUME NEW r \in refs, r.stamp = 1 PROVE changed'[r.id] = None \/ changed'[r.id] >= u
  <2>1. r.id \in Ids /\ changed[r.id] \in {None} \cup Nat
    BY DEF Refs, TypeOK
  <2>2. changed[r.id] = None \/ changed[r.id] >= t
    BY <1>2 DEF Fresh
  <2>3. CASE changed'[r.id] = clock
    BY <2>3
  <2>4. CASE changed'[r.id] = changed[r.id] /\ changed[r.id] = None
    BY <2>4
  <2>5. CASE changed'[r.id] = changed[r.id] /\ changed[r.id] # None
    <3>1. changed[r.id] \in Nat /\ changed[r.id] >= t
      BY <2>1, <2>2, <2>5
    <3> QED BY <2>5, <3>1
  <2> QED BY <1>1, <2>1, <2>3, <2>4, <2>5
<1> QED BY <1>2 DEF Fresh

\* A step keeps what the refs say of the time they are from.
LEMMA StampsStep ==
  ASSUME TypeOK, PlaceInv, StampsInv, [Next]_vars PROVE StampsInv'
<1> USE DEF world, cache, setup, asking, vars
<1> DEFINE Kept(refs, u) == \A r \in refs :
             /\ r.stamp = 0 => r.id \in Unstamped
             /\ r.stamp = 1 => changed'[r.id] = None \/ changed'[r.id] >= u
<1>a. DatesInv /\ DatesInv' /\ clock' \in Nat /\ clock <= clock'
  BY DatesStep DEF StampsInv
<1>b. clock \in Nat /\ now \in Nat /\ now <= clock /\ MaxAge \in Nat \ {0}
  BY <1>a, OsvAssumption DEF TypeOK, DatesInv
<1>c. ASSUME NEW refs \in SUBSET Refs, NEW t \in Int, NEW u \in Int, Fresh(refs, t),
             u <= t, u <= clock
      PROVE  Kept(refs, u)
  BY <1>a, <1>c, FreshStays
<1> HIDE DEF Kept
<1>1. ASSUME NEW f \in Files, queries'[f] # None
      PROVE  queries'[f].at <= clock' /\ Kept(queries'[f].refs, queries'[f].at)
  <2>1. CASE queries'[f] = queries[f]
    <3>1. /\ queries[f].refs \in SUBSET Refs /\ queries[f].at \in Nat
          /\ queries[f].at <= clock /\ Fresh(queries[f].refs, queries[f].at)
      BY <1>1, <2>1 DEF TypeOK, Answers, StampsInv
    <3>2. Kept(queries[f].refs, queries[f].at)
      BY <3>1, <1>c
    <3> QED BY <1>a, <1>b, <2>1, <3>1, <3>2
  <2>2. CASE StoreQuery /\ queries'[f] # queries[f]
    <3> DEFINE p == Head(toStore)
    <3>1. p \in Purls
      BY <2>2, MembersOf DEF StoreQuery, TypeOK
    <3>2. queries' = [queries EXCEPT ![CacheName[p]] =
                        [purl |-> p, at |-> now, refs |-> collected[p]]]
      BY <2>2 DEF StoreQuery
    <3>3. queries'[f].refs = collected[p] /\ queries'[f].at = now
      BY <2>2, <3>2 DEF TypeOK
    <3>4. collected[p] \in SUBSET Refs /\ Fresh(collected[p], now)
      BY <3>1 DEF TypeOK, StampsInv
    <3>5. Kept(collected[p], now)
      BY <1>b, <1>c, <3>4
    <3> QED BY <1>a, <1>b, <3>3, <3>5
  <2>3. CASE Kill
    <3>1. queries'[f] \in {None, queries[f]}
      BY <2>3 DEF Kill, TypeOK
    <3> QED BY <1>1, <2>1, <3>1
  <2>4. CASE ~ StoreQuery /\ ~ Kill
    <3>1. queries' = queries
      BY <2>4 DEF Next, Work, Start, NextChunk, Post, PostFails, ChunkStored, QueryDone,
         RecordStep, RecordCached, RecordFetched, RecordMissing, RecordsDone, Finish, Tick, Modify
    <3> QED BY <2>1, <3>1
  <2> QED BY <2>1, <2>2, <2>3, <2>4
<1>2. ASSUME NEW p \in Purls PROVE Kept(collected'[p], now')
  <2>1. collected[p] \in SUBSET Refs /\ Fresh(collected[p], now)
    BY DEF TypeOK, StampsInv
  <2>2. Kept(collected[p], now)
    BY <1>b, <1>c, <2>1
  <2>3. CASE collected'[p] = {}
    BY <2>3 DEF Kept
  <2>4. ASSUME NEW n \in 0..Len(Open), Post(n) PROVE Kept(collected'[p], now')
    <3>1. collected'[p] \subseteq collected[p] \cup PageRefs(p) /\ now' = now
      BY <2>4, PostIs DEF Post
    <3>2. PageRefs(p) \in SUBSET Refs /\ Fresh(PageRefs(p), now)
      BY <1>a, PageRefsAre
    <3>3. Kept(PageRefs(p), now)
      BY <1>b, <1>c, <3>2
    <3> QED BY <2>2, <3>1, <3>3 DEF Kept
  <2>5. CASE ChunkStored \/ Forget
    <3>1. collected'[p] = {}
      BY <2>5 DEF ChunkStored, Forget
    <3> QED BY <2>3, <3>1
  <2>6. CASE Start
    <3>1. collected'[p] = {}
      BY <2>6 DEF Start, PlaceInv
    <3> QED BY <2>3, <3>1
  <2>7. CASE ~ Start /\ ~ ChunkStored /\ ~ Forget /\ ~ \E n \in 0..Len(Open) : Post(n)
    <3>1. collected' = collected /\ now' = now
      BY <2>7 DEF Next, Work, NextChunk, PostFails, StoreQuery, QueryDone,
         RecordStep, RecordCached, RecordFetched, RecordMissing, RecordsDone, Finish, Kill,
         Tick, Modify
    <3> QED BY <2>2, <3>1
  <2> QED BY <2>4, <2>5, <2>6, <2>7
<1>3. ASSUME pc' \notin {"idle", "failed"}, ~ offline', NEW p \in Purls \ Waiting'
      PROVE  Kept(out'[p], now' - MaxAge + 1)
  <2>0. now - MaxAge + 1 \in Int /\ now - MaxAge + 1 <= clock /\ now - MaxAge + 1 <= now
    BY <1>b
  <2>1. CASE /\ pc \notin {"idle", "failed"} /\ p \notin Waiting /\ out'[p] = out[p]
             /\ offline' = offline /\ now' = now
    <3>1. out[p] \in SUBSET Refs /\ Fresh(out[p], now - MaxAge + 1)
      BY <1>3, <2>1 DEF PlaceInv, StampsInv
    <3>2. Kept(out[p], now - MaxAge + 1)
      BY <1>c, <2>0, <3>1
    <3> QED BY <2>1, <3>2
  <2>2. CASE Start
    <3>1. Cached(p) /\ now' = clock
      BY <1>3, <2>2, WaitingIs DEF Start
    <3> DEFINE q == queries[CacheName[p]]
    <3>2. out'[p] = q.refs
      BY <2>2, <3>1 DEF Start
    <3>3. /\ q.refs \in SUBSET Refs /\ q.at \in Nat /\ q.at <= clock /\ Fresh(q.refs, q.at)
          /\ clock - q.at < MaxAge
      BY <1>3, <3>1 DEF TypeOK, Cached, Files, Answers, StampsInv
    <3> HIDE DEF q
    <3>4. clock - MaxAge + 1 \in Int /\ clock - MaxAge + 1 <= q.at /\ clock - MaxAge + 1 <= clock
      BY <1>b, <3>3
    <3>5. Kept(q.refs, clock - MaxAge + 1)
      BY <1>c, <3>3, <3>4
    <3> QED BY <3>1, <3>2, <3>5
  <2>3. CASE StoreQuery
    <3> DEFINE q == Head(toStore)
    <3>1. /\ q \in ToSet(chunk) /\ Waiting \subseteq Waiting' \cup {q}
          /\ pc = "store" /\ out' = [out EXCEPT ![q] = collected[q]]
          /\ offline' = offline /\ now' = now
      BY <2>3, WaitingIs DEF StoreQuery
    <3> HIDE DEF q
    <3>2. CASE p = q
      <4>1. out'[p] = collected[p] /\ collected[p] \in SUBSET Refs /\ Fresh(collected[p], now)
        BY <3>1, <3>2 DEF TypeOK, StampsInv
      <4>2. Kept(collected[p], now - MaxAge + 1)
        BY <1>b, <1>c, <2>0, <4>1
      <4> QED BY <3>1, <4>1, <4>2
    <3>3. CASE p # q
      <4>1. out'[p] = out[p] /\ p \notin Waiting
        BY <1>3, <3>1, <3>3 DEF TypeOK
      <4> QED BY <2>1, <3>1, <4>1
    <3> QED BY <3>2, <3>3
  <2>4. CASE PostFails \/ Forget
    BY <1>3, <2>4 DEF PostFails, Forget
  <2>5. CASE ~ Start /\ ~ StoreQuery /\ ~ PostFails /\ ~ Forget
    <3>1. out' = out /\ offline' = offline /\ now' = now /\ pc \notin {"idle", "failed"}
      BY <1>3, <2>5 DEF Next, Work, NextChunk, Post, ChunkStored, QueryDone,
         RecordStep, RecordCached, RecordFetched, RecordMissing, RecordsDone, Finish, Kill,
         Tick, Modify
    <3>2. CASE NextChunk \/ (\E n \in 0..Len(Open) : Post(n)) \/ ChunkStored \/ QueryDone
      <4>1. Waiting' = Waiting
        BY <3>2, WaitingIs
      <4> QED BY <1>3, <2>1, <3>1, <4>1
    <3>3. CASE RecordsDone \/ Tick \/ (\E i \in Ids : RecordStep(i) \/ Modify(i)) \/ UNCHANGED vars
      <4>1. Waiting' = Waiting
        BY <3>3 DEF Waiting, RecordStep, RecordCached, RecordFetched, RecordMissing, RecordsDone,
           Tick, Modify
      <4> QED BY <1>3, <2>1, <3>1, <4>1
    <3> QED BY <2>5, <3>2, <3>3 DEF Next, Work, Finish, Kill
  <2> QED BY <2>2, <2>3, <2>4, <2>5
<1> QED BY <1>a, <1>1, <1>2, <1>3 DEF StampsInv, Fresh, Kept

\* A set of positions that is not empty has a last one.
LEMMA LastOne ==
  ASSUME NEW N \in Nat, NEW I \in SUBSET (1..N), I # {}
  PROVE  \E x \in I : \A y \in I : y <= x
<1> DEFINE D == {d \in Nat : N - d \in I}
<1>1. D # {} /\ D \in SUBSET Nat
  <2>1. PICK x \in I : TRUE
    OBVIOUS
  <2>2. N - x \in Nat /\ N - (N - x) = x
    BY <2>1
  <2> QED BY <2>1, <2>2
<1>2. PICK d \in D : \A e \in D : ~ (<<e, d>> \in OpToRel(<, Nat))
  <2> HIDE DEF D
  <2> QED BY <1>1, NatLessThanWellFounded, WFMin
<1>3. \A e \in D : ~ (e < d)
  BY <1>2 DEF OpToRel
<1>4. ASSUME NEW y \in I PROVE y <= N - d
  <2>1. N - y \in D
    <3>1. N - y \in Nat /\ N - (N - y) = y
      OBVIOUS
    <3> QED BY <3>1
  <2> QED BY <1>3, <2>1
<1> QED BY <1>4

\* The version that the records are compared with is one of an answer.
LEMMA ModifiedIsRecent ==
  ASSUME TypeOK, PlaceInv, StampsInv, pc \in {"records", "done"}, ~ offline, NEW i \in Ids,
         Named(i)
  PROVE  Modified(i) \in Stamps /\ (Modified(i) \in {0, 1} => Recent(i))
<1> DEFINE named(x) == i \in RefIds(out[PurlOrder[x]])
           I == {x \in 1..Len(PurlOrder) : named(x)}
<1>1. /\ PurlOrder \in Seq(Purls) /\ Len(PurlOrder) \in Nat /\ DOMAIN PurlOrder = 1..Len(PurlOrder)
      /\ \A x \in 1..Len(PurlOrder) : PurlOrder[x] \in Purls
      /\ Purls = {PurlOrder[x] : x \in 1..Len(PurlOrder)}
  <2>1. PurlOrder \in Seq(Purls)
    BY OsvAssumption
  <2>2. Purls = ToSet(PurlOrder)
    BY DEF Purls
  <2> HIDE DEF Purls
  <2> QED BY <2>1, <2>2, MembersOf
<1>2. I # {}
  BY <1>1 DEF Named
<1>3. PICK x \in I : \A y \in I : y <= x
  <2> HIDE DEF I
  <2>1. I \in SUBSET (1..Len(PurlOrder))
    BY DEF I
  <2> QED BY <1>1, <1>2, <2>1, LastOne
<1> DEFINE last == CHOOSE z \in DOMAIN PurlOrder :
                     /\ i \in RefIds(out[PurlOrder[z]])
                     /\ \A j \in DOMAIN PurlOrder :
                          i \in RefIds(out[PurlOrder[j]]) => j <= z
           refs == out[PurlOrder[last]]
           ref == CHOOSE r \in refs : r.id = i
<1>4. last \in DOMAIN PurlOrder /\ i \in RefIds(out[PurlOrder[last]])
  BY <1>1, <1>3
<1>5. Modified(i) = ref.stamp
  BY DEF Modified
<1> HIDE DEF last
<1>6. ref \in refs /\ ref.id = i
  BY <1>4 DEF RefIds
<1> HIDE DEF ref
<1>7. refs \in SUBSET Refs /\ Fresh(refs, now - MaxAge + 1)
  BY <1>1, <1>4 DEF PlaceInv, StampsInv
<1>8. ref.stamp = 1 => changed[i] = None \/ changed[i] > now - MaxAge
  <2>1. changed[i] \in {None} \cup Nat /\ now \in Nat /\ MaxAge \in Nat
    BY OsvAssumption DEF TypeOK
  <2>2. ref.stamp = 1 => changed[i] = None \/ changed[i] >= now - MaxAge + 1
    BY <1>6, <1>7 DEF Fresh
  <2>3. ASSUME NEW c \in Nat, c >= now - MaxAge + 1 PROVE c > now - MaxAge
    BY <2>1, <2>3
  <2> QED BY <2>1, <2>2, <2>3
<1>9. ref.stamp \in Stamps /\ (ref.stamp = 0 => i \in Unstamped)
  BY <1>6, <1>7 DEF Fresh, Refs
<1> QED BY <1>5, <1>8, <1>9 DEF Recent

\* What is recent stays so for the run.
LEMMA RecentStays ==
  ASSUME TypeOK, DatesInv, [Next]_vars, now' = now, NEW i \in Ids, Recent(i)
  PROVE  Recent(i)'
<1>1. changed'[i] = changed[i] \/ changed'[i] = clock
  BY DatesStep
<1>2. clock \in Nat /\ now \in Nat /\ now <= clock /\ MaxAge \in Nat \ {0}
  BY OsvAssumption DEF TypeOK, DatesInv
<1>3. clock > now - MaxAge
  BY <1>2
<1> QED BY <1>1, <1>3 DEF Recent

\* A worker leaves a record that is as recent as the answer that named it.
LEMMA RecordsStep ==
  ASSUME TypeOK, PlaceInv, StampsInv, RecordsInv, [Next]_vars PROVE RecordsInv'
<1> USE DEF world, cache, setup, asking, vars
<1>0. DatesInv
  BY DEF StampsInv
<1>1. ASSUME UNCHANGED <<out, offline, now, record, toFetch>>,
             pc' = pc \/ {pc, pc'} \subseteq {"query", "post", "store", "idle", "failed"}
               \/ (pc = "records" /\ pc' = "done" /\ toFetch = {})
      PROVE  RecordsInv'
  <2>1. \A i \in Ids : Named(i)' = Named(i) /\ (Recent(i) => Recent(i)')
    BY <1>0, <1>1, RecentStays DEF Named
  <2> QED BY <1>1, <2>1 DEF RecordsInv
<1>2. ASSUME toFetch' = {}, \A i \in Ids : record'[i] = None PROVE RecordsInv'
  BY <1>2, OsvAssumption DEF RecordsInv, Versions
<1>3. ASSUME Start \/ StoreQuery PROVE RecordsInv'
  <2>1. toFetch = {} /\ toFetch' = toFetch /\ record' = record
        /\ \A i \in Ids : record[i] = None
    BY <1>3 DEF Start, StoreQuery, RecordsInv
  <2> QED BY <1>2, <2>1
<1>4. CASE QueryDone
  <2>1. /\ pc = "query" /\ pc' = "records" /\ record' = record /\ out' = out
        /\ toFetch' = UNION {RefIds(out[p]) : p \in Purls}
        /\ \A i \in Ids : record[i] = None
    BY <1>4 DEF QueryDone, RecordsInv
  <2>2. \A i \in toFetch' : Named(i)'
    BY <2>1 DEF Named
  <2> QED BY <2>1, <2>2, OsvAssumption DEF RecordsInv, Versions
<1>5. ASSUME NEW i \in Ids, RecordStep(i) PROVE RecordsInv'
  <2>1. /\ pc = "records" /\ pc' = "records" /\ out' = out /\ offline' = offline
        /\ now' = now /\ i \in toFetch /\ toFetch' = toFetch \ {i}
    BY <1>5 DEF RecordStep, RecordCached, RecordFetched, RecordMissing
  <2>2. \A j \in Ids : Named(j)' = Named(j) /\ (Recent(j) => Recent(j)')
    BY <1>0, <2>1, RecentStays DEF Named
  <2>3. Named(i) /\ (~ offline => Modified(i) \in Stamps /\ (Modified(i) \in {0, 1} => Recent(i)))
    BY <2>1, ModifiedIsRecent DEF RecordsInv
  <2>4. \A j \in Ids \ {i} : record'[j] = record[j]
    BY <1>5 DEF RecordStep, RecordCached, RecordFetched, RecordMissing, TypeOK
  <2>5. ~ offline /\ record'[i] = 1 => Recent(i)
    <3>1. CASE RecordCached(i)
      <4>1. record'[i] = records[i] /\ (offline \/ Modified(i) = 0 \/ records[i] = Modified(i))
        BY <3>1 DEF RecordCached, CachedRecord, TypeOK
      <4> QED BY <4>1, <2>3
    <3>2. CASE RecordFetched(i)
      <4>1. record'[i] = stamp[i]
        BY <3>2 DEF RecordFetched, TypeOK
      <4> QED BY <1>0, <4>1 DEF DatesInv, Recent
    <3>3. CASE RecordMissing(i)
      <4>1. record'[i] = record[i]
        BY <3>3 DEF RecordMissing
      <4> QED BY <2>1, <4>1 DEF RecordsInv
    <3> QED BY <1>5, <3>1, <3>2, <3>3 DEF RecordStep
  <2>6. ASSUME NEW j \in Ids, j \in toFetch' \/ record'[j] # None PROVE Named(j)
    BY <2>1, <2>3, <2>4, <2>6 DEF RecordsInv
  <2>7. ASSUME NEW j \in Ids, ~ offline, record'[j] = 1 PROVE Recent(j)
    BY <2>1, <2>4, <2>5, <2>7 DEF RecordsInv
  <2> QED BY <2>1, <2>2, <2>6, <2>7 DEF RecordsInv
<1>6. ASSUME Forget PROVE RecordsInv'
  BY <1>2, <1>6, ForgetIs
<1>7. ASSUME NextChunk \/ (\E n \in 0..Len(Open) : Post(n)) \/ PostFails \/ ChunkStored
             \/ RecordsDone \/ Tick \/ (\E i \in Ids : Modify(i)) \/ UNCHANGED vars
      PROVE  RecordsInv'
  BY <1>1, <1>7 DEF NextChunk, Post, PostFails, ChunkStored, RecordsDone, Tick, Modify
<1> QED BY <1>3, <1>4, <1>5, <1>6, <1>7 DEF Next, Work, Finish, Kill

\* No record a finding is built from is older than the cached answers may be: what OSV
\* modified the cache's MaxAge before the run began is not described as it was before.
THEOREM RecordHolds == Spec => []RecordIsRecent
<1> DEFINE Inv == TypeOK /\ PlaceInv /\ StampsInv /\ RecordsInv
<1>1. Init => Inv
  <2> SUFFICES ASSUME Init PROVE Inv
    OBVIOUS
  <2>1. /\ pc = "idle" /\ toFetch = {} /\ \A i \in Ids : record[i] = None /\ changed[i] = None
        /\ now = 0 /\ clock = 0
        /\ \A f \in Files : queries[f] = None
        /\ \A p \in Purls : collected[p] = {}
    BY DEF Init, Idle
  <2>2. StampsInv /\ RecordsInv
    BY <2>1 DEF StampsInv, RecordsInv, Fresh, DatesInv
  <2> QED BY <2>2, TypeInit
<1>2. Inv /\ [Next]_vars => Inv'
  BY TypeStep, PlaceStep, StampsStep, RecordsStep
<1>3. Inv => RecordIsRecent
  BY DEF RecordsInv, RecordIsRecent, Recent
<1> QED BY <1>1, <1>2, <1>3, PTL DEF Spec
=============================================================================

------------------------------ MODULE Scans_proofs ------------------------------
(***************************************************************************)
(* What holds of documents for any locks, manifests and filters: whatever is *)
(* filtered out, the graph that stays is the one around it; a package that a *)
(* required one needs is required; and whatever is looked up, in whatever    *)
(* order and with whatever failures, a package gets what its own sources     *)
(* say, or the document says what is missing, and the explanation of it is   *)
(* true.  And for any tree of directories, what a run finds in it and where  *)
(* it writes.                                                               *)
(***************************************************************************)
EXTENDS Scans, FiniteSetTheorems, SequenceTheorems, TLAPS

-----------------------------------------------------------------------------
(* What the roots reach. *)

\* Induction over the natural numbers, for a set.
LEMMA Induction ==
  ASSUME NEW S, 0 \in S, \A n \in Nat : n \in S => n + 1 \in S
  PROVE  Nat \subseteq S
<1> SUFFICES ASSUME NEW n \in Nat, n \notin S PROVE FALSE
  OBVIOUS
<1> DEFINE A == 0..n \cap S
           f == [k \in A |-> k + 1]
<1>1. IsFiniteSet(A)
  <2>1. A \subseteq 0..n /\ IsFiniteSet(0..n)
    BY FS_Interval
  <2> QED BY <2>1, FS_Subset
<1>2. IsFiniteSet(A \ {0}) /\ Cardinality(A \ {0}) < Cardinality(A)
  <2>1. 0 \in A
    OBVIOUS
  <2> HIDE DEF A
  <2>2. IsFiniteSet(A \ {0}) /\ Cardinality(A \ {0}) = Cardinality(A) - 1
    BY <1>1, <2>1, FS_RemoveElement
  <2>3. Cardinality(A) \in Nat
    BY <1>1, FS_CardinalityType
  <2> QED BY <2>2, <2>3
\* A successor of a member below n is one.
<1>3. f \in [A -> A \ {0}]
  <2>1. \A k \in A : k + 1 \in A \ {0}
    OBVIOUS
  <2> QED BY <2>1
<1>4. PICK x, y \in A : x # y /\ f[x] = f[y]
  <2> HIDE DEF A, f
  <2> QED BY <1>1, <1>2, <1>3, FS_PigeonHole
<1> QED BY <1>4

\* g gives what is reached in up to k steps.
Grows(g, roots, edges, k) ==
  /\ g = [n \in 0..k |-> g[n]]
  /\ g[0] = roots
  /\ \A n \in 1..k : g[n] = Beyond(g[n - 1], edges)

\* There is such a function.
LEMMA GrowthExists ==
  ASSUME NEW roots, NEW edges, NEW N \in Nat
  PROVE  \E g : Grows(g, roots, edges, N)
<1> DEFINE K == {k \in Nat : \E g : Grows(g, roots, edges, k)}
<1>1. 0 \in K
  <2>1. Grows([n \in 0..0 |-> roots], roots, edges, 0)
    BY DEF Grows
  <2> QED BY <2>1
<1>2. ASSUME NEW k \in Nat, k \in K PROVE k + 1 \in K
  <2>1. PICK f : Grows(f, roots, edges, k)
    BY <1>2
  <2> DEFINE g == [n \in 0..(k + 1) |-> IF n <= k THEN f[n] ELSE Beyond(f[k], edges)]
  <2>2. g[0] = roots /\ DOMAIN g = 0..(k + 1)
    BY <2>1 DEF Grows
  <2>3. ASSUME NEW n \in 1..(k + 1) PROVE g[n] = Beyond(g[n - 1], edges)
    <3>1. n - 1 \in 0..k /\ g[n - 1] = f[n - 1]
      OBVIOUS
    <3>2. CASE n <= k
      <4>1. n \in 1..k
        BY <3>2
      <4>2. f[n] = Beyond(f[n - 1], edges)
        BY <2>1, <4>1 DEF Grows
      <4> QED BY <3>1, <3>2, <4>2
    <3>3. CASE n = k + 1
      BY <3>1, <3>3
    <3> QED BY <3>2, <3>3
  <2>4. Grows(g, roots, edges, k + 1)
    BY <2>2, <2>3 DEF Grows
  <2> QED BY <2>4
<1>3. Nat \subseteq K
  <2> HIDE DEF K
  <2> QED BY <1>1, <1>2, Induction
<1> QED BY <1>3

\* Reached is where that ends after as many steps as there are edges.
LEMMA ReachedGrows ==
  ASSUME NEW roots, NEW edges, IsFiniteSet(edges)
  PROVE  \E g : Grows(g, roots, edges, Cardinality(edges)) /\ Reached(roots, edges) = g[Cardinality(edges)]
<1> DEFINE N == Cardinality(edges)
           body(h, n) == IF n = 0 THEN roots ELSE Beyond(h[n - 1], edges)
           grow == CHOOSE h : h = [n \in 0..Cardinality(edges) |-> body(h, n)]
<1>1. N \in Nat
  BY FS_CardinalityType
<1>2. Reached(roots, edges) = grow[N]
  BY DEF Reached
<1>3. Grows(grow, roots, edges, N)
  <2>1. ASSUME NEW h, h = [n \in 0..N |-> body(h, n)] PROVE Grows(h, roots, edges, N)
    <3> HIDE DEF N
    <3>1. \A n \in 0..N : h[n] = body(h, n)
      <4> HIDE DEF body
      <4> QED BY <2>1, Zenon
    <3>2. h = [n \in 0..N |-> h[n]]
      BY <2>1, Zenon
    <3>3. 0 \in 0..N /\ \A n \in 1..N : n \in 0..N /\ n # 0
      BY <1>1
    <3> QED BY <3>1, <3>2, <3>3, Zenon DEF Grows
  <2>2. ASSUME NEW h, Grows(h, roots, edges, N) PROVE h = [n \in 0..N |-> body(h, n)]
    <3> HIDE DEF N
    <3>1. \A n \in 0..N : n = 0 \/ n \in 1..N
      BY <1>1
    <3>2. \A n \in 0..N : h[n] = body(h, n)
      BY <2>2, <3>1 DEF Grows
    <3> HIDE DEF body
    <3> QED BY <2>2, <3>2, Zenon DEF Grows
  <2>3. \E h : h = [n \in 0..N |-> body(h, n)]
    BY <1>1, <2>2, GrowthExists
  <2>4. grow = [n \in 0..N |-> body(grow, n)]
    <3> HIDE DEF body
    <3> QED BY <2>3, Zenon
  <2> HIDE DEF grow, N, body
  <2> QED BY <2>1, <2>4
<1> HIDE DEF grow, N
<1> QED BY <1>2, <1>3 DEF N

\* The edges that leave what is reached so far.
Used(S, edges) == {e \in edges : e[1] \in S}

\* One step changes nothing if the edges it goes along lead nowhere new.
Closed(S, edges) == \A e \in edges : e[1] \in S => e[2] \in S

\* A step along the edges that is not the last goes along one more than the one
\* before it.
LEMMA StepsAdd ==
  ASSUME NEW S, NEW edges, IsFiniteSet(edges), ~ Closed(Beyond(S, edges), edges)
  PROVE  /\ ~ Closed(S, edges)
         /\ Cardinality(Used(S, edges)) + 1 <= Cardinality(Used(Beyond(S, edges), edges))
<1> DEFINE U == Used(S, edges)
           V == Used(Beyond(S, edges), edges)
<1>1. ~ Closed(S, edges)
  BY DEF Closed, Beyond
<1>2. U \subseteq V /\ V \subseteq edges
  BY DEF Used, Beyond
<1>3. U # V
  <2>1. PICK e \in edges : e[1] \in Beyond(S, edges) /\ e[2] \notin Beyond(S, edges)
    BY DEF Closed
  <2>2. e \in V
    BY <2>1 DEF Used
  <2>3. e \notin U
    BY <2>1 DEF Used, Beyond
  <2> QED BY <2>2, <2>3
<1>4. IsFiniteSet(V)
  BY <1>2, FS_Subset
<1>5. IsFiniteSet(U) /\ Cardinality(U) <= Cardinality(V) /\ Cardinality(U) # Cardinality(V)
  <2> HIDE DEF U, V
  <2> QED BY <1>2, <1>3, <1>4, FS_Subset
<1>6. Cardinality(U) \in Nat /\ Cardinality(V) \in Nat
  BY <1>4, <1>5, FS_CardinalityType
<1>7. Cardinality(U) + 1 <= Cardinality(V)
  <2> HIDE DEF U, V
  <2> QED BY <1>5, <1>6
<1> QED BY <1>1, <1>7

\* What is reached has the roots and what its members lead to, and nothing else.
LEMMA ReachedIs ==
  ASSUME NEW roots, NEW edges, IsFiniteSet(edges)
  PROVE  /\ roots \subseteq Reached(roots, edges)
         /\ Closed(Reached(roots, edges), edges)
         /\ \A x \in Reached(roots, edges) :
              x \in roots \/ \E e \in edges : e[1] \in Reached(roots, edges) /\ e[2] = x
<1> DEFINE N == Cardinality(edges)
<1>1. N \in Nat
  BY FS_CardinalityType
<1>2. PICK g : Grows(g, roots, edges, N) /\ Reached(roots, edges) = g[N]
  BY ReachedGrows
<1> DEFINE OnlyThose(S) == \A x \in S : x \in roots \/ \E e \in edges : e[1] \in S /\ e[2] = x
           K == {k \in Nat : k <= N =>
                   /\ roots \subseteq g[k]
                   /\ OnlyThose(g[k])
                   /\ Closed(g[k], edges) \/ k + 1 <= Cardinality(Used(g[k], edges))}
<1> HIDE DEF N
<1>3. 0 \in K
  <2>1. g[0] = roots
    BY <1>2 DEF Grows
  <2>2. ASSUME ~ Closed(roots, edges) PROVE 0 + 1 <= Cardinality(Used(roots, edges))
    <3>1. Used(roots, edges) # {} /\ Used(roots, edges) \subseteq edges
      BY <2>2 DEF Used, Closed
    <3>2. IsFiniteSet(Used(roots, edges))
      BY <3>1, FS_Subset
    <3>3. Cardinality(Used(roots, edges)) # 0 /\ Cardinality(Used(roots, edges)) \in Nat
      BY <3>1, <3>2, FS_EmptySet, FS_CardinalityType
    <3> QED BY <3>3
  <2> QED BY <2>1, <2>2
<1>4. ASSUME NEW k \in Nat, k \in K PROVE k + 1 \in K
  <2> SUFFICES ASSUME k + 1 <= N
               PROVE  /\ roots \subseteq g[k + 1]
                      /\ OnlyThose(g[k + 1])
                      /\ \/ Closed(g[k + 1], edges)
                         \/ (k + 1) + 1 <= Cardinality(Used(g[k + 1], edges))
    OBVIOUS
  <2>1. g[k + 1] = Beyond(g[k], edges)
    <3>1. k + 1 \in 1..N /\ (k + 1) - 1 = k
      BY <1>1
    <3> QED BY <1>2, <3>1 DEF Grows
  <2>2. /\ roots \subseteq g[k]
        /\ OnlyThose(g[k])
        /\ Closed(g[k], edges) \/ k + 1 <= Cardinality(Used(g[k], edges))
    BY <1>1, <1>4
  <2>3. roots \subseteq g[k + 1] /\ OnlyThose(g[k + 1])
    BY <2>1, <2>2 DEF Beyond
  <2>4. ASSUME ~ Closed(g[k + 1], edges)
        PROVE  (k + 1) + 1 <= Cardinality(Used(g[k + 1], edges))
    <3>1. /\ ~ Closed(g[k], edges)
          /\ Cardinality(Used(g[k], edges)) + 1 <= Cardinality(Used(g[k + 1], edges))
      BY <2>1, <2>4, StepsAdd
    <3>2. \A h \in {k, k + 1} : Cardinality(Used(g[h], edges)) \in Nat
      <4>1. \A S : Used(S, edges) \subseteq edges
        BY DEF Used
      <4>2. \A S : IsFiniteSet(Used(S, edges))
        BY <4>1, FS_Subset
      <4> QED BY <4>2, FS_CardinalityType
    <3> QED BY <2>2, <3>1, <3>2
  <2> QED BY <2>3, <2>4
<1>5. Nat \subseteq K
  <2> HIDE DEF K
  <2> QED BY <1>3, <1>4, Induction
<1>6. /\ roots \subseteq g[N] /\ OnlyThose(g[N])
      /\ Closed(g[N], edges) \/ N + 1 <= Cardinality(Used(g[N], edges))
  BY <1>1, <1>5
<1>7. Cardinality(Used(g[N], edges)) <= N /\ Cardinality(Used(g[N], edges)) \in Nat
  <2>1. Used(g[N], edges) \subseteq edges
    BY DEF Used
  <2> QED BY <2>1, FS_Subset, FS_CardinalityType DEF N
<1>8. Closed(g[N], edges)
  BY <1>1, <1>6, <1>7
<1> QED BY <1>2, <1>6, <1>8

-----------------------------------------------------------------------------
(* What is read is a document, whatever the lock. *)

\* A package of which nothing was looked up yet, with what the proofs ask of it.
Stated == {"id", "deps", "kind", "source", "version", "purl", "hash", "license", "repository", "yanked"}
LookedUp == {"licenseFrom", "files", "filesFrom"}
IsPackage(p) == Stated \subseteq DOMAIN p /\ LookedUp \cap DOMAIN p = {} /\ ~ p.yanked
ArePackages(packages) == \A p \in packages : IsPackage(p)

IsDocument(s) ==
  {"packages", "excluded", "scopes", "error", "incomplete"} \subseteq DOMAIN s /\ ArePackages(s.packages)

\* As every reader but that of conda-lock.yml leaves it: without scopes.
IsUnscoped(s) == IsDocument(s) /\ s.scopes = <<>>

LEMMA PackageIs ==
  ASSUME NEW kind, NEW name, NEW version, NEW purl
  PROVE  IsPackage(Package(kind, name, version, purl))
BY DEF Package, IsPackage, Stated, LookedUp

LEMMA EmptyIs ==
  /\ {"packages", "excluded", "scopes", "error", "incomplete"} \subseteq DOMAIN Empty
  /\ Empty.packages = {} /\ Empty.scopes = <<>>
BY DEF Empty

LEMMA FailedIs ==
  ASSUME NEW error
  PROVE  IsUnscoped(Failed(error))
BY EmptyIs DEF Failed, IsUnscoped, IsDocument, ArePackages

LEMMA IdentifiedIs ==
  ASSUME NEW p, IsPackage(p)
  PROVE  IsPackage(IdentifySource(p))
BY DEF IdentifySource, IsPackage, Stated, LookedUp

LEMMA ExtrasKeepPackages ==
  ASSUME NEW extras, NEW packages, ArePackages(packages)
  PROVE  ArePackages(ApplyExtras(extras, packages))
<1> DEFINE A(p) == {r[2] : r \in {q \in extras.requested : q[1] = p.id}}
<1>1. \A p \in packages : IsPackage(p)
  BY DEF ArePackages
<1>2. \A q \in ApplyExtras(extras, packages) :
        \E p \in packages : \E x, v : q = [p EXCEPT !.extras = x, !.via = v]
  BY DEF ApplyExtras
<1>3. ASSUME NEW q \in ApplyExtras(extras, packages) PROVE IsPackage(q)
  <2>1. PICK p \in packages : \E x, v : q = [p EXCEPT !.extras = x, !.via = v]
    BY <1>2
  <2> QED BY <1>1, <2>1 DEF IsPackage, Stated, LookedUp
<1> QED BY <1>3 DEF ArePackages

LEMMA LockedIs ==
  ASSUME NEW locked, NEW platform, NEW python
  PROVE  IsPackage(ConvertLocked(locked, platform, python))
<1> DEFINE p == Package("pypi", locked.name, locked.version, PypiPurl(locked.name, locked.version))
           q == [p EXCEPT !.hash = ArtifactHash(locked, platform, python), !.source = locked.source]
<1>1. IsPackage(q)
  <2>1. IsPackage(p)
    BY PackageIs
  <2> HIDE DEF p
  <2> QED BY <2>1 DEF IsPackage, Stated, LookedUp
<1>2. ConvertLocked(locked, platform, python) = IdentifySource(q)
  BY DEF ConvertLocked
<1> HIDE DEF q
<1> QED BY <1>1, <1>2, IdentifiedIs

LEMMA ReadIs ==
  ASSUME NEW lock, NEW platform, NEW root, NEW extras, NEW packages, ArePackages(packages)
  PROVE  IsUnscoped(Read(lock, platform, root, ApplyExtras(extras, packages)))
<1> DEFINE all == ApplyExtras(extras, packages)
           s == [Empty EXCEPT !.root = root, !.platform = platform, !.packages = all]
<1>1. ArePackages(all)
  BY ExtrasKeepPackages
<1> HIDE DEF all
<1>2. CASE Obstacle(lock, platform) # None
  BY <1>2, FailedIs DEF Read
<1>3. CASE ~ (Obstacle(lock, platform) # None)
  <2>1. /\ {"packages", "excluded", "scopes", "error", "incomplete"} \subseteq DOMAIN s
        /\ s.packages = all /\ s.scopes = <<>>
    BY EmptyIs
  <2>2. Read(lock, platform, root, all) = s
    BY <1>3 DEF Read
  <2> HIDE DEF s
  <2> QED BY <1>1, <2>1, <2>2 DEF IsDocument, IsUnscoped, all
<1> QED BY <1>2, <1>3 DEF all

\* However its packages are linked, each is one that was converted.
LEMMA LinkedIs ==
  ASSUME NEW lock, NEW platform
  PROVE  \A root, extras, packages :
           (\A p \in packages : \E e, deps : p = [ConvertLocked(e, platform, lock.python) EXCEPT !.deps = deps])
              => IsUnscoped(Read(lock, platform, root, ApplyExtras(extras, packages)))
<1>1. \A packages :
        (\A p \in packages : \E e, deps : p = [ConvertLocked(e, platform, lock.python) EXCEPT !.deps = deps])
           => ArePackages(packages)
  BY LockedIs DEF ArePackages, IsPackage, Stated, LookedUp
<1> QED BY <1>1, ReadIs

LEMMA PoetryIs ==
  ASSUME NEW lock, NEW platform, NEW root
  PROVE  IsUnscoped(ReadPoetry(lock, platform, root))
<1>1. \A extras, packages :
        (\A p \in packages : \E e, deps : p = [ConvertLocked(e, platform, lock.python) EXCEPT !.deps = deps])
           => IsUnscoped(Read(lock, platform, root, ApplyExtras(extras, packages)))
  BY LinkedIs
<1> QED BY <1>1, Zenon DEF ReadPoetry

LEMMA PylockIs ==
  ASSUME NEW lock, NEW platform, NEW root
  PROVE  IsUnscoped(ReadPylock(lock, platform, root))
<1>1. \A r, extras, packages :
        (\A p \in packages : \E e, deps : p = [ConvertLocked(e, platform, lock.python) EXCEPT !.deps = deps])
           => IsUnscoped(Read(lock, platform, r, ApplyExtras(extras, packages)))
  BY LinkedIs
<1> QED BY <1>1, Zenon DEF ReadPylock

LEMMA PdmIs ==
  ASSUME NEW lock, NEW platform, NEW root
  PROVE  IsUnscoped(ReadPdm(lock, platform, root))
<1>1. \A extras, packages :
        (\A p \in packages : \E q, deps : IsPackage(q) /\ p = [q EXCEPT !.deps = deps])
           => IsUnscoped(Read(lock, platform, root,
                              ApplyExtras(extras, {[p EXCEPT !.deps = @ \ {p.id}] : p \in packages})))
  <2>1. \A packages :
          (\A p \in packages : \E q, deps : IsPackage(q) /\ p = [q EXCEPT !.deps = deps])
             => ArePackages({[p EXCEPT !.deps = @ \ {p.id}] : p \in packages})
    BY DEF ArePackages, IsPackage, Stated, LookedUp
  <2> QED BY <2>1, ReadIs
<1>2. \A e : IsPackage(ConvertLocked(e, platform, lock.python))
  BY LockedIs
<1> QED BY <1>1, <1>2, ZenonT(30) DEF ReadPdm

LEMMA CondaIs ==
  ASSUME NEW entry
  PROVE  IsPackage(ConvertConda(entry))
<1>1. \A kind, name, version, purl : IsPackage(Package(kind, name, version, purl))
  BY PackageIs
<1> QED BY <1>1 DEF ConvertConda, IsPackage, Stated, LookedUp

LEMMA PypiIs ==
  ASSUME NEW entry
  PROVE  IsPackage(ConvertPypi(entry))
<1> DEFINE p == Package("pypi", entry.name, entry.version, PypiPurl(entry.name, entry.version))
           q == [p EXCEPT !.hash = entry.hash, !.source = entry.source]
<1>1. IsPackage(q)
  <2>1. IsPackage(p)
    BY PackageIs
  <2> HIDE DEF p
  <2> QED BY <2>1 DEF IsPackage, Stated, LookedUp
<1>2. ConvertPypi(entry) = IdentifySource(q)
  BY DEF ConvertPypi
<1> HIDE DEF q
<1> QED BY <1>1, <1>2, IdentifiedIs

LEMMA PixiIs ==
  ASSUME NEW lock, NEW environment, NEW platform, NEW root, NEW asked
  PROVE  IsUnscoped(ReadPixiLock(lock, environment, platform, root, asked))
<1> DEFINE entries == lock[environment][platform]
           converted == [i \in DOMAIN entries |-> Convert(entries[i])]
           packages == RecordExtras(Link(converted, entries), entries, asked)
           s == [Empty EXCEPT !.root = root, !.environment = environment, !.platform = platform,
                              !.packages = packages]
<1>1. \A e : IsPackage(Convert(e))
  BY CondaIs, PypiIs DEF Convert
<1>2. ArePackages(Values(Link(converted, entries)))
  <2> HIDE DEF entries
  <2>1. \A p \in Values(Link(converted, entries)) : \E c, deps : IsPackage(c) /\ p = [c EXCEPT !.deps = deps]
    BY <1>1, ZenonT(30) DEF Link, Values
  <2> HIDE DEF converted
  <2> QED BY <2>1 DEF ArePackages, IsPackage, Stated, LookedUp
<1>3. ArePackages(packages)
  <2> HIDE DEF converted, entries
  <2>1. \A extras : ArePackages(ApplyExtras(extras, Values(Link(converted, entries))))
    BY <1>2, ExtrasKeepPackages
  <2> QED BY <2>1, ZenonT(30) DEF RecordExtras
<1>4. IsUnscoped(s)
  <2> HIDE DEF packages
  <2>1. /\ {"packages", "excluded", "scopes", "error", "incomplete"} \subseteq DOMAIN s
        /\ s.packages = packages /\ s.scopes = <<>>
    BY EmptyIs
  <2> HIDE DEF s
  <2> QED BY <1>3, <2>1 DEF IsDocument, IsUnscoped
<1>5. ReadPixiLock(lock, environment, platform, root, asked)
        \in {Failed("environment"), Failed("platform"), s}
  <2> HIDE DEF s
  <2> QED BY DEF ReadPixiLock, s
<1> HIDE DEF s
<1> QED BY <1>4, <1>5, FailedIs

LEMMA CondaPackageIs ==
  ASSUME NEW e
  PROVE  IsPackage(CondaPackage(e))
<1>1. \A kind, name, version, purl : IsPackage(Package(kind, name, version, purl))
  BY PackageIs
<1> QED BY <1>1 DEF CondaPackage, IsPackage, Stated, LookedUp

LEMMA CondaLockIs ==
  ASSUME NEW lock, NEW platform, NEW root
  PROVE  IsDocument(ReadCondaLock(lock, platform, root))
<1>1. \A e : IsPackage(ConvertCondaLock(e))
  <2>1. \A kind, name, version, purl : IsPackage(Package(kind, name, version, purl))
    BY PackageIs
  <2> QED BY <2>1, CondaPackageIs DEF ConvertCondaLock, IsPackage, Stated, LookedUp
<1>2. \A packages, scopes :
        (\A p \in packages : \E c, deps : IsPackage(c) /\ p = [c EXCEPT !.deps = deps])
          => IsDocument([Empty EXCEPT !.root = root, !.platform = platform, !.packages = packages,
                                      !.scopes = scopes])
  <2>1. \A packages : (\A p \in packages : \E c, deps : IsPackage(c) /\ p = [c EXCEPT !.deps = deps])
                        => ArePackages(packages)
    BY DEF ArePackages, IsPackage, Stated, LookedUp
  <2> QED BY <2>1, EmptyIs DEF IsDocument
<1>3. IsDocument(Failed("platform"))
  BY FailedIs DEF IsUnscoped
<1> QED BY <1>1, <1>2, <1>3, ZenonT(30) DEF ReadCondaLock

LEMMA ExplicitIs ==
  ASSUME NEW file, NEW asked, NEW root
  PROVE  IsUnscoped(ReadExplicit(file, asked, root))
<1>1. \A packages, platform : (\A p \in packages : IsPackage(p))
         => IsUnscoped([Empty EXCEPT !.root = root, !.platform = platform, !.packages = packages])
  BY EmptyIs DEF IsUnscoped, IsDocument, ArePackages
<1>2. IsUnscoped(Failed("unpinned")) /\ IsUnscoped(Failed("platform"))
  BY FailedIs
<1>3. \A e : IsPackage(CondaPackage(e))
  BY CondaPackageIs
<1> QED BY <1>1, <1>2, <1>3, ZenonT(30) DEF ReadExplicit

LEMMA RequirementsAre ==
  ASSUME NEW r, NEW platform, NEW root
  PROVE  IsUnscoped(FinishRequirements(r, platform, root))
<1> DEFINE Here(pin) == pin.marker = None \/ pin.marker.on = None \/ platform \in pin.marker.on
           Pin(name) == FirstWith(r.pins, LAMBDA p : Normalized(p.name) = name /\ Here(p))
           names == {Normalized(p.name) : p \in {q \in Values(r.pins) : Here(q)}}
           Id(name) == PypiPurl(name, Pin(name).version)
           Needs(name) == {n \in names \ {name} : name \in {Normalized(v) : v \in Pin(n).via}}
           Of(n) == [Package("pypi", Pin(n).name, Pin(n).version, Id(n)) EXCEPT
                       !.hash = Pin(n).hash, !.direct = Pin(n).declared,
                       !.declaredIn = IF Pin(n).declared THEN {"default"} ELSE {},
                       !.deps = {Id(m) : m \in Needs(n)}]
           packages == {Of(n) : n \in names}
           s == [Empty EXCEPT !.root = root, !.platform = platform, !.packages = packages,
                              !.declaredRoots = \E p \in packages : p.direct]
<1>1. FinishRequirements(r, platform, root)
        = IF r.error # None THEN Failed(r.error)
          ELSE IF platform \notin KnownPlatforms THEN Failed("platform") ELSE s
  BY Zenon DEF FinishRequirements
<1>2. \A n : IsPackage(Of(n))
  <2> SUFFICES ASSUME NEW n PROVE IsPackage(Of(n))
    OBVIOUS
  <2> DEFINE p == Package("pypi", Pin(n).name, Pin(n).version, Id(n))
  <2>1. IsPackage(p)
    BY PackageIs
  <2>2. Of(n) = [p EXCEPT !.hash = Pin(n).hash, !.direct = Pin(n).declared,
                          !.declaredIn = IF Pin(n).declared THEN {"default"} ELSE {},
                          !.deps = {Id(m) : m \in Needs(n)}]
    OBVIOUS
  <2> HIDE DEF p, Pin, Id, Needs, Of
  <2> QED BY <2>1, <2>2 DEF IsPackage, Stated, LookedUp
<1> HIDE DEF Of
<1>3. ArePackages(packages)
  BY <1>2 DEF ArePackages
<1> HIDE DEF packages
<1>4. IsUnscoped(s)
  BY <1>3, EmptyIs DEF IsUnscoped, IsDocument
<1> HIDE DEF s
<1> QED BY <1>1, <1>4, FailedIs

LEMMA ConvertUvIs ==
  ASSUME NEW locked, NEW member, NEW platform, NEW python
  PROVE  IsPackage(ConvertUv(locked, member, platform, python))
<1>1. \A p, hash, source : IsPackage(p)
         => IsPackage(IdentifySource([p EXCEPT !.hash = hash, !.source = source]))
  <2>1. \A p, hash, source : IsPackage(p) => IsPackage([p EXCEPT !.hash = hash, !.source = source])
    BY DEF IsPackage, Stated, LookedUp
  <2> QED BY <2>1, IdentifiedIs
<1>2. \A kind, name, version, purl : IsPackage(Package(kind, name, version, purl))
  BY PackageIs
<1> QED BY <1>1, <1>2, ZenonT(30) DEF ConvertUv

LEMMA UvIs ==
  ASSUME NEW w, NEW lock, NEW platform, NEW root
  PROVE  IsUnscoped(FinishUv(w, lock, platform, root))
<1> DEFINE all == [i \in DOMAIN lock.packages |-> i]
           project == FirstWith(all, LAMBDA i : TheProject(lock.packages[i]))
           edges == w.plain \cup {<<g[1], g[2]>> : g \in w.gated}
           reached == w.done \ {project}
           package == [i \in reached |-> ConvertUv(lock.packages[i], Member(lock.packages[i], lock),
                                                   platform, lock.python)]
           Id(i) == package[i].id
           Of(i) == [package[i] EXCEPT
                       !.direct = <<project, i>> \in edges,
                       !.deps = {Id(e[2]) : e \in {f \in edges : f[1] = i /\ f[2] \in reached}} \ {Id(i)}]
           packages == {Of(i) : i \in reached}
<1>1. \A extras, named : ArePackages(packages)
        => IsUnscoped([Empty EXCEPT !.root = named, !.platform = platform,
                                    !.packages = ApplyExtras(extras, packages)])
  <2> HIDE DEF packages
  <2>1. \A these, named : ArePackages(these)
           => IsUnscoped([Empty EXCEPT !.root = named, !.platform = platform, !.packages = these])
    BY EmptyIs DEF IsUnscoped, IsDocument
  <2> QED BY <2>1, ExtrasKeepPackages, Zenon
<1>2. \A error : IsUnscoped(Failed(error))
  BY FailedIs
<1>3. \A i \in reached : IsPackage(Of(i))
  <2> SUFFICES ASSUME NEW i \in reached PROVE IsPackage(Of(i))
    OBVIOUS
  <2> DEFINE p == package[i]
  <2>1. IsPackage(p)
    <3> HIDE DEF reached
    <3> QED BY ConvertUvIs
  <2>2. Of(i) = [p EXCEPT
                   !.direct = <<project, i>> \in edges,
                   !.deps = {Id(e[2]) : e \in {f \in edges : f[1] = i /\ f[2] \in reached}} \ {Id(i)}]
    OBVIOUS
  <2> HIDE DEF p, project, edges, reached, Id, Of
  <2> QED BY <2>1, <2>2 DEF IsPackage, Stated, LookedUp
<1>4. ArePackages(packages)
  <2> HIDE DEF Of, reached
  <2> QED BY <1>3 DEF ArePackages
<1> QED BY <1>1, <1>2, <1>4, ZenonT(60) DEF FinishUv

LEMMA DocumentIs ==
  ASSUME NEW d, NEW root, NEW platform
  PROVE  IsUnscoped(ReadDocument(d, root, platform))
<1>1. \A all, basic : ArePackages(all) /\ ArePackages(basic)
         => IsUnscoped([Empty EXCEPT
                          !.root = RootOf(d, root), !.environment = d.environment,
                          !.platform = IF platform = None THEN d.platform ELSE platform,
                          !.packages = IF d.format = "spdx3" THEN basic ELSE all])
  BY EmptyIs DEF IsUnscoped, IsDocument
<1>2. IsUnscoped(Failed("parse"))
  BY FailedIs
<1>3. \A kind, name, version, purl : IsPackage(Package(kind, name, version, purl))
  BY PackageIs
<1>4. \A c, deps : IsPackage(Restored(c, deps))
  <2> SUFFICES ASSUME NEW c, NEW deps
               PROVE  IsPackage(Restored(c, deps))
    OBVIOUS
  <2> DEFINE f == c.facts
             id == IdentityOf(c)
             p == Package(KindOf(id), f.name, f.version, id)
             q == [p EXCEPT !.deps = deps, !.license = f.license, !.hash = f.hash, !.direct = f.direct,
                            !.declaredIn = f.declaredIn, !.extras = f.extras, !.via = f.via,
                            !.inputs = f.inputs, !.conflict = f.conflict, !.installer = f.installer]
  <2>1. Restored(c, deps) = q
    BY Zenon DEF Restored
  <2>2. IsPackage(p)
    BY <1>3
  <2> HIDE DEF p
  <2>3. DOMAIN q = DOMAIN p
    BY Zenon
  <2>4. q.yanked = p.yanked
    BY <2>2 DEF IsPackage, Stated
  <2> HIDE DEF q
  <2> QED BY <2>1, <2>2, <2>3, <2>4 DEF IsPackage
<1>5. \A c : IsPackage(Spdx3Restored(c))
  BY <1>3 DEF Spdx3Restored, IsPackage, Stated, LookedUp
<1>6. ArePackages({Spdx3Restored(c) : c \in d.components})
  BY <1>5 DEF ArePackages
<1>7. \A S : (\A p \in S : \E c, deps : p = Restored(c, deps)) => ArePackages(S)
  BY <1>4 DEF ArePackages
<1> QED BY <1>1, <1>2, <1>6, <1>7, ZenonT(60) DEF ReadDocument

-----------------------------------------------------------------------------
(* What a package needs is in no lesser scope. *)

ScopeRank == [required |-> 0, optional |-> 1, development |-> 2]

IsRanked(s) ==
  \A e \in Edges(s.packages) :
    {e[1], e[2]} \subseteq DOMAIN s.scopes => ScopeRank[s.scopes[e[2]]] <= ScopeRank[s.scopes[e[1]]]

\* The scopes of a document are those of some roots.
AreAssigned(s) ==
  s.scopes = <<>> \/ \E r, o, d : s.scopes = AssignScopes(s.packages, r, o, d)

LEMMA ManifestIs ==
  ASSUME NEW manifest, NEW s, IsDocument(s)
  PROVE  LET t == ApplyManifest(manifest, s)
         IN  IsDocument(t) /\ (s.scopes = <<>> => AreAssigned(t))
<1> DEFINE wanted == DeclaredFor(manifest, s.environment)
           Matching(p) == IF p.kind \notin {"pypi", "conda", "conda-source"} THEN {}
                          ELSE {d \in wanted : Key(d.name, d.pypi) = Key(p.name, p.kind = "pypi")}
           packages == {IF Matching(p) = {} THEN p
                        ELSE [p EXCEPT !.direct = TRUE,
                                       !.declaredIn = {d.feature : d \in Matching(p)},
                                       !.extras = @ \cup UNION {d.extras : d \in Matching(p)}] :
                          p \in s.packages}
           matched == UNION {Matching(p) : p \in s.packages}
           top == manifest.everyFeature /\ matched # {}
           scopes == IF top /\ DOMAIN s.scopes = {} THEN ManifestScopes(manifest, packages) ELSE s.scopes
           t == [s EXCEPT !.packages = packages,
                          !.missing = {Normalized(d.name) : d \in wanted \ matched},
                          !.declaredRoots = top,
                          !.scopes = scopes]
<1>1. ApplyManifest(manifest, s) = IF manifest.declared = {} THEN s ELSE t
  BY Zenon DEF ApplyManifest
<1>2. ArePackages(packages)
  <2>1. ASSUME NEW p \in s.packages, NEW features, NEW more
        PROVE  IsPackage([p EXCEPT !.direct = TRUE, !.declaredIn = features, !.extras = @ \cup more])
    BY DEF IsDocument, ArePackages, IsPackage, Stated, LookedUp
  <2> DEFINE Said(p) == [p EXCEPT !.direct = TRUE,
                                  !.declaredIn = {d.feature : d \in Matching(p)},
                                  !.extras = @ \cup UNION {d.extras : d \in Matching(p)}]
  <2>2. \A p \in s.packages : IsPackage(p) /\ IsPackage(Said(p))
    BY <2>1 DEF IsDocument, ArePackages
  <2>3. \A r \in packages : \E p \in s.packages : r = p \/ r = Said(p)
    <3> HIDE DEF Matching
    <3> QED OBVIOUS
  <2> HIDE DEF packages, Said
  <2> QED BY <2>2, <2>3 DEF ArePackages
<1>3. scopes = s.scopes \/ scopes = ManifestScopes(manifest, packages)
  <2> HIDE DEF packages, top
  <2> QED OBVIOUS
<1>4. \/ ManifestScopes(manifest, packages) = <<>>
      \/ \E r, o, d : ManifestScopes(manifest, packages) = AssignScopes(packages, r, o, d)
  <2> HIDE DEF packages
  <2> QED BY ZenonT(30) DEF ManifestScopes
<1>5. /\ t.packages = packages /\ t.scopes = scopes
      /\ {"packages", "excluded", "scopes", "error", "incomplete"} \subseteq DOMAIN t
  <2> HIDE DEF packages, scopes, matched, top, wanted
  <2> QED BY DEF IsDocument
<1>6. IsDocument(t) /\ (s.scopes = <<>> => AreAssigned(t))
  <2> HIDE DEF t, packages, scopes
  <2> QED BY <1>2, <1>3, <1>4, <1>5 DEF IsDocument, AreAssigned
<1>7. IsDocument(s) /\ (s.scopes = <<>> => AreAssigned(s))
  BY DEF AreAssigned
<1> HIDE DEF t
<1> QED BY <1>1, <1>6, <1>7

\* assign gives every package the least scope whose roots reach it.
LEMMA AssignedAreRanked ==
  ASSUME NEW s, IsFiniteSet(Edges(s.packages)), AreAssigned(s)
  PROVE  IsRanked(s)
<1> DEFINE edges == Edges(s.packages)
<1>1. CASE s.scopes = <<>>
  <2>1. DOMAIN s.scopes = {}
    BY <1>1
  <2> QED BY <2>1 DEF IsRanked
<1>2. ASSUME NEW required, NEW optional, NEW development,
             s.scopes = AssignScopes(s.packages, required, optional, development)
      PROVE  IsRanked(s)
  <2> DEFINE In(roots) == Reached(roots \cap Ids(s.packages), Edges(s.packages)) \cap Ids(s.packages)
             r == In(required)
             o == In(optional) \ r
             d == In(development) \ (r \cup o)
  <2>1. /\ DOMAIN s.scopes = r \cup o \cup d
        /\ \A id \in r \cup o \cup d :
             s.scopes[id] = IF id \in r THEN "required" ELSE IF id \in o THEN "optional" ELSE "development"
    <3>1. s.scopes = [id \in r \cup o \cup d |->
            IF id \in r THEN "required" ELSE IF id \in o THEN "optional" ELSE "development"]
      BY <1>2 DEF AssignScopes
    <3> HIDE DEF r, o, d
    <3> QED BY <3>1
  <2>2. ASSUME NEW e \in edges, NEW roots, e[1] \in In(roots), e[2] \in Ids(s.packages)
        PROVE  e[2] \in In(roots)
    <3>1. Closed(Reached(roots \cap Ids(s.packages), edges), edges)
      BY ReachedIs
    <3> QED BY <2>2, <3>1 DEF Closed
  <2>3. r \subseteq Ids(s.packages) /\ o \subseteq Ids(s.packages) /\ d \subseteq Ids(s.packages)
    OBVIOUS
  <2>4. ASSUME NEW e \in edges, e[1] \in DOMAIN s.scopes, e[2] \in DOMAIN s.scopes
        PROVE  /\ e[1] \in r => e[2] \in r
               /\ e[1] \in o => e[2] \in r \cup o
    <3>1. e[2] \in Ids(s.packages)
      BY <2>1, <2>3, <2>4
    <3>2. e[1] \in r => e[2] \in r
      BY <2>2, <3>1
    <3>3. e[1] \in In(optional) => e[2] \in In(optional)
      BY <2>2, <3>1
    <3> HIDE DEF In
    <3> QED BY <3>2, <3>3
  <2> HIDE DEF r, o, d, In
  <2>5. ASSUME NEW e \in edges, e[1] \in DOMAIN s.scopes, e[2] \in DOMAIN s.scopes
        PROVE  ScopeRank[s.scopes[e[2]]] <= ScopeRank[s.scopes[e[1]]]
    <3>1. /\ s.scopes[e[1]] = IF e[1] \in r THEN "required" ELSE IF e[1] \in o THEN "optional" ELSE "development"
          /\ s.scopes[e[2]] = IF e[2] \in r THEN "required" ELSE IF e[2] \in o THEN "optional" ELSE "development"
      BY <2>1, <2>5
    <3>2. /\ e[1] \in r => e[2] \in r
          /\ e[1] \in o => e[2] \in r \cup o
      BY <2>4, <2>5
    <3>3. ScopeRank["required"] = 0 /\ ScopeRank["optional"] = 1 /\ ScopeRank["development"] = 2
      BY DEF ScopeRank
    <3> QED BY <3>1, <3>2, <3>3
  <2> QED BY <2>5 DEF IsRanked
<1> QED BY <1>1, <1>2 DEF AreAssigned

-----------------------------------------------------------------------------
(* What a filter leaves. *)

\* A filter leaves a package as it is, but for edges to what it drops.
LEMMA FilteredIs ==
  ASSUME NEW f, NEW s, IsDocument(s)
  PROVE  LET t == ApplyFilter(f, s)
             kept == Kept(f, s.packages)
         IN  /\ IsDocument(t) /\ t.scopes = s.scopes
             /\ Edges(t.packages) \subseteq Edges(s.packages)
             /\ [f EXCEPT !.keepOrphans = FALSE] = NoFilter => t = s
             /\ [f EXCEPT !.keepOrphans = FALSE] # NoFilter =>
                  /\ Ids(t.packages) = Ids(s.packages) \cap kept
                  /\ Edges(t.packages)
                       = {e \in Edges(s.packages) : e[1] \in kept /\ e[2] \notin Ids(s.packages) \ kept}
                  /\ t.excluded = {p.name : p \in {q \in s.packages : q.id \notin kept}}
<1> DEFINE kept == Kept(f, s.packages)
           drop == Ids(s.packages) \ kept
           packages == {p \in s.packages : p.id \in kept}
           left == {[p EXCEPT !.deps = @ \ drop] : p \in packages}
           excluded == {p.name : p \in s.packages \ packages}
           u == [s EXCEPT !.packages = left, !.excluded = excluded]
<1> HIDE DEF kept
<1>1. ApplyFilter(f, s) = IF [f EXCEPT !.keepOrphans = FALSE] = NoFilter THEN s ELSE u
  BY Zenon DEF ApplyFilter, kept
<1>2. ASSUME NEW p \in s.packages
      PROVE  LET q == [p EXCEPT !.deps = @ \ drop]
             IN  IsPackage(q) /\ q.id = p.id /\ q.deps = p.deps \ drop
  <2> HIDE DEF drop
  <2> QED BY DEF IsDocument, ArePackages, IsPackage
<1>3. ArePackages(left)
  BY <1>2 DEF ArePackages
<1>4. Ids(left) = Ids(s.packages) \cap kept
  <2> HIDE DEF drop
  <2>1. \A id : id \in Ids(left) <=> \E p \in packages : id = p.id
    <3> DEFINE cut(p) == [p EXCEPT !.deps = @ \ drop]
    <3>1. \A p \in packages : cut(p).id = p.id
      BY <1>2
    <3>2. left = {cut(p) : p \in packages}
      OBVIOUS
    <3> HIDE DEF cut, left, packages
    <3> QED BY <3>1, <3>2 DEF Ids
  <2> QED BY <2>1 DEF Ids
<1>5. Edges(left) = {e \in Edges(s.packages) : e[1] \in kept /\ e[2] \notin drop}
  <2> HIDE DEF drop
  <2>1. \A e : e \in Edges(left) <=> \E p \in packages : \E d \in p.deps \ drop : e = <<p.id, d>>
    <3> DEFINE cut(p) == [p EXCEPT !.deps = @ \ drop]
    <3>1. \A p \in packages : cut(p).id = p.id /\ cut(p).deps = p.deps \ drop
      BY <1>2
    <3>2. left = {cut(p) : p \in packages}
      OBVIOUS
    <3> HIDE DEF cut, left, packages
    <3> QED BY <3>1, <3>2 DEF Edges
  <2>2. \A e : e \in Edges(s.packages) <=> \E p \in s.packages : \E d \in p.deps : e = <<p.id, d>>
    BY DEF Edges
  <2> QED BY <2>1, <2>2
<1>6. /\ u.packages = left /\ u.excluded = excluded /\ u.scopes = s.scopes
      /\ {"packages", "excluded", "scopes", "error", "incomplete"} \subseteq DOMAIN u
  <2> HIDE DEF left, excluded
  <2> QED BY DEF IsDocument
<1>7. excluded = {p.name : p \in {q \in s.packages : q.id \notin kept}}
  OBVIOUS
<1>8. /\ IsDocument(u) /\ u.scopes = s.scopes
      /\ Edges(u.packages) \subseteq Edges(s.packages)
      /\ Ids(u.packages) = Ids(s.packages) \cap kept
      /\ Edges(u.packages) = {e \in Edges(s.packages) : e[1] \in kept /\ e[2] \notin drop}
      /\ u.excluded = excluded
  <2> HIDE DEF u, left, excluded, drop
  <2> QED BY <1>3, <1>4, <1>5, <1>6 DEF IsDocument
<1> HIDE DEF u, left, excluded
<1> QED BY <1>1, <1>7, <1>8 DEF kept, drop

\* A graph with finitely many edges, all of which lead to a package of it.
IsWhole(packages) == IsFiniteSet(Edges(packages)) /\ DependedOn(packages) \subseteq Ids(packages)

\* What a filter keeps, where it does not keep orphans: the packages it does not
\* name and that are at the top or needed by another it keeps.
LEMMA KeptAre ==
  ASSUME NEW f, NEW packages, ArePackages(packages), IsWhole(packages), ~ f.keepOrphans
  PROVE  LET kept == Kept(f, packages)
             named == {p.id : p \in {q \in packages : Matches(f, q)}}
             top == Ids(packages) \ DependedOn(packages)
         IN  /\ kept \subseteq Ids(packages) /\ kept \cap named = {} /\ top \ named \subseteq kept
             /\ \A e \in Edges(packages) : e[1] \in kept => e[2] \in kept \cup named
             /\ \A id \in kept : id \in top \/ \E e \in Edges(packages) : e[1] \in kept /\ e[2] = id
<1> DEFINE ids == Ids(packages)
           named == {p.id : p \in {q \in packages : Matches(f, q)}}
           roots == ids \ (named \cup DependedOn(packages))
           open == {e \in Edges(packages) : e[2] \notin named}
           reached == Reached(roots, open)
           top == ids \ DependedOn(packages)
           kept == Kept(f, packages)
<1>1. kept = reached \cap ids
  BY DEF Kept
<1>2. \A e \in Edges(packages) : e[1] \in ids /\ e[2] \in ids
  BY DEF Edges, Ids, DependedOn, IsWhole
<1>3. IsFiniteSet(open)
  <2>1. open \subseteq Edges(packages)
    OBVIOUS
  <2> HIDE DEF open
  <2> QED BY <2>1, FS_Subset DEF IsWhole
<1> HIDE DEF open, roots, named, kept, ids
<1>4. /\ roots \subseteq reached
      /\ Closed(reached, open)
      /\ \A x \in reached : x \in roots \/ \E e \in open : e[1] \in reached /\ e[2] = x
  BY <1>3, ReachedIs
<1> HIDE DEF reached
<1>5. kept \subseteq ids /\ kept \cap named = {}
  BY <1>1, <1>4 DEF open, roots
<1>6. top \ named \subseteq kept
  BY <1>1, <1>4 DEF roots
<1>7. \A e \in Edges(packages) : e[1] \in kept => e[2] \in kept \cup named
  BY <1>1, <1>2, <1>4 DEF open, Closed
<1>8. \A id \in kept : id \in top \/ \E e \in Edges(packages) : e[1] \in kept /\ e[2] = id
  BY <1>1, <1>2, <1>4 DEF open, roots
<1> QED BY <1>5, <1>6, <1>7, <1>8 DEF ids, named, kept

\* What ApplyFilter leaves is what FilterIsExact says.
LEMMA FilterIsAround ==
  ASSUME NEW f \in Filters, NEW s, IsDocument(s), IsWhole(s.packages), ~ f.keepOrphans
  PROVE  LET t == ApplyFilter(f, s)
             all == s.packages
             kept == Ids(t.packages)
             named == {p.id : p \in {q \in all : Matches(f, q)}}
             top == Ids(all) \ DependedOn(all)
         IN  /\ kept \cap named = {} /\ top \ named \subseteq kept
             /\ Edges(t.packages) = Edges(all) \cap (kept \X kept)
             /\ \A id \in kept : id \in top \/ \E e \in Edges(t.packages) : e[2] = id
             /\ \A e \in Edges(all) : e[1] \in kept => e[2] \in kept \cup named
             /\ f # NoFilter => t.excluded = {p.name : p \in {q \in all : q.id \notin kept}}
<1> DEFINE t == ApplyFilter(f, s)
           all == s.packages
           kept == Ids(t.packages)
           named == {p.id : p \in {q \in all : Matches(f, q)}}
           top == Ids(all) \ DependedOn(all)
           before == Kept(f, all)
           bare == [f EXCEPT !.keepOrphans = FALSE]
<1>1. DependedOn(all) \subseteq Ids(all)
  BY DEF IsWhole
<1>2. \A e \in Edges(all) : e = <<e[1], e[2]>> /\ e[1] \in Ids(all) /\ e[2] \in Ids(all)
  BY <1>1 DEF Edges, Ids, DependedOn
<1>3. CASE bare = NoFilter
  <2>1. t = s
    BY <1>3, FilteredIs
  <2>2. f = NoFilter
    <3>1. f = [x \in DOMAIN NoFilter |-> f[x]] /\ f.keepOrphans = FALSE
      BY FiltersAssumption
    <3>2. DOMAIN f = DOMAIN NoFilter /\ NoFilter.keepOrphans = FALSE
      BY <3>1 DEF NoFilter
    <3>3. \A x \in DOMAIN NoFilter : f[x] = NoFilter[x]
      BY <1>3, <3>1, <3>2
    <3>4. NoFilter = [x \in DOMAIN NoFilter |-> NoFilter[x]]
      BY DEF NoFilter
    <3> QED BY <3>1, <3>3, <3>4
  <2>3. named = {}
    BY <2>2 DEF Matches, NoFilter
  <2>4. kept = Ids(all)
    BY <2>1
  <2>5. Edges(t.packages) = Edges(all) \cap (kept \X kept)
    <3>1. \A e \in Edges(all) : e \in Ids(all) \X Ids(all)
      BY <1>2
    <3> QED BY <2>1, <2>4, <3>1
  <2>6. \A id \in kept : id \in top \/ \E e \in Edges(t.packages) : e[2] = id
    <3>1. ASSUME NEW id \in DependedOn(all)
          PROVE  \E e \in Edges(all) : e[2] = id
      <4>1. PICK p \in all : id \in p.deps
        BY DEF DependedOn
      <4>2. <<p.id, id>> \in Edges(all)
        BY <4>1 DEF Edges
      <4> QED BY <4>2
    <3> QED BY <2>1, <2>4, <3>1
  <2> HIDE DEF t, kept, named, top, all
  <2> QED BY <1>1, <1>2, <2>2, <2>3, <2>4, <2>5, <2>6 DEF t, all, kept, named, top
<1>4. CASE bare # NoFilter
  <2>1. /\ Ids(t.packages) = Ids(all) \cap before
        /\ Edges(t.packages) = {e \in Edges(all) : e[1] \in before /\ e[2] \notin Ids(all) \ before}
        /\ t.excluded = {p.name : p \in {q \in all : q.id \notin before}}
    BY <1>4, FilteredIs
  <2>2. /\ before \subseteq Ids(all) /\ before \cap named = {} /\ top \ named \subseteq before
        /\ \A e \in Edges(all) : e[1] \in before => e[2] \in before \cup named
        /\ \A id \in before : id \in top \/ \E e \in Edges(all) : e[1] \in before /\ e[2] = id
    BY KeptAre DEF IsDocument
  <2> HIDE DEF before, named, top, t, all
  <2>3. kept = before
    BY <2>1, <2>2
  <2>4. Edges(t.packages) = Edges(all) \cap (before \X before)
    BY <1>2, <2>1, <2>2
  <2>5. \A id \in before : id \in top \/ \E e \in Edges(t.packages) : e[2] = id
    BY <1>2, <2>1, <2>2
  <2> HIDE DEF kept
  <2> QED BY <1>1, <2>1, <2>2, <2>3, <2>4, <2>5 DEF t, all, kept, named, top
<1> QED BY <1>3, <1>4

-----------------------------------------------------------------------------
(* The documents of a run. *)

\* The locks there are have finitely many packages that need finitely many others.
GraphsAreFinite == stage = "read" => IsFiniteSet(Edges(sbom.packages))

\* As it was read, a document has every package that one of its packages needs.
EdgesStayInside ==
  (run = 1 /\ stage = "read" /\ filter = None) => DependedOn(sbom.packages) \subseteq Ids(sbom.packages)

HasDocument == stage \in {"read", "written"}

DocumentsInv ==
  /\ input \in Inputs \cup Later
  /\ HasDocument => IsDocument(sbom)
  /\ (HasDocument /\ input.format # "conda-lock") => IsRanked(sbom)
  /\ (run = 1 /\ filter # None) => HasDocument

ReadVars == <<run, input, filter>>

\* What was read keeps the invariant, with the manifest beside it.
LEMMA IsReadKeeps ==
  ASSUME NEW s, DocumentsInv, GraphsAreFinite', IsRead(s), ~ HasDocument, UNCHANGED ReadVars,
         IsDocument(s), input.format # "conda-lock" => s.scopes = <<>>
  PROVE  DocumentsInv'
<1>1. sbom' = WithManifest(input, s) /\ stage' \in {"failed", "read"}
  BY DEF IsRead
<1>2. IsDocument(sbom') /\ (input.format # "conda-lock" => AreAssigned(sbom'))
  BY <1>1, ManifestIs DEF WithManifest, AreAssigned
<1>3. stage' = "read" => (input.format # "conda-lock" => IsRanked(sbom'))
  BY <1>2, AssignedAreRanked DEF GraphsAreFinite
<1> QED BY <1>1, <1>2, <1>3 DEF DocumentsInv, HasDocument, ReadVars

LEMMA UnscopedIs ==
  ASSUME NEW s, IsUnscoped(s)
  PROVE  IsDocument(s) /\ s.scopes = <<>>
BY DEF IsUnscoped

LEMMA ReadAtOnceKeeps ==
  ASSUME DocumentsInv, GraphsAreFinite', ReadAtOnce
  PROVE  DocumentsInv'
<1> DEFINE i == input
           s == CASE i.format = "pixi" ->
                       ReadPixiLock(i.lock, i.environment, i.platform, Root(i),
                                    RequestedExtras(Manifest(i), i.environment))
                  [] i.format = "poetry" -> ReadPoetry(i.lock, i.platform, Root(i))
                  [] i.format = "pdm" -> ReadPdm(i.lock, i.platform, Root(i))
                  [] i.format = "pylock" -> ReadPylock(i.lock, i.platform, Root(i))
                  [] i.format = "conda-lock" -> ReadCondaLock(i.lock, i.platform, Root(i))
                  [] i.format = "explicit" -> ReadExplicit(i.lock, i.platform, Root(i))
                  [] i.format = "document" -> ReadDocument(i.lock, NoRoot, i.platform)
<1>1. IsRead(s) /\ ~ HasDocument /\ UNCHANGED ReadVars /\ i.format \notin {"uv", "requirements"}
  BY DEF ReadAtOnce, HasDocument, ReadVars
<1>2. i.format \in {"pixi", "poetry", "pdm", "pylock", "conda-lock", "explicit", "document"}
  BY <1>1, InputsAssumption DEF DocumentsInv
<1>3. IsDocument(s) /\ (i.format # "conda-lock" => s.scopes = <<>>)
  <2>1. CASE i.format = "pixi"
    BY <2>1, PixiIs, UnscopedIs
  <2>2. CASE i.format = "poetry"
    BY <2>2, PoetryIs, UnscopedIs
  <2>3. CASE i.format = "pdm"
    BY <2>3, PdmIs, UnscopedIs
  <2>4. CASE i.format = "pylock"
    BY <2>4, PylockIs, UnscopedIs
  <2>5. CASE i.format = "conda-lock"
    BY <2>5, CondaLockIs
  <2>6. CASE i.format = "explicit"
    BY <2>6, ExplicitIs, UnscopedIs
  <2>7. CASE i.format = "document"
    BY <2>7, DocumentIs, UnscopedIs
  <2> HIDE DEF s
  <2> QED BY <1>2, <2>1, <2>2, <2>3, <2>4, <2>5, <2>6, <2>7
<1> HIDE DEF s
<1> QED BY <1>1, <1>3, IsReadKeeps

\* The steps that leave the document as it is, or have none.
LEMMA OthersKeep ==
  ASSUME DocumentsInv,
         \/ StartUv \/ VisitUv \/ StartRequirements \/ ReadRequirement
         \/ \E format \in OutputFormats : WriteDocument(format)
         \/ \E i \in Later : AgainstLock(i) \/ AgainstDocument(i)
         \/ CompareWithEarlier
         \/ \E first \in BOOLEAN : MergeWithEarlier(first)
  PROVE  DocumentsInv'
<1>1. CASE StartUv \/ VisitUv \/ StartRequirements \/ ReadRequirement
  <2>1. UNCHANGED ReadVars /\ ~ HasDocument /\ stage' \in {"walking", "reading"}
    BY <1>1 DEF StartUv, VisitUv, StartRequirements, ReadRequirement, HasDocument, ReadVars
  <2> QED BY <2>1 DEF DocumentsInv, HasDocument, ReadVars
<1>2. ASSUME NEW format \in OutputFormats, WriteDocument(format)
      PROVE  DocumentsInv'
  BY <1>2 DEF WriteDocument, DocumentsInv, HasDocument
<1>3. ASSUME NEW i \in Later, AgainstLock(i) \/ AgainstDocument(i)
      PROVE  DocumentsInv'
  <2>1. run' = 2 /\ input' = i /\ stage' = "opened"
    BY <1>3 DEF AgainstLock, AgainstDocument, SecondRun
  <2> QED BY <2>1 DEF DocumentsInv, HasDocument
<1>4. CASE CompareWithEarlier \/ \E first \in BOOLEAN : MergeWithEarlier(first)
  <2>1. run' = 2 /\ input' = input /\ stage' = "done"
    BY <1>4 DEF CompareWithEarlier, MergeWithEarlier
  <2> QED BY <2>1 DEF DocumentsInv, HasDocument
<1> QED BY <1>1, <1>2, <1>3, <1>4

LEMMA FilterKeeps ==
  ASSUME DocumentsInv, NEW f \in Filters, Filter(f)
  PROVE  DocumentsInv'
<1>1. /\ stage = "read" /\ stage' = stage /\ run' = run /\ input' = input
      /\ sbom' = ApplyFilter(f, sbom)
  BY DEF Filter
<1>2. IsDocument(sbom)
  BY <1>1 DEF DocumentsInv, HasDocument
<1>3. IsDocument(sbom') /\ sbom'.scopes = sbom.scopes /\ Edges(sbom'.packages) \subseteq Edges(sbom.packages)
  BY <1>1, <1>2, FilteredIs
<1>4. IsRanked(sbom) => IsRanked(sbom')
  BY <1>3 DEF IsRanked
<1> QED BY <1>1, <1>3, <1>4 DEF DocumentsInv, HasDocument

LEMMA DocumentsInvKept ==
  DocumentsInv /\ GraphsAreFinite' /\ [Next]_vars => DocumentsInv'
<1> SUFFICES ASSUME DocumentsInv, GraphsAreFinite', [Next]_vars
             PROVE  DocumentsInv'
  OBVIOUS
<1>1. CASE EndUv
  <2> DEFINE s == FinishUv(walk, input.lock, input.platform, Root(input))
  <2>1. IsRead(s) /\ ~ HasDocument /\ UNCHANGED ReadVars
    BY <1>1 DEF EndUv, HasDocument, ReadVars
  <2>2. IsDocument(s) /\ s.scopes = <<>>
    BY UvIs, UnscopedIs
  <2> HIDE DEF s
  <2> QED BY <2>1, <2>2, IsReadKeeps
<1>2. CASE EndRequirements
  <2> DEFINE s == FinishRequirements(reading, input.platform, Root(input))
  <2>1. IsRead(s) /\ ~ HasDocument /\ UNCHANGED ReadVars
    BY <1>2 DEF EndRequirements, HasDocument, ReadVars
  <2>2. IsDocument(s) /\ s.scopes = <<>>
    BY RequirementsAre, UnscopedIs
  <2> HIDE DEF s
  <2> QED BY <2>1, <2>2, IsReadKeeps
<1>3. CASE UNCHANGED vars
  BY <1>3 DEF vars, DocumentsInv, HasDocument
<1> QED BY <1>1, <1>2, <1>3, ReadAtOnceKeeps, OthersKeep, FilterKeeps DEF Next

\* To look for locks, and to look up what they do not say, leaves the documents alone.
LEMMA ScanIsDocuments ==
  [ScanNext]_svars => [Next]_vars
BY DEF ScanNext, Next, svars, LookForLocks, OpenLock, LookUp

\* Every run has the documents that it reads.
THEOREM DocumentsInvHolds == ScanSpec /\ []GraphsAreFinite => []DocumentsInv
<1>1. ScanInit => DocumentsInv
  BY DEF ScanInit, Init, DocumentsInv, HasDocument
<1> QED BY <1>1, DocumentsInvKept, ScanIsDocuments, PTL DEF ScanSpec

\* What a required package needs is required and what an optional one needs is not for
\* development, whatever roots a manifest gives the scopes, whatever cycles there are,
\* and whatever was filtered out (scope.rs:47).
THEOREM NeededHolds == ScanSpec /\ []GraphsAreFinite => []NeededIsRequired
<1>1. DocumentsInv => NeededIsRequired
  BY DEF DocumentsInv, HasDocument, NeededIsRequired, IsRanked, ScopeRank
<1> QED BY <1>1, DocumentsInvHolds, PTL

-----------------------------------------------------------------------------
(* What was filtered. *)

FilterInv == (run = 1 /\ filter # None) => FilterIsExact

LEMMA FilterInvKept ==
  DocumentsInv /\ GraphsAreFinite /\ EdgesStayInside /\ FilterInv /\ [Next]_vars => FilterInv'
<1> SUFFICES ASSUME DocumentsInv, GraphsAreFinite, EdgesStayInside, FilterInv, [Next]_vars
             PROVE  FilterInv'
  OBVIOUS
<1>1. ASSUME NEW f \in Filters, Filter(f)
      PROVE  FilterInv'
  <2>1. /\ run = 1 /\ stage = "read" /\ filter = None
        /\ filter' = f /\ unfiltered' = sbom /\ sbom' = ApplyFilter(f, sbom)
    BY <1>1 DEF Filter
  <2>2. IsDocument(sbom) /\ IsWhole(sbom.packages)
    BY <2>1 DEF DocumentsInv, HasDocument, GraphsAreFinite, EdgesStayInside, IsWhole
  <2>3. CASE f.keepOrphans
    BY <2>1, <2>3 DEF FilterInv, FilterIsExact
  <2>4. CASE ~ f.keepOrphans
    BY <2>1, <2>2, <2>4, FilterIsAround DEF FilterInv, FilterIsExact
  <2> QED BY <2>3, <2>4
<1>2. ASSUME ~ \E f \in Filters : Filter(f)
      PROVE  \/ ~ (run' = 1 /\ filter' # None)
             \/ UNCHANGED <<run, filter, unfiltered, sbom>>
  <2>1. CASE ReadAtOnce \/ StartUv \/ VisitUv \/ EndUv \/ StartRequirements \/ ReadRequirement \/ EndRequirements
    <3>1. ~ HasDocument /\ run' = run /\ filter' = filter
      BY <2>1 DEF ReadAtOnce, StartUv, VisitUv, EndUv, StartRequirements, ReadRequirement,
                  EndRequirements, HasDocument
    <3> QED BY <3>1 DEF DocumentsInv
  <2>2. CASE \E format \in OutputFormats : WriteDocument(format)
    BY <2>2 DEF WriteDocument
  <2>3. CASE \E i \in Later : AgainstLock(i) \/ AgainstDocument(i)
    BY <2>3 DEF AgainstLock, AgainstDocument, SecondRun
  <2>4. CASE CompareWithEarlier \/ \E first \in BOOLEAN : MergeWithEarlier(first)
    BY <2>4 DEF CompareWithEarlier, MergeWithEarlier
  <2>5. CASE UNCHANGED vars
    BY <2>5 DEF vars
  <2> QED BY <1>2, <2>1, <2>2, <2>3, <2>4, <2>5 DEF Next
<1>3. CASE ~ \E f \in Filters : Filter(f)
  BY <1>2, <1>3 DEF FilterInv, FilterIsExact
<1> QED BY <1>1, <1>3

\* Whatever is left out, the packages that stay are those around it and the graph that
\* stays is the one between them, for any filter and any cycles (filter.rs:109).
THEOREM FilterHolds ==
  ScanSpec /\ []GraphsAreFinite /\ []EdgesStayInside => []FilterIsExact
<1>1. ScanInit => FilterInv
  BY DEF ScanInit, Init, FilterInv
<1>2. FilterInv => FilterIsExact
  BY DEF FilterInv, FilterIsExact
<1> QED BY <1>1, <1>2, FilterInvKept, DocumentsInvHolds, ScanIsDocuments, PTL DEF ScanSpec

-----------------------------------------------------------------------------
(* What was looked up. *)

\* The locks have finitely many packages; an id is one package of a lock, and in
\* another lock one of the same kind; and what there is to be had of an id fits it.
LocksAreFinite == \A i \in DOMAIN given : IsFiniteSet(given[i].packages)
IdsTellApart ==
  \A i \in DOMAIN given : \A j \in DOMAIN given :
    \A p \in given[i].packages : \A q \in given[j].packages :
      p.id = q.id => /\ p.kind = q.kind /\ FromIndex(p) = FromIndex(q)
                     /\ i = j => p = q
SourceFits(p) ==
  /\ (Source(p).extracted # None \/ Source(p).archive # None) => p.kind = "conda"
  /\ (FromIndex(p) /\ Source(p).index # None) => p.version # None
SourcesFit == \A i \in DOMAIN given : \A p \in given[i].packages : SourceFits(p)

LocksAreSound == LocksAreFinite /\ IdsTellApart /\ SourcesFit

HasFields(p) == Stated \cup LookedUp \subseteq DOMAIN p

\* A package of which nothing was looked up.
IsBare(p) ==
  /\ Stated \cup LookedUp \subseteq DOMAIN p
  /\ p.licenseFrom = None /\ p.files = {} /\ p.filesFrom = None /\ ~ p.yanked

FirstSource(p) == IF p.kind = "pypi" THEN "wheel" ELSE "package-cache"
SecondSource(p) == IF p.kind = "pypi" THEN "pypi" ELSE "conda-archive"

\* The releases whose file is torn and will be read.
Torn == {id \in DOMAIN cache : options.mayRead /\ cache[id] = "torn"}

\* The source has no license of a package, or the document says why it was not asked.
Told(torn, d, p, source) ==
  LicenseAt(p, source) = None \/ IsNoted(d, source) \/ (source = "pypi" /\ p.id \in torn)

\* What is stated stays; what is not is that of the first source that has one.
LicenseIsOwn(torn, q, p, d, asked) ==
  /\ q.license # None => p.license = q.license /\ p.licenseFrom = None
  /\ (q.license = None /\ p.license # None) =>
       /\ p.license = LicenseAt(p, p.licenseFrom)
       /\ \/ p.licenseFrom = FirstSource(p)
          \/ p.licenseFrom = SecondSource(p) /\ Told(torn, d, p, FirstSource(p))
  /\ p.license = None =>
       /\ p.licenseFrom = None
       /\ \A source \in {FirstSource(p), SecondSource(p)} \cap asked : Told(torn, d, p, source)

\* A release that was yanked is said to be, if PyPI could be asked.
YankedIsSaid(torn, p, d) ==
  (FromIndex(p) /\ Source(p).index # None /\ Source(p).index.yanked /\ ~ p.yanked) =>
    IsNoted(d, "pypi") \/ p.id \in torn

IsSame(q, p) ==
  /\ p.id = q.id /\ p.kind = q.kind /\ p.source = q.source /\ p.version = q.version
  /\ p.deps = q.deps /\ p.purl = q.purl /\ p.hash = q.hash

\* p is what became of q in d when these sources were asked.
IsLearned(torn, q, p, d, asked) ==
  /\ Stated \cup LookedUp \subseteq DOMAIN p
  /\ IsSame(q, p)
  /\ LicenseIsOwn(torn, q, p, d, asked)
  /\ (p.files # {}) = (p.filesFrom # None)
  /\ p.yanked => Source(p).index.yanked
  /\ "pypi" \in asked => YankedIsSaid(torn, p, d)

\* p is what became of q in d when all were asked for what f, of some lock, lacks.
IsTold(torn, q, f, p, d) ==
  /\ Stated \cup LookedUp \subseteq DOMAIN p
  /\ IsSame(q, p)
  /\ p.licenseFrom = None => p.license = q.license
  /\ p.licenseFrom # None =>
       /\ f.license = None /\ p.license # None
       /\ p.license = LicenseAt(p, p.licenseFrom)
       /\ \/ p.licenseFrom = FirstSource(p)
          \/ p.licenseFrom = SecondSource(p) /\ Told(torn, d, p, FirstSource(p))
  /\ (p.licenseFrom = None /\ f.license = None) =>
       \A source \in {FirstSource(p), SecondSource(p)} : Told(torn, d, p, source)
  /\ (p.files # {}) = (p.filesFrom # None)
  /\ p.yanked => Source(p).index.yanked
  /\ YankedIsSaid(torn, p, d)

AreLearned(torn, base, d, asked) ==
  /\ \A p \in d.packages : \E q \in base.packages : IsLearned(torn, q, p, d, asked)
  /\ \A q \in base.packages : \E p \in d.packages : p.id = q.id
  /\ \A p \in d.packages : \A r \in d.packages : p.id = r.id => p = r

Sources == {"wheel", "package-cache", "conda-archive", "pypi"}
Asked ==
  CASE phase = "wheels" -> {}
    [] phase = "package cache" -> {"wheel"}
    [] phase = "archives" -> {"wheel", "package-cache"}
    [] phase \in {"releases", "asking"} -> {"wheel", "package-cache", "conda-archive"}
    [] OTHER -> Sources

Base == IF current = 0 THEN Union(given) ELSE given[current]

LooksUp == phase \notin {"idle", "enriched"}

\* The document that is being looked up has what the sources asked so far have.
SubjectInv ==
  LooksUp =>
    /\ {"packages", "incomplete"} \subseteq DOMAIN subject
    /\ IsFiniteSet(subject.packages)
    /\ AreLearned(Torn, Base, subject, Asked)
    /\ current = 0 => \A n \in subject.incomplete : "step" \in DOMAIN n
    /\ phase = "archives" =>
         missing = {p.id : p \in {r \in subject.packages : r.kind = "conda" /\ Source(r).extracted = None}}

\* PyPI is asked for its releases, and for no torn one.
JobsInv ==
  phase = "asking" =>
    /\ DOMAIN jobs = {p.id : p \in {r \in subject.packages : FromIndex(r) /\ r.version # None}}
    /\ \A id \in DOMAIN jobs :
         /\ jobs[id] \in {"waiting", "sent", "failed", "whole", "torn"}
         /\ jobs[id] = "whole" => id \in IndexIds
         /\ jobs[id] = "torn" => id \in Torn
         /\ jobs[id] = "sent" => id \notin Torn

\* The lock that the lookup of a package of document i went by.
GoesBy(i, id, j) ==
  /\ j \in DOMAIN given /\ id \in Ids(given[j].packages)
  /\ IF current = 0 THEN \A k \in 1..(j - 1) : id \notin Ids(given[k].packages) ELSE j = i

IsDone(i) ==
  \A p \in documents[i].packages : \E q \in given[i].packages :
    \E j \in DOMAIN given : \E f \in given[j].packages :
      /\ p.id = q.id /\ f.id = p.id /\ GoesBy(i, p.id, j)
      /\ IsTold(Torn, q, f, p, documents[i])

\* Each document is as it was given until it is done.
EachInv ==
  phase # "idle" =>
    /\ DOMAIN documents = DOMAIN given /\ given \in Seq(Values(given))
    /\ documents \in Seq(Values(documents)) /\ Len(documents) > 0
    /\ current \in {0} \cup DOMAIN given
    /\ \A i \in DOMAIN given :
         /\ {"packages", "incomplete"} \subseteq DOMAIN given[i]
         /\ \A p \in given[i].packages : IsBare(p)
         /\ IF phase = "enriched" \/ i < current THEN IsDone(i) ELSE documents[i] = given[i]

CacheInv == phase # "idle" => cache \in [IndexIds -> {"absent", "whole", "torn"}]

LookupInv == SubjectInv /\ JobsInv /\ EachInv /\ CacheInv

\* The lock of the first run is a document.
EarlierInv ==
  /\ run \in {1, 2}
  /\ (run = 2 /\ earlier.name = "lock") => IsDocument(earlier.sbom)

LEMMA ImageIsFinite ==
  ASSUME NEW f, IsFiniteSet(DOMAIN f)
  PROVE  IsFiniteSet({f[x] : x \in DOMAIN f})
<1> DEFINE S == DOMAIN f
           T == {f[x] : x \in S}
           g == [x \in S |-> f[x]]
<1>1. g \in Surjection(S, T)
  BY DEF Surjection
<1> HIDE DEF S, T, g
<1>2. IsFiniteSet(T)
  BY <1>1, FS_Surjection DEF S
<1> QED BY <1>2 DEF T, S

LEMMA BareIs ==
  ASSUME NEW p, IsPackage(p)
  PROVE  IsBare(Bare(p))
BY DEF Bare, ++, IsBare, IsPackage, Stated, LookedUp

\* The union has each package of the documents once, as the first that has it says
\* it is, without its edges.
IsUnion(u, D) ==
  /\ {"packages", "incomplete"} \subseteq DOMAIN u /\ u.incomplete = {}
  /\ \A q \in u.packages : \E i \in DOMAIN D : \E p \in D[i].packages :
       q = [p EXCEPT !.deps = {}] /\ \A k \in 1..(i - 1) : p.id \notin Ids(D[k].packages)
  /\ \A i \in DOMAIN D : \A p \in D[i].packages : \E q \in u.packages : q.id = p.id
  /\ \A q \in u.packages : \A r \in u.packages : q.id = r.id => q = r

LEMMA UnionIs ==
  ASSUME NEW D, NEW n \in Nat \ {0}, DOMAIN D = 1..n,
         \A i \in DOMAIN D : {"packages", "incomplete"} \subseteq DOMAIN D[i],
         \A i \in DOMAIN D : \A p \in D[i].packages : IsBare(p),
         \A i \in DOMAIN D : \A p \in D[i].packages : \A q \in D[i].packages : p.id = q.id => p = q,
         \A i \in DOMAIN D : IsFiniteSet(D[i].packages)
  PROVE  IsUnion(Union(D), D) /\ IsFiniteSet(Union(D).packages)
<1> DEFINE Firsts(i) == {p \in D[i].packages : \A j \in 1..(i - 1) : p.id \notin Ids(D[j].packages)}
           all == UNION {Firsts(i) : i \in DOMAIN D}
           cut(p) == [p EXCEPT !.deps = {}]
           left == {cut(p) : p \in all}
           u == Union(D)
<1>1. u.packages = left /\ u.incomplete = {} /\ {"packages", "incomplete"} \subseteq DOMAIN u
  <2>1. u = [D[1] EXCEPT !.packages = left, !.incomplete = {}]
    BY Zenon DEF Union
  <2>2. {"packages", "incomplete"} \subseteq DOMAIN D[1]
    OBVIOUS
  <2> HIDE DEF left, u
  <2> QED BY <2>1, <2>2
<1>2. \A p \in all : cut(p).id = p.id
  <2>1. \A p \in all : "id" \in DOMAIN p
    BY DEF IsBare, Stated
  <2> HIDE DEF all
  <2> QED BY <2>1
<1>3. \A i \in DOMAIN D : \A p \in D[i].packages : \E q \in all : q.id = p.id
  <2> DEFINE Has(k, id) == k \in DOMAIN D /\ id \in Ids(D[k].packages)
             K == {k \in Nat : \A i \in 1..k : \A id : Has(i, id) => \E q \in all : q.id = id}
  <2>1. 0 \in K
    OBVIOUS
  <2>2. ASSUME NEW k \in Nat, k \in K PROVE k + 1 \in K
    <3> SUFFICES ASSUME NEW id, Has(k + 1, id) PROVE \E q \in all : q.id = id
      BY <2>2
    <3>1. CASE \E j \in 1..k : Has(j, id)
      BY <2>2, <3>1
    <3>2. CASE \A j \in 1..k : ~ Has(j, id)
      <4>1. PICK p \in D[k + 1].packages : p.id = id
        BY DEF Ids
      <4>2. \A j \in 1..((k + 1) - 1) : p.id \notin Ids(D[j].packages)
        BY <3>2, <4>1
      <4>3. p \in Firsts(k + 1)
        BY <4>1, <4>2
      <4> HIDE DEF Firsts
      <4> QED BY <4>1, <4>3
    <3> QED BY <3>1, <3>2
  <2>3. Nat \subseteq K
    <3> HIDE DEF K
    <3> QED BY <2>1, <2>2, Induction
  <2> SUFFICES ASSUME NEW i \in DOMAIN D, NEW p \in D[i].packages
               PROVE  \E q \in all : q.id = p.id
    OBVIOUS
  <2>4. i \in Nat /\ i \in 1..i /\ Has(i, p.id)
    BY DEF Ids
  <2>5. i \in K
    BY <2>3, <2>4
  <2> HIDE DEF all, Has
  <2> QED BY <2>4, <2>5
<1>4. \A p \in all : \E i \in DOMAIN D :
        p \in D[i].packages /\ \A k \in 1..(i - 1) : p.id \notin Ids(D[k].packages)
  OBVIOUS
<1>5. \A p \in all : \A q \in all : p.id = q.id => p = q
  <2> SUFFICES ASSUME NEW i \in 1..n, NEW j \in 1..n, NEW p \in Firsts(i), NEW q \in Firsts(j), p.id = q.id
               PROVE  p = q
    OBVIOUS
  <2>1. p.id \in Ids(D[i].packages) /\ q.id \in Ids(D[j].packages)
    BY DEF Ids
  <2>2. ~ (i < j) /\ ~ (j < i)
    BY <2>1
  <2> QED BY <2>2
<1>6. IsFiniteSet(all)
  <2> DEFINE f == [i \in 1..n |-> Firsts(i)]
  <2>1. IsFiniteSet({f[i] : i \in DOMAIN f})
    <3> HIDE DEF Firsts
    <3>1. IsFiniteSet(1..n) /\ DOMAIN f = 1..n
      BY FS_Interval
    <3> HIDE DEF f
    <3> QED BY <3>1, ImageIsFinite
  <2>2. {Firsts(i) : i \in DOMAIN D} = {f[i] : i \in DOMAIN f}
    <3> HIDE DEF Firsts
    <3> QED OBVIOUS
  <2>3. \A i \in DOMAIN D : IsFiniteSet(Firsts(i))
    BY FS_Subset
  <2> HIDE DEF Firsts
  <2>4. \A T \in {f[i] : i \in DOMAIN f} : IsFiniteSet(T)
    BY <2>3
  <2> QED BY <2>1, <2>2, <2>4, FS_UNION
<1> HIDE DEF all
<1>7. IsFiniteSet(left)
  <2> DEFINE f == [p \in all |-> cut(p)]
  <2> HIDE DEF cut
  <2>1. left = {f[p] : p \in DOMAIN f} /\ DOMAIN f = all
    OBVIOUS
  <2> HIDE DEF f, left
  <2> QED BY <1>6, <2>1, ImageIsFinite
<1>8. /\ \A q \in left : \E i \in DOMAIN D : \E p \in D[i].packages :
           q = cut(p) /\ \A k \in 1..(i - 1) : p.id \notin Ids(D[k].packages)
      /\ \A i \in DOMAIN D : \A p \in D[i].packages : \E q \in left : q.id = p.id
      /\ \A q \in left : \A r \in left : q.id = r.id => q = r
  <2> HIDE DEF cut
  <2> QED BY <1>2, <1>3, <1>4, <1>5
<1> HIDE DEF u, left
<1> QED BY <1>1, <1>7, <1>8 DEF IsUnion, u

\* r is what asking a source makes of p, in d.
IsTaken(torn, p, r, d, source) ==
  /\ Stated \cup LookedUp \subseteq DOMAIN r
  /\ IsSame(p, r)
  /\ \/ /\ r.license = p.license /\ r.licenseFrom = p.licenseFrom
        /\ (p.license = None /\ source \in {FirstSource(p), SecondSource(p)}) => Told(torn, d, p, source)
     \/ /\ source \in {FirstSource(p), SecondSource(p)} /\ p.license = None
        /\ r.license # None /\ r.license = LicenseAt(p, source) /\ r.licenseFrom = source
  /\ (p.files # {}) = (p.filesFrom # None) => (r.files # {}) = (r.filesFrom # None)
  /\ p.yanked => r.yanked
  /\ r.yanked => p.yanked \/ Source(p).index.yanked
  /\ source = "pypi" => YankedIsSaid(torn, r, d)

\* What decides of a license is the same in what became of a package.
LEMMA SameIs ==
  ASSUME NEW q, NEW p, IsSame(q, p)
  PROVE  /\ FirstSource(p) = FirstSource(q) /\ SecondSource(p) = SecondSource(q)
         /\ \A source : LicenseAt(p, source) = LicenseAt(q, source)
         /\ Source(p) = Source(q) /\ FromIndex(p) = FromIndex(q)
         /\ \A torn, d, source : Told(torn, d, p, source) <=> Told(torn, d, q, source)
<1>1. Source(p) = Source(q)
  BY DEF IsSame, Source
<1>2. FromIndex(p) = FromIndex(q)
  BY DEF IsSame, FromIndex
<1>3. \A source : LicenseAt(p, source) = LicenseAt(q, source)
  BY <1>1, <1>2, Zenon DEF LicenseAt
<1>4. \A torn, d, source : Told(torn, d, p, source) <=> Told(torn, d, q, source)
  BY <1>3 DEF Told, IsSame
<1> QED BY <1>1, <1>2, <1>3, <1>4 DEF FirstSource, SecondSource, IsSame

LEMMA NotesStay ==
  ASSUME NEW d, NEW e, d.incomplete \subseteq e.incomplete
  PROVE  /\ \A source : IsNoted(d, source) => IsNoted(e, source)
         /\ \A torn, p, source : Told(torn, d, p, source) => Told(torn, e, p, source)
         /\ \A torn, p : YankedIsSaid(torn, p, d) => YankedIsSaid(torn, p, e)
BY DEF IsNoted, Told, YankedIsSaid

LEMMA LearnedStill ==
  ASSUME NEW torn, NEW q, NEW p, NEW r, NEW d, NEW e, NEW asked, NEW source,
         IsLearned(torn, q, p, d, asked), IsTaken(torn, p, r, e, source), d.incomplete \subseteq e.incomplete,
         source = SecondSource(p) => FirstSource(p) \in asked
  PROVE  IsLearned(torn, q, r, e, asked \cup {source})
<1>1. IsSame(p, r) /\ IsSame(q, p) /\ IsSame(q, r)
  BY DEF IsLearned, IsTaken, IsSame
<1>2. /\ FirstSource(r) = FirstSource(p) /\ SecondSource(r) = SecondSource(p)
      /\ \A s : LicenseAt(r, s) = LicenseAt(p, s)
      /\ Source(r) = Source(p) /\ FromIndex(r) = FromIndex(p)
      /\ \A s : Told(torn, d, r, s) <=> Told(torn, d, p, s)
      /\ \A s : Told(torn, e, r, s) <=> Told(torn, e, p, s)
  BY <1>1, SameIs
<1>3. \A s : Told(torn, d, p, s) => Told(torn, e, p, s)
  BY NotesStay
<1>4. LicenseIsOwn(torn, q, p, d, asked)
  BY DEF IsLearned
<1>5. FirstSource(p) # SecondSource(p)
  BY DEF FirstSource, SecondSource
<1>6. LicenseIsOwn(torn, q, r, e, asked \cup {source})
  <2>1. CASE /\ r.license = p.license /\ r.licenseFrom = p.licenseFrom
             /\ (p.license = None /\ source \in {FirstSource(p), SecondSource(p)}) => Told(torn, e, p, source)
    BY <1>2, <1>3, <1>4, <2>1 DEF LicenseIsOwn
  <2>2. CASE /\ source \in {FirstSource(p), SecondSource(p)} /\ p.license = None
             /\ r.license # None /\ r.license = LicenseAt(p, source) /\ r.licenseFrom = source
    BY <1>2, <1>3, <1>4, <1>5, <2>2 DEF LicenseIsOwn
  <2> QED BY <2>1, <2>2 DEF IsTaken
<1>7. "pypi" \in asked \cup {source} => YankedIsSaid(torn, r, e)
  <2>1. CASE source = "pypi"
    BY <2>1 DEF IsTaken
  <2>2. CASE "pypi" \in asked
    <3>1. YankedIsSaid(torn, p, e)
      BY <2>2, NotesStay DEF IsLearned
    <3>2. r.id = p.id /\ (p.yanked => r.yanked)
      BY <1>1 DEF IsTaken, IsSame
    <3> QED BY <1>2, <3>1, <3>2 DEF YankedIsSaid
  <2> QED BY <2>1, <2>2
<1>8. (r.files # {}) = (r.filesFrom # None)
  BY DEF IsLearned, IsTaken
<1>9. r.yanked => Source(r).index.yanked
  BY <1>2 DEF IsLearned, IsTaken
<1>10. Stated \cup LookedUp \subseteq DOMAIN r
  BY DEF IsTaken
<1> QED BY <1>1, <1>6, <1>7, <1>8, <1>9, <1>10 DEF IsLearned

\* e is what asking a source for every package makes of a document.
IsAsked(torn, d, e, f, source, asked) ==
  /\ d.incomplete \subseteq e.incomplete
  /\ DOMAIN f = d.packages /\ e.packages = {f[p] : p \in d.packages}
  /\ \A p \in d.packages :
       IsTaken(torn, p, f[p], e, source) /\ (source = SecondSource(p) => FirstSource(p) \in asked)

LEMMA AllLearned ==
  ASSUME NEW torn, NEW base, NEW d, NEW e, NEW asked, NEW source, NEW f,
         AreLearned(torn, base, d, asked), IsAsked(torn, d, e, f, source, asked)
  PROVE  /\ AreLearned(torn, base, e, asked \cup {source})
         /\ IsFiniteSet(d.packages) => IsFiniteSet(e.packages)
<1> USE DEF IsAsked
<1>1. \A p \in d.packages : f[p].id = p.id
  BY DEF IsTaken, IsSame
<1>2. \A p \in d.packages : \E q \in base.packages : IsLearned(torn, q, f[p], e, asked \cup {source})
  <2> SUFFICES ASSUME NEW p \in d.packages
               PROVE  \E q \in base.packages : IsLearned(torn, q, f[p], e, asked \cup {source})
    OBVIOUS
  <2>1. PICK q \in base.packages : IsLearned(torn, q, p, d, asked)
    BY DEF AreLearned
  <2>2. IsTaken(torn, p, f[p], e, source) /\ (source = SecondSource(p) => FirstSource(p) \in asked)
    OBVIOUS
  <2> QED BY <2>1, <2>2, LearnedStill
<1>3. IsFiniteSet(d.packages) => IsFiniteSet(e.packages)
  BY ImageIsFinite
<1>4. \A q \in base.packages : \E r \in e.packages : r.id = q.id
  BY <1>1 DEF AreLearned
<1>5. \A r \in e.packages : \A s \in e.packages : r.id = s.id => r = s
  BY <1>1 DEF AreLearned
<1>6. \A r \in e.packages : \E q \in base.packages : IsLearned(torn, q, r, e, asked \cup {source})
  BY <1>2
<1> QED BY <1>3, <1>4, <1>5, <1>6 DEF AreLearned

\* What a source says is taken on where the package says nothing.
TakesOn(p, r, license, source) ==
  /\ Stated \cup LookedUp \subseteq DOMAIN r
  /\ IsSame(p, r)
  /\ r.license = (IF p.license = None THEN license ELSE p.license)
  /\ r.licenseFrom = (IF p.license = None /\ license # None THEN source ELSE p.licenseFrom)
  /\ (p.files # {}) = (p.filesFrom # None) => (r.files # {}) = (r.filesFrom # None)

LEMMA TakeOnIs ==
  ASSUME NEW p, HasFields(p), NEW info, NEW source \in Sources
  PROVE  TakesOn(p, TakeOn(p, info, source), info.license, source) /\ TakeOn(p, info, source).yanked = p.yanked
<1> DEFINE r == TakeOn(p, info, source)
           learnsLicense == p.license = None /\ info.license # None
           learnsFiles == p.files = {} /\ info.files # {}
           Either(own, other) == IF own = None THEN other ELSE own
<1>1. source # None
  BY SourcesAssumption DEF Sources
<1>2. r = [p EXCEPT !.license = Either(@, info.license),
                !.licenseFrom = IF learnsLicense THEN source ELSE @,
                !.description = Either(@, info.description),
                !.homepage = Either(@, info.homepage),
                !.documentation = Either(@, info.documentation),
                !.repository = Either(@, info.repository),
                !.files = IF learnsFiles THEN info.files ELSE @,
                !.filesFrom = IF learnsFiles THEN source ELSE @]
  BY DEF TakeOn
<1>3. DOMAIN r = DOMAIN p
  BY <1>2
<1>4. /\ r.license = Either(p.license, info.license)
      /\ r.licenseFrom = IF learnsLicense THEN source ELSE p.licenseFrom
      /\ r.files = IF learnsFiles THEN info.files ELSE p.files
      /\ r.filesFrom = IF learnsFiles THEN source ELSE p.filesFrom
      /\ r.yanked = p.yanked
  BY <1>2 DEF HasFields, Stated, LookedUp
<1>5. IsSame(p, r)
  BY <1>2 DEF HasFields, Stated, LookedUp, IsSame
<1> HIDE DEF r
<1> QED BY <1>1, <1>3, <1>4, <1>5 DEF TakesOn, HasFields, r

LEMMA WheelIs ==
  ASSUME NEW p, HasFields(p), NEW info
  PROVE  TakesOn(p, ApplyWheel(p, info), info.license, "wheel") /\ ApplyWheel(p, info).yanked = p.yanked
<1>1. PICK x : ApplyWheel(p, info) = [TakeOn(p, info, "wheel") EXCEPT !.repositoryFrom = x]
  BY DEF ApplyWheel
<1>2. TakesOn(p, TakeOn(p, info, "wheel"), info.license, "wheel") /\ TakeOn(p, info, "wheel").yanked = p.yanked
  BY TakeOnIs DEF Sources
<1> QED BY <1>1, <1>2 DEF TakesOn, IsSame, Stated, LookedUp

LEMMA CondaTakesOn ==
  ASSUME NEW p, HasFields(p), NEW info, NEW source \in Sources
  PROVE  TakesOn(p, ApplyConda(p, info, source), info.license, source) /\ ApplyConda(p, info, source).yanked = p.yanked
<1>1. PICK x : ApplyConda(p, info, source) = [TakeOn(p, info, source) EXCEPT !.family = x]
  BY DEF ApplyConda
<1>2. TakesOn(p, TakeOn(p, info, source), info.license, source) /\ TakeOn(p, info, source).yanked = p.yanked
  BY TakeOnIs
<1> QED BY <1>1, <1>2 DEF TakesOn, IsSame, Stated, LookedUp

LEMMA IndexIs ==
  ASSUME NEW p, HasFields(p), NEW json
  PROVE  LET r == ApplyIndex(p, json)
         IN  TakesOn(p, r, IndexLicense(json), "pypi") /\ r.yanked = (p.yanked \/ json.yanked)
<1> DEFINE license == IndexLicense(json)
           r == ApplyIndex(p, json)
           learns == p.license = None /\ license # None
<1>1. PICK x, y : r = [p EXCEPT !.yanked = @ \/ json.yanked, !.repository = x, !.repositoryFrom = y,
                                !.license = IF learns THEN license ELSE @,
                                !.licenseFrom = IF learns THEN "pypi" ELSE @]
  BY DEF ApplyIndex
<1> HIDE DEF r, license
<1>2. DOMAIN r = DOMAIN p
  BY <1>1
<1>3. r.license = (IF learns THEN license ELSE p.license) /\ r.licenseFrom = (IF learns THEN "pypi" ELSE p.licenseFrom)
      /\ r.files = p.files /\ r.filesFrom = p.filesFrom
  BY <1>1 DEF HasFields, Stated, LookedUp
<1>4. r.yanked = (p.yanked \/ json.yanked)
  BY <1>1 DEF HasFields, Stated
<1>5. IsSame(p, r)
  BY <1>1 DEF HasFields, Stated, LookedUp, IsSame
<1> QED BY <1>2, <1>3, <1>4, <1>5 DEF TakesOn, HasFields, r, license

LEMMA NotesAre ==
  ASSUME NEW step, NEW failed, NEW total
  PROVE  /\ failed # 0 => \E n \in NoteFailures(step, failed, total) : n.step = step
         /\ \A n \in NoteFailures(step, failed, total) : "step" \in DOMAIN n
<1> DEFINE n == [step |-> step, failed |-> failed, of |-> total, shared |-> FALSE]
<1>1. NoteFailures(step, failed, total) = IF failed = 0 THEN {} ELSE {n}
  BY DEF NoteFailures
<1>2. n.step = step /\ "step" \in DOMAIN n
  OBVIOUS
<1> HIDE DEF n
<1> QED BY <1>1, <1>2

LEMMA TakenOn ==
  ASSUME NEW torn, NEW p, NEW r, NEW d, NEW source \in {"wheel", "package-cache", "conda-archive"},
         TakesOn(p, r, LicenseAt(p, source), source), r.yanked = p.yanked,
         source \in {FirstSource(p), SecondSource(p)}
  PROVE  IsTaken(torn, p, r, d, source)
BY DEF TakesOn, IsTaken, Told

LEMMA NotTaken ==
  ASSUME NEW torn, NEW p, NEW d, NEW source \in {"wheel", "package-cache", "conda-archive"}, HasFields(p),
         (p.license = None /\ source \in {FirstSource(p), SecondSource(p)}) => Told(torn, d, p, source)
  PROVE  IsTaken(torn, p, p, d, source)
BY DEF HasFields, IsTaken, IsSame

\* What is looked up are the packages that the locks have.
LEMMA SubjectFits ==
  ASSUME LocksAreSound, EachInv, SubjectInv, LooksUp
  PROVE  \A p \in subject.packages : HasFields(p) /\ SourceFits(p)
<1>1. \A q \in Base.packages : \E i \in DOMAIN given : \E p \in given[i].packages :
        p.id = q.id /\ p.kind = q.kind /\ p.source = q.source /\ p.version = q.version
  <2>1. CASE current = 0
    <3>1. IsUnion(Union(given), given)
      <4>1. PICK n \in Nat \ {0} : DOMAIN given = 1..n
        BY DEF EachInv, LooksUp
      <4>2. \A i \in DOMAIN given : {"packages", "incomplete"} \subseteq DOMAIN given[i]
                                   /\ \A p \in given[i].packages : IsBare(p)
        BY DEF EachInv, LooksUp
      <4>3. \A i \in DOMAIN given : \A p \in given[i].packages : \A q \in given[i].packages : p.id = q.id => p = q
        BY DEF LocksAreSound, IdsTellApart
      <4>4. \A i \in DOMAIN given : IsFiniteSet(given[i].packages)
        BY DEF LocksAreSound, LocksAreFinite
      <4> QED BY <4>1, <4>2, <4>3, <4>4, UnionIs
    <3>2. Base = Union(given)
      BY <2>1 DEF Base
    <3>3. \A i \in DOMAIN given : \A p \in given[i].packages : IsBare(p)
      BY DEF EachInv, LooksUp
    <3> QED BY <3>1, <3>2, <3>3 DEF IsUnion, IsBare, Stated
  <2>2. CASE current # 0
    BY <2>2 DEF Base, EachInv, LooksUp
  <2> QED BY <2>1, <2>2
<1>2. \A p \in subject.packages : HasFields(p) /\ \E q \in Base.packages : IsSame(q, p)
  BY DEF SubjectInv, AreLearned, IsLearned, HasFields
<1>3. ASSUME NEW p \in subject.packages PROVE SourceFits(p)
  <2>1. PICK q \in Base.packages : IsSame(q, p)
    BY <1>2
  <2>2. PICK i \in DOMAIN given : \E r \in given[i].packages :
          r.id = q.id /\ r.kind = q.kind /\ r.source = q.source /\ r.version = q.version
    BY <1>1
  <2>3. PICK r \in given[i].packages :
          r.id = q.id /\ r.kind = q.kind /\ r.source = q.source /\ r.version = q.version
    BY <2>2
  <2>4. SourceFits(r)
    BY DEF LocksAreSound, SourcesFit
  <2> QED BY <2>1, <2>3, <2>4 DEF SourceFits, IsSame, Source, FromIndex
<1> QED BY <1>2, <1>3

\* How a step looks that reads something of the packages.
LEMMA EachIs ==
  ASSUME NEW d, NEW e, NEW f, NEW notes, {"packages", "incomplete"} \subseteq DOMAIN d,
         e = [d EXCEPT !.packages = {f[p] : p \in d.packages}, !.incomplete = @ \cup notes]
  PROVE  /\ {"packages", "incomplete"} \subseteq DOMAIN e
         /\ e.packages = {f[p] : p \in d.packages} /\ e.incomplete = d.incomplete \cup notes
<1> DEFINE packages == {f[p] : p \in d.packages}
<1> HIDE DEF packages
<1>1. e = [d EXCEPT !.packages = packages, !.incomplete = @ \cup notes]
  BY DEF packages
<1> QED BY <1>1 DEF packages

LookupVars == <<given, options, cache, current>>

LEMMA BaseStays ==
  ASSUME UNCHANGED LookupVars
  PROVE  Torn' = Torn /\ Base' = Base
BY DEF LookupVars, Torn, Base

LEMMA WheelsKeep ==
  ASSUME LocksAreSound, EachInv, SubjectInv, NEW failing, ReadWheels(failing)
  PROVE  SubjectInv'
<1> DEFINE wheels == {p \in subject.packages : p.kind = "pypi" /\ Source(p).wheel # None}
           notes == NoteFailures("wheel-licenses", Cardinality(failing), Cardinality(wheels))
           f == [p \in subject.packages |->
                   IF p \in wheels \ failing THEN ApplyWheel(p, Source(p).wheel) ELSE p]
<1>1. /\ phase = "wheels" /\ phase' = "package cache" /\ failing \subseteq wheels
      /\ UNCHANGED LookupVars
      /\ subject' = [subject EXCEPT
                       !.packages = {IF p \in wheels \ failing THEN ApplyWheel(p, Source(p).wheel) ELSE p : p \in @},
                       !.incomplete = @ \cup notes]
  BY DEF ReadWheels, ReadEach, LookupVars
<1>2. subject' = [subject EXCEPT !.packages = {f[p] : p \in subject.packages}, !.incomplete = @ \cup notes]
  <2>1. {IF p \in wheels \ failing THEN ApplyWheel(p, Source(p).wheel) ELSE p : p \in subject.packages}
          = {f[p] : p \in subject.packages}
    <3> HIDE DEF wheels
    <3> QED OBVIOUS
  <2> HIDE DEF f, wheels, notes
  <2> QED BY <1>1, <2>1
<1>3. /\ LooksUp /\ {"packages", "incomplete"} \subseteq DOMAIN subject /\ IsFiniteSet(subject.packages)
      /\ AreLearned(Torn, Base, subject, {})
      /\ current = 0 => \A n \in subject.incomplete : "step" \in DOMAIN n
  BY <1>1 DEF SubjectInv, LooksUp, Asked
<1>4. \A p \in subject.packages : HasFields(p)
  BY <1>3, SubjectFits
<1>5. \A p \in wheels : FirstSource(p) = "wheel" /\ LicenseAt(p, "wheel") = Source(p).wheel.license
  BY DEF FirstSource, LicenseAt
<1>6. \A p \in subject.packages \ wheels : FirstSource(p) = "wheel" => LicenseAt(p, "wheel") = None
  BY DEF FirstSource, LicenseAt
<1>7. failing # {} => \E n \in notes : n.step = "wheel-licenses"
  <2>1. IsFiniteSet(failing)
    BY <1>1, <1>3, FS_Subset
  <2>2. failing # {} => Cardinality(failing) # 0
    BY <2>1, FS_EmptySet
  <2> QED BY <2>2, NotesAre
<1>8. DOMAIN f = subject.packages
  OBVIOUS
<1>9. /\ {"packages", "incomplete"} \subseteq DOMAIN subject'
      /\ subject'.packages = {f[p] : p \in subject.packages} /\ subject'.incomplete = subject.incomplete \cup notes
  <2> HIDE DEF f, notes
  <2> QED BY <1>2, <1>3, EachIs
<1>10. ASSUME NEW p \in subject.packages
       PROVE  IsTaken(Torn, p, f[p], subject', "wheel")
  <2>1. CASE p \in wheels \ failing
    <3>1. TakesOn(p, f[p], LicenseAt(p, "wheel"), "wheel") /\ f[p].yanked = p.yanked
      BY <1>4, <1>5, <2>1, WheelIs
    <3> QED BY <1>5, <2>1, <3>1, TakenOn
  <2>2. CASE p \notin wheels \ failing
    <3>1. f[p] = p
      BY <2>2
    <3>2. Told(Torn, subject', p, "wheel") \/ FirstSource(p) # "wheel"
      <4>1. p \in failing => IsNoted(subject', "wheel")
        BY <1>7, <1>9 DEF IsNoted, StepOf
      <4> HIDE DEF wheels
      <4> QED BY <1>6, <2>2, <4>1 DEF Told
    <3>3. SecondSource(p) # "wheel"
      BY DEF SecondSource
    <3> QED BY <1>4, <3>1, <3>2, <3>3, NotTaken
  <2> QED BY <2>1, <2>2
<1>11. AreLearned(Torn, Base, subject', {"wheel"}) /\ IsFiniteSet(subject'.packages)
  <2>1. \A p \in subject.packages : "wheel" = SecondSource(p) => FirstSource(p) \in {}
    BY DEF SecondSource
  <2>2. subject.incomplete \subseteq subject'.incomplete
    BY <1>9
  <2>3. subject'.packages = {f[p] : p \in subject.packages}
    BY <1>9
  <2> HIDE DEF f, notes
  <2>4. IsAsked(Torn, subject, subject', f, "wheel", {})
    BY <1>8, <1>10, <2>1, <2>2, <2>3 DEF IsAsked
  <2>5. {} \cup {"wheel"} = {"wheel"}
    OBVIOUS
  <2> QED BY <1>3, <2>4, <2>5, AllLearned
<1>12. \A n \in notes : "step" \in DOMAIN n
  BY NotesAre
<1> HIDE DEF f, notes
<1> QED BY <1>1, <1>3, <1>9, <1>11, <1>12, BaseStays DEF SubjectInv, Asked, LooksUp, LookupVars

LEMMA PackageCacheKeeps ==
  ASSUME LocksAreSound, EachInv, SubjectInv, ReadPackageCache
  PROVE  SubjectInv'
<1> DEFINE conda == {p \in subject.packages : p.kind = "conda"}
           there == {p \in conda : Source(p).extracted # None}
           notes == NoteFailures("package cache", Cardinality({}), Cardinality(there))
           f == [p \in subject.packages |->
                   IF p \in there \ {} THEN ApplyConda(p, Source(p).extracted, "package-cache") ELSE p]
<1>1. /\ phase = "package cache" /\ UNCHANGED LookupVars
      /\ missing' = Ids(conda \ there)
      /\ phase' = IF missing' = {} THEN "releases" ELSE "archives"
      /\ subject' = [subject EXCEPT
                       !.packages = {IF p \in there \ {} THEN ApplyConda(p, Source(p).extracted, "package-cache")
                                     ELSE p : p \in @},
                       !.incomplete = @ \cup notes]
  BY DEF ReadPackageCache, ReadEach, LookupVars
<1>2. subject' = [subject EXCEPT !.packages = {f[p] : p \in subject.packages}, !.incomplete = @ \cup notes]
  <2>1. {IF p \in there \ {} THEN ApplyConda(p, Source(p).extracted, "package-cache") ELSE p : p \in subject.packages}
          = {f[p] : p \in subject.packages}
    <3> HIDE DEF there
    <3> QED OBVIOUS
  <2> HIDE DEF f, there, notes
  <2> QED BY <1>1, <2>1
<1>3. /\ LooksUp /\ {"packages", "incomplete"} \subseteq DOMAIN subject /\ IsFiniteSet(subject.packages)
      /\ AreLearned(Torn, Base, subject, {"wheel"})
      /\ current = 0 => \A n \in subject.incomplete : "step" \in DOMAIN n
  BY <1>1 DEF SubjectInv, LooksUp, Asked
<1>4. \A p \in subject.packages : HasFields(p) /\ SourceFits(p)
  BY <1>3, SubjectFits
<1>5. \A p \in there : /\ FirstSource(p) = "package-cache"
                       /\ LicenseAt(p, "package-cache") = Source(p).extracted.license
  BY DEF FirstSource, LicenseAt
<1>6. \A p \in subject.packages \ there : LicenseAt(p, "package-cache") = None
  BY <1>4 DEF LicenseAt, SourceFits
<1>7. \A p \in subject.packages : "package-cache" = SecondSource(p) => FirstSource(p) \in {"wheel"}
  BY DEF SecondSource
<1>8. DOMAIN f = subject.packages
  OBVIOUS
<1>9. /\ {"packages", "incomplete"} \subseteq DOMAIN subject'
      /\ subject'.packages = {f[p] : p \in subject.packages} /\ subject'.incomplete = subject.incomplete \cup notes
  <2> HIDE DEF f, notes
  <2> QED BY <1>2, <1>3, EachIs
<1>10. ASSUME NEW p \in subject.packages
       PROVE  /\ IsTaken(Torn, p, f[p], subject', "package-cache")
              /\ f[p].id = p.id /\ f[p].kind = p.kind
  <2>1. CASE p \in there
    <3>1. TakesOn(p, f[p], LicenseAt(p, "package-cache"), "package-cache") /\ f[p].yanked = p.yanked
      BY <1>4, <1>5, <2>1, CondaTakesOn DEF Sources
    <3> QED BY <1>5, <2>1, <3>1, TakenOn DEF TakesOn, IsSame
  <2>2. CASE p \notin there
    <3>1. f[p] = p
      BY <2>2
    <3>2. Told(Torn, subject', p, "package-cache")
      BY <1>6, <2>2 DEF Told
    <3> QED BY <1>4, <3>1, <3>2, NotTaken
  <2> QED BY <2>1, <2>2
<1>11. AreLearned(Torn, Base, subject', {"wheel", "package-cache"}) /\ IsFiniteSet(subject'.packages)
  <2>1. subject.incomplete \subseteq subject'.incomplete
    BY <1>9
  <2>2. subject'.packages = {f[p] : p \in subject.packages}
    BY <1>9
  <2> HIDE DEF f, notes
  <2>3. IsAsked(Torn, subject, subject', f, "package-cache", {"wheel"})
    BY <1>7, <1>8, <1>10, <2>1, <2>2 DEF IsAsked
  <2>4. {"wheel"} \cup {"package-cache"} = {"wheel", "package-cache"}
    OBVIOUS
  <2> QED BY <1>3, <2>3, <2>4, AllLearned
<1>12. missing' = {p.id : p \in {r \in subject'.packages : r.kind = "conda" /\ Source(r).extracted = None}}
  <2>1. \A id : id \in missing' <=> \E p \in subject.packages : p.kind = "conda" /\ Source(p).extracted = None /\ id = p.id
    BY <1>1 DEF Ids
  <2>2. \A p \in subject.packages : Source(f[p]) = Source(p)
    <3> HIDE DEF f
    <3> QED BY <1>10 DEF Source
  <2>3. \A p \in subject.packages : f[p].id = p.id /\ f[p].kind = p.kind
    BY <1>10
  <2> HIDE DEF f
  <2>4. \A id : id \in missing' <=>
          \E r \in subject'.packages : r.kind = "conda" /\ Source(r).extracted = None /\ id = r.id
    <3>1. /\ \A p \in subject.packages : f[p] \in subject'.packages
          /\ \A r \in subject'.packages : \E p \in subject.packages : r = f[p]
      BY <1>9
    <3> QED BY <2>1, <2>2, <2>3, <3>1
  <2> QED BY <2>4
\* Where every conda package is extracted, no archive has anything to add.
<1>13. missing' = {} => AreLearned(Torn, Base, subject', {"wheel", "package-cache", "conda-archive"})
  <2> SUFFICES ASSUME missing' = {}
               PROVE  AreLearned(Torn, Base, subject', {"wheel", "package-cache", "conda-archive"})
    OBVIOUS
  <2> DEFINE g == [p \in subject'.packages |-> p]
  <2>1. \A p \in subject'.packages : HasFields(p)
    BY <1>11 DEF AreLearned, IsLearned, HasFields
  <2>2. \A p \in subject'.packages : LicenseAt(p, "conda-archive") = None
    <3> SUFFICES ASSUME NEW r \in subject'.packages PROVE LicenseAt(r, "conda-archive") = None
      OBVIOUS
    <3>1. PICK p \in subject.packages : r = f[p]
      BY <1>9
    <3>2. r.id = p.id /\ r.kind = p.kind
      BY <1>10, <3>1
    <3>3. Source(r) = Source(p)
      BY <3>2 DEF Source
    <3>4. r.kind = "conda" => Source(r).extracted # None
      BY <1>12
    <3> QED BY <1>4, <3>2, <3>3, <3>4 DEF LicenseAt, SourceFits
  <2>3. \A p \in subject'.packages : IsTaken(Torn, p, p, subject', "conda-archive")
    BY <2>1, <2>2, NotTaken DEF Told
  <2>4. \A p \in subject'.packages :
          "conda-archive" = SecondSource(p) => FirstSource(p) \in {"wheel", "package-cache"}
    BY DEF SecondSource, FirstSource
  <2>5. IsAsked(Torn, subject', subject', g, "conda-archive", {"wheel", "package-cache"})
    BY <2>3, <2>4 DEF IsAsked
  <2> HIDE DEF g
  <2>6. {"wheel", "package-cache"} \cup {"conda-archive"} = {"wheel", "package-cache", "conda-archive"}
    OBVIOUS
  <2> QED BY <1>11, <2>5, <2>6, AllLearned
<1>14. \A n \in notes : "step" \in DOMAIN n
  BY NotesAre
<1> HIDE DEF f, notes
<1>15. LooksUp' /\ Asked' = (IF missing' = {} THEN {"wheel", "package-cache", "conda-archive"} ELSE {"wheel", "package-cache"})
  BY <1>1 DEF LooksUp, Asked
<1> QED BY <1>1, <1>3, <1>9, <1>11, <1>12, <1>13, <1>14, <1>15, BaseStays DEF SubjectInv, LookupVars

LEMMA ArchivesKeep ==
  ASSUME LocksAreSound, EachInv, SubjectInv, NEW failing, ReadArchives(failing)
  PROVE  SubjectInv'
<1> DEFINE wanted == {p \in subject.packages :
                        p.id \in missing /\ Source(p).archive # None /\ ~ TooLarge(Source(p).archive)}
           notes == NoteFailures("conda-archives", Cardinality(failing), Cardinality(wanted))
           f == [p \in subject.packages |->
                   IF p \in wanted \ failing THEN ApplyConda(p, Source(p).archive.info, "conda-archive") ELSE p]
<1>1. /\ phase = "archives" /\ phase' = "releases" /\ failing \subseteq wanted
      /\ UNCHANGED LookupVars
      /\ subject' = [subject EXCEPT
                       !.packages = {IF p \in wanted \ failing
                                     THEN ApplyConda(p, Source(p).archive.info, "conda-archive") ELSE p : p \in @},
                       !.incomplete = @ \cup notes]
  BY DEF ReadArchives, ReadEach, LookupVars
<1>2. subject' = [subject EXCEPT !.packages = {f[p] : p \in subject.packages}, !.incomplete = @ \cup notes]
  <2>1. {IF p \in wanted \ failing THEN ApplyConda(p, Source(p).archive.info, "conda-archive") ELSE p : p \in subject.packages}
          = {f[p] : p \in subject.packages}
    <3> HIDE DEF wanted
    <3> QED OBVIOUS
  <2> HIDE DEF f, wanted, notes
  <2> QED BY <1>1, <2>1
<1>3. /\ LooksUp /\ {"packages", "incomplete"} \subseteq DOMAIN subject /\ IsFiniteSet(subject.packages)
      /\ AreLearned(Torn, Base, subject, {"wheel", "package-cache"})
      /\ current = 0 => \A n \in subject.incomplete : "step" \in DOMAIN n
      /\ missing = {p.id : p \in {r \in subject.packages : r.kind = "conda" /\ Source(r).extracted = None}}
  BY <1>1 DEF SubjectInv, LooksUp, Asked
<1>4. \A p \in subject.packages : HasFields(p) /\ SourceFits(p)
  BY <1>3, SubjectFits
<1>5. \A p \in subject.packages :
        p.id \in missing <=> p.kind = "conda" /\ Source(p).extracted = None
  BY <1>3 DEF AreLearned
<1>6. \A p \in wanted : /\ SecondSource(p) = "conda-archive"
                        /\ LicenseAt(p, "conda-archive") = Source(p).archive.info.license
  BY <1>5 DEF SecondSource, LicenseAt
<1>7. \A p \in subject.packages \ wanted : LicenseAt(p, "conda-archive") = None
  BY <1>4, <1>5 DEF LicenseAt, SourceFits
<1>8. failing # {} => \E n \in notes : n.step = "conda-archives"
  <2>1. IsFiniteSet(failing)
    BY <1>1, <1>3, FS_Subset
  <2>2. failing # {} => Cardinality(failing) # 0
    BY <2>1, FS_EmptySet
  <2> QED BY <2>2, NotesAre
<1>9. DOMAIN f = subject.packages
  OBVIOUS
<1>10. /\ {"packages", "incomplete"} \subseteq DOMAIN subject'
       /\ subject'.packages = {f[p] : p \in subject.packages} /\ subject'.incomplete = subject.incomplete \cup notes
  <2> HIDE DEF f, notes
  <2> QED BY <1>2, <1>3, EachIs
<1>11. ASSUME NEW p \in subject.packages
       PROVE  IsTaken(Torn, p, f[p], subject', "conda-archive")
  <2>1. CASE p \in wanted \ failing
    <3>1. TakesOn(p, f[p], LicenseAt(p, "conda-archive"), "conda-archive") /\ f[p].yanked = p.yanked
      BY <1>4, <1>6, <2>1, CondaTakesOn DEF Sources
    <3> QED BY <1>6, <2>1, <3>1, TakenOn
  <2>2. CASE p \notin wanted \ failing
    <3>1. f[p] = p
      BY <2>2
    <3>2. Told(Torn, subject', p, "conda-archive")
      <4>1. p \in failing => IsNoted(subject', "conda-archive")
        BY <1>8, <1>10 DEF IsNoted, StepOf
      <4> HIDE DEF wanted
      <4> QED BY <1>7, <2>2, <4>1 DEF Told
    <3> QED BY <1>4, <3>1, <3>2, NotTaken
  <2> QED BY <2>1, <2>2
<1>12. /\ AreLearned(Torn, Base, subject', {"wheel", "package-cache", "conda-archive"})
       /\ IsFiniteSet(subject'.packages)
  <2>1. \A p \in subject.packages :
          "conda-archive" = SecondSource(p) => FirstSource(p) \in {"wheel", "package-cache"}
    BY DEF SecondSource, FirstSource
  <2>2. subject.incomplete \subseteq subject'.incomplete
    BY <1>10
  <2>3. subject'.packages = {f[p] : p \in subject.packages}
    BY <1>10
  <2> HIDE DEF f, notes
  <2>4. IsAsked(Torn, subject, subject', f, "conda-archive", {"wheel", "package-cache"})
    BY <1>9, <1>11, <2>1, <2>2, <2>3 DEF IsAsked
  <2>5. {"wheel", "package-cache"} \cup {"conda-archive"} = {"wheel", "package-cache", "conda-archive"}
    OBVIOUS
  <2> QED BY <1>3, <2>4, <2>5, AllLearned
<1>13. \A n \in notes : "step" \in DOMAIN n
  BY NotesAre
<1> HIDE DEF f, notes
<1> QED BY <1>1, <1>3, <1>10, <1>12, <1>13, BaseStays DEF SubjectInv, Asked, LooksUp, LookupVars

\* PyPI is asked, or answers, or does not.
LEMMA AskingKeeps ==
  ASSUME SubjectInv, JobsInv, CacheInv,
         AskReleases \/ \E id \in DOMAIN jobs : Look(id) \/ Answered(id) \/ Refused(id) \/ Unreachable(id)
  PROVE  SubjectInv' /\ JobsInv' /\ CacheInv' /\ Torn' = Torn
<1>1. CASE AskReleases
  <2>1. /\ phase = "releases" /\ phase' = "asking" /\ UNCHANGED LookupVars /\ subject' = subject
        /\ jobs' = [id \in Ids({p \in subject.packages : FromIndex(p) /\ p.version # None}) |-> "waiting"]
    BY <1>1 DEF AskReleases, LookupVars
  <2>2. Torn' = Torn /\ Base' = Base
    BY <2>1, BaseStays
  <2>3. SubjectInv'
    BY <2>1, <2>2 DEF SubjectInv, LooksUp, Asked, LookupVars
  <2>4. JobsInv'
    BY <2>1 DEF JobsInv, Ids
  <2> QED BY <2>1, <2>2, <2>3, <2>4 DEF CacheInv, LookupVars
<1>2. ASSUME NEW id \in DOMAIN jobs, Look(id) \/ Answered(id) \/ Refused(id) \/ Unreachable(id)
      PROVE  SubjectInv' /\ JobsInv' /\ CacheInv' /\ Torn' = Torn
  <2>1. /\ phase = "asking" /\ phase' = phase /\ subject' = subject /\ options' = options
        /\ given' = given /\ current' = current /\ missing' = missing
    BY <1>2 DEF Look, Answered, Refused, Unreachable
  <2>2. cache \in [IndexIds -> {"absent", "whole", "torn"}]
    BY <2>1 DEF CacheInv
  <2>3. /\ Torn' = Torn /\ cache' \in [IndexIds -> {"absent", "whole", "torn"}]
        /\ \E value \in {"failed", "whole", "torn", "sent"} :
             /\ jobs' = [jobs EXCEPT ![id] = value]
             /\ value = "whole" => id \in IndexIds
             /\ value = "torn" => id \in Torn
             /\ value = "sent" => id \notin Torn
    <3>1. CASE Look(id)
      BY <2>2, <3>1 DEF Look, Cached, Torn
    <3>2. CASE Answered(id)
      <4>1. /\ id \in IndexIds /\ id \notin Torn /\ jobs' = [jobs EXCEPT ![id] = "whole"]
            /\ cache' = [cache EXCEPT ![id] = IF options.mayWrite THEN "whole" ELSE @]
        BY <3>2 DEF Answered, JobsInv
      <4>2. cache' \in [IndexIds -> {"absent", "whole", "torn"}]
        BY <2>2, <4>1
      <4>3. Torn' = Torn
        BY <2>1, <2>2, <4>1 DEF Torn
      <4> QED BY <4>1, <4>2, <4>3
    <3>3. CASE Refused(id)
      BY <2>1, <2>2, <3>3 DEF Refused, Torn
    <3>4. CASE Unreachable(id)
      BY <2>1, <2>2, <3>4 DEF Unreachable, Torn
    <3> QED BY <1>2, <3>1, <3>2, <3>3, <3>4
  <2>4. Base' = Base
    BY <2>1 DEF Base
  <2>5. SubjectInv'
    BY <2>1, <2>3, <2>4 DEF SubjectInv, LooksUp, Asked
  <2>6. JobsInv'
    BY <2>1, <2>3 DEF JobsInv
  <2> QED BY <2>1, <2>3, <2>5, <2>6 DEF CacheInv
<1> QED BY <1>1, <1>2

LEMMA ReleasesKeep ==
  ASSUME LocksAreSound, EachInv, SubjectInv, JobsInv, ReadReleases
  PROVE  SubjectInv'
<1> DEFINE Became(id, what) == id \in DOMAIN jobs /\ jobs[id] = what
           answered == {p \in subject.packages : Became(p.id, "whole") \/ Became(p.id, "torn")}
           failed == {id \in DOMAIN jobs : jobs[id] = "failed"}
           total == Cardinality({p \in answered : p.license = None}) + Cardinality(failed)
           notes == NoteFailures("pypi-releases", Cardinality(failed), total)
           f == [p \in subject.packages |->
                   IF Became(p.id, "whole") THEN ApplyIndex(p, Source(p).index) ELSE p]
<1>1. /\ phase = "asking" /\ phase' = "learned" /\ UNCHANGED LookupVars
      /\ \A id \in DOMAIN jobs : jobs[id] \notin {"waiting", "sent"}
      /\ subject' = [subject EXCEPT
                       !.packages = {IF Became(p.id, "whole") THEN ApplyIndex(p, Source(p).index) ELSE p : p \in @},
                       !.incomplete = @ \cup notes]
  BY DEF ReadReleases, LookupVars
<1>2. subject' = [subject EXCEPT !.packages = {f[p] : p \in subject.packages}, !.incomplete = @ \cup notes]
  <2>1. {IF Became(p.id, "whole") THEN ApplyIndex(p, Source(p).index) ELSE p : p \in subject.packages}
          = {f[p] : p \in subject.packages}
    <3> HIDE DEF Became
    <3> QED OBVIOUS
  <2> HIDE DEF f, Became, notes
  <2> QED BY <1>1, <2>1
<1>3. /\ LooksUp /\ {"packages", "incomplete"} \subseteq DOMAIN subject /\ IsFiniteSet(subject.packages)
      /\ AreLearned(Torn, Base, subject, {"wheel", "package-cache", "conda-archive"})
      /\ current = 0 => \A n \in subject.incomplete : "step" \in DOMAIN n
  BY <1>1 DEF SubjectInv, LooksUp, Asked
<1>4. \A p \in subject.packages : HasFields(p) /\ SourceFits(p)
  BY <1>3, SubjectFits
<1>5. DOMAIN jobs = {p.id : p \in {r \in subject.packages : FromIndex(r) /\ r.version # None}}
  BY <1>1 DEF JobsInv
<1>6. \A id \in DOMAIN jobs : jobs[id] = "whole" \/ jobs[id] = "failed" \/ (jobs[id] = "torn" /\ id \in Torn)
  BY <1>1 DEF JobsInv
\* An answer is that to a release which PyPI has.
<1>7. ASSUME NEW p \in subject.packages, Became(p.id, "whole")
      PROVE  /\ SecondSource(p) = "pypi" /\ FromIndex(p) /\ Source(p).index # None
             /\ LicenseAt(p, "pypi") = IndexLicense(Source(p).index)
  <2>1. PICK r \in subject.packages : r.id = p.id /\ FromIndex(r)
    BY <1>5, <1>7
  <2>2. r = p
    BY <1>3, <2>1 DEF AreLearned
  <2>3. p.id \in IndexIds
    BY <1>1, <1>7 DEF JobsInv
  <2>4. Source(p).index # None
    BY <2>3 DEF Source, IndexIds
  <2> QED BY <2>1, <2>2, <2>4 DEF SecondSource, FromIndex, LicenseAt
<1>8. failed # {} => \E n \in notes : n.step = "pypi-releases"
  <2>1. IsFiniteSet(failed)
    <3> DEFINE S == {r \in subject.packages : FromIndex(r) /\ r.version # None}
               g == [p \in S |-> p.id]
    <3>1. IsFiniteSet(S)
      BY <1>3, FS_Subset
    <3>2. DOMAIN jobs = {g[p] : p \in DOMAIN g} /\ DOMAIN g = S
      BY <1>5
    <3> HIDE DEF S, g
    <3>3. IsFiniteSet(DOMAIN jobs)
      BY <3>1, <3>2, ImageIsFinite
    <3> QED BY <3>3, FS_Subset
  <2>2. failed # {} => Cardinality(failed) # 0
    BY <2>1, FS_EmptySet
  <2> QED BY <2>2, NotesAre
<1>9. DOMAIN f = subject.packages
  OBVIOUS
<1>10. /\ {"packages", "incomplete"} \subseteq DOMAIN subject'
       /\ subject'.packages = {f[p] : p \in subject.packages} /\ subject'.incomplete = subject.incomplete \cup notes
  <2> HIDE DEF f, notes
  <2> QED BY <1>2, <1>3, EachIs
<1>11. ASSUME NEW p \in subject.packages
       PROVE  IsTaken(Torn, p, f[p], subject', "pypi")
  <2>1. CASE Became(p.id, "whole")
    <3>1. f[p] = ApplyIndex(p, Source(p).index)
      BY <2>1
    <3>2. TakesOn(p, f[p], LicenseAt(p, "pypi"), "pypi") /\ f[p].yanked = (p.yanked \/ Source(p).index.yanked)
      BY <1>4, <1>7, <2>1, <3>1, IndexIs
    <3>3. Source(f[p]) = Source(p)
      BY <3>2, SameIs DEF TakesOn
    <3> DEFINE r == f[p]
    <3> HIDE DEF f, r
    <3>4. YankedIsSaid(Torn, r, subject')
      BY <3>2, <3>3 DEF YankedIsSaid, r
    <3>5. SecondSource(p) = "pypi"
      BY <1>7, <2>1
    <3> QED BY <3>2, <3>4, <3>5 DEF IsTaken, TakesOn, Told, r
  <2>2. CASE ~ Became(p.id, "whole")
    <3>1. f[p] = p
      BY <2>2
    <3>2. (FromIndex(p) /\ Source(p).index # None) => IsNoted(subject', "pypi") \/ p.id \in Torn
      <4> SUFFICES ASSUME FromIndex(p), Source(p).index # None
                   PROVE  IsNoted(subject', "pypi") \/ p.id \in Torn
        OBVIOUS
      <4>1. p.id \in DOMAIN jobs
        BY <1>4, <1>5 DEF SourceFits
      <4>2. jobs[p.id] = "failed" => IsNoted(subject', "pypi")
        BY <1>8, <1>10, <4>1 DEF IsNoted, StepOf
      <4> QED BY <1>6, <2>2, <4>1, <4>2
    <3>3. YankedIsSaid(Torn, p, subject')
      BY <3>2 DEF YankedIsSaid
    <3>4. Told(Torn, subject', p, "pypi")
      <4>1. (FromIndex(p) /\ Source(p).index # None) \/ LicenseAt(p, "pypi") = None
        BY DEF LicenseAt
      <4> QED BY <3>2, <4>1 DEF Told
    <3> QED BY <1>4, <3>1, <3>3, <3>4 DEF HasFields, IsTaken, IsSame
  <2> QED BY <2>1, <2>2
<1>12. AreLearned(Torn, Base, subject', Sources) /\ IsFiniteSet(subject'.packages)
  <2>1. \A p \in subject.packages :
          "pypi" = SecondSource(p) => FirstSource(p) \in {"wheel", "package-cache", "conda-archive"}
    BY DEF SecondSource, FirstSource
  <2>2. subject.incomplete \subseteq subject'.incomplete
    BY <1>10
  <2>3. subject'.packages = {f[p] : p \in subject.packages}
    BY <1>10
  <2> HIDE DEF f, notes
  <2>4. IsAsked(Torn, subject, subject', f, "pypi", {"wheel", "package-cache", "conda-archive"})
    BY <1>9, <1>11, <2>1, <2>2, <2>3 DEF IsAsked
  <2>5. {"wheel", "package-cache", "conda-archive"} \cup {"pypi"} = Sources
    BY DEF Sources
  <2> QED BY <1>3, <2>4, <2>5, AllLearned
<1>13. \A n \in notes : "step" \in DOMAIN n
  BY NotesAre
<1> HIDE DEF f, notes
<1> QED BY <1>1, <1>3, <1>10, <1>12, <1>13, BaseStays DEF SubjectInv, Asked, LooksUp, LookupVars

\* A document with nothing looked up has what no source was asked for.
LEMMA BareAreLearned ==
  ASSUME NEW torn, NEW d,
         \A p \in d.packages : IsBare(p),
         \A p \in d.packages : \A q \in d.packages : p.id = q.id => p = q
  PROVE  AreLearned(torn, d, d, {})
<1>1. ASSUME NEW p \in d.packages PROVE IsLearned(torn, p, p, d, {})
  BY DEF IsBare, IsLearned, IsSame, LicenseIsOwn
<1> QED BY <1>1 DEF AreLearned

\* A lookup starts with the union of the documents or with the first of them.
LEMMA BeginKeeps ==
  ASSUME NEW docs, NEW n \in Nat \ {0}, docs \in Seq(Values(docs)), DOMAIN docs = 1..n,
         \A i \in DOMAIN docs : IsDocument(docs[i]),
         NEW option, NEW left \in Caches, Begin(docs, option, left), LocksAreSound'
  PROVE  SubjectInv' /\ JobsInv' /\ EachInv' /\ CacheInv'
<1> DEFINE Of(i) == {Bare(p) : p \in docs[i].packages}
           bare == [i \in DOMAIN docs |-> [docs[i] EXCEPT !.packages = Of(i)]]
<1>1. /\ given' = bare /\ documents' = bare /\ phase' = "wheels" /\ cache' = left
      /\ \/ current' = 0 /\ subject' = Union(bare)
         \/ current' = 1 /\ subject' = bare[1]
  BY DEF Begin
<1>2. bare = [i \in 1..n |-> bare[i]]
  OBVIOUS
<1>3. ASSUME NEW i \in DOMAIN docs
      PROVE  {"packages", "incomplete"} \subseteq DOMAIN bare[i] /\ bare[i].packages = Of(i)
  <2> HIDE DEF Of
  <2> QED BY DEF IsDocument
<1>4. \A i \in DOMAIN bare : \A p \in bare[i].packages : IsBare(p)
  BY <1>3, BareIs DEF IsDocument, ArePackages
<1> HIDE DEF bare
<1>5. /\ \A i \in DOMAIN bare : IsFiniteSet(bare[i].packages)
      /\ \A i \in DOMAIN bare : \A p \in bare[i].packages : \A q \in bare[i].packages : p.id = q.id => p = q
  BY <1>1 DEF LocksAreSound, LocksAreFinite, IdsTellApart
<1>6. 1 \in DOMAIN bare
  BY <1>2
<1>7. EachInv'
  <2>1. bare \in Seq(Values(bare)) /\ Len(bare) > 0
    <3>1. bare \in [1..n -> Values(bare)]
      BY <1>2 DEF Values
    <3> QED BY <3>1
  <2> QED BY <1>1, <1>2, <1>3, <1>4, <1>6, <2>1 DEF EachInv
<1>8. SubjectInv'
  <2>1. CASE current' = 0 /\ subject' = Union(bare)
    <3>1. IsUnion(Union(bare), bare) /\ IsFiniteSet(Union(bare).packages)
      BY <1>2, <1>3, <1>4, <1>5, UnionIs
    <3>2. \A q \in Union(bare).packages : IsBare(q)
      <4> SUFFICES ASSUME NEW q \in Union(bare).packages PROVE IsBare(q)
        OBVIOUS
      <4>1. PICK i \in DOMAIN bare : \E p \in bare[i].packages : q = [p EXCEPT !.deps = {}]
        BY <3>1 DEF IsUnion
      <4>2. PICK p \in bare[i].packages : q = [p EXCEPT !.deps = {}]
        BY <4>1
      <4> QED BY <1>4, <4>2 DEF IsBare, Stated, LookedUp
    <3>3. AreLearned(Torn', Union(bare), Union(bare), {})
      BY <3>1, <3>2, BareAreLearned DEF IsUnion
    <3> QED BY <1>1, <2>1, <3>1, <3>3 DEF SubjectInv, Base, Asked, IsUnion
  <2>2. CASE current' = 1 /\ subject' = bare[1]
    <3>1. AreLearned(Torn', bare[1], bare[1], {})
      BY <1>4, <1>5, <1>6, BareAreLearned
    <3> QED BY <1>1, <1>2, <1>3, <1>5, <1>6, <2>2, <3>1 DEF SubjectInv, Base, Asked
  <2> QED BY <1>1, <2>1, <2>2
<1> QED BY <1>1, <1>7, <1>8 DEF JobsInv, CacheInv, Caches

LEMMA OverIs ==
  ASSUME NEW upper, NEW lower
  PROVE  /\ DOMAIN (upper ++ lower) = DOMAIN upper \cup DOMAIN lower
         /\ \A x \in DOMAIN upper : (upper ++ lower)[x] = upper[x]
         /\ \A x \in DOMAIN lower \ DOMAIN upper : (upper ++ lower)[x] = lower[x]
BY DEF ++

LEMMA BetweenIs ==
  ASSUME NEW q, NEW a
  PROVE  /\ DOMAIN Between(q, a) = {x \in LearnedFields : q[x] # a[x]}
         /\ \A x \in DOMAIN Between(q, a) : Between(q, a)[x] = a[x]
BY DEF Between

\* r is what a package p of a document becomes when what was learned between q and a is shared.
IsShared(p, q, a, r) ==
  /\ HasFields(r) /\ IsSame(p, r)
  /\ \A x \in {"license", "licenseFrom", "files", "filesFrom", "yanked"} :
       r[x] = IF q[x] # a[x] THEN a[x] ELSE p[x]

LEMMA LearnIs ==
  ASSUME NEW p, NEW q, NEW a, HasFields(p)
  PROVE  /\ IsShared(p, q, a, Learn(p, Between(q, a)))
         /\ Between(q, a) = <<>> => IsShared(p, q, a, p)
<1> DEFINE l == Between(q, a)
           r == Learn(p, l)
<1>1. /\ DOMAIN l = {x \in LearnedFields : q[x] # a[x]}
      /\ \A x \in DOMAIN l : l[x] = a[x]
  <2>1. DOMAIN l = {x \in LearnedFields : q[x] # a[x]}
    BY DEF Between
  <2>2. \A x \in DOMAIN l : l[x] = a[x]
    BY DEF Between
  <2> QED BY <2>1, <2>2
<1>2. /\ DOMAIN r = DOMAIN l \cup DOMAIN p
      /\ \A x \in DOMAIN l : r[x] = l[x]
      /\ \A x \in DOMAIN p \ DOMAIN l : r[x] = p[x]
  BY OverIs DEF Learn
<1> HIDE DEF l, r
<1>3. {"license", "licenseFrom", "files", "filesFrom", "yanked"} \subseteq LearnedFields \cap DOMAIN p
  BY DEF LearnedFields, HasFields, Stated, LookedUp
<1>4. \A x \in {"id", "kind", "source", "version", "deps", "purl", "hash"} :
        x \in DOMAIN p /\ x \notin LearnedFields
  BY DEF LearnedFields, HasFields, Stated
<1>5. IsSame(p, r)
  <2>1. \A x \in {"id", "kind", "source", "version", "deps", "purl", "hash"} : r[x] = p[x]
    BY <1>1, <1>2, <1>4
  <2> QED BY <2>1 DEF IsSame
<1>6. HasFields(r)
  BY <1>2 DEF HasFields
<1>7. \A x \in {"license", "licenseFrom", "files", "filesFrom", "yanked"} :
        r[x] = IF q[x] # a[x] THEN a[x] ELSE p[x]
  BY <1>1, <1>2, <1>3
<1>8. l = <<>> => IsShared(p, q, a, p)
  <2> SUFFICES ASSUME l = <<>> PROVE IsShared(p, q, a, p)
    OBVIOUS
  <2>1. DOMAIN l = {}
    OBVIOUS
  <2>2. \A x \in {"license", "licenseFrom", "files", "filesFrom", "yanked"} : ~ (q[x] # a[x])
    BY <1>1, <1>3, <2>1
  <2> QED BY <2>2 DEF IsShared, IsSame
<1> QED BY <1>5, <1>6, <1>7, <1>8 DEF IsShared, l, r

LEMMA ByIdIs ==
  ASSUME NEW packages, NEW p \in packages, \A q \in packages : \A r \in packages : q.id = r.id => q = r
  PROVE  ById(packages, p.id) = p
BY DEF ById

\* Each document learns of each of its packages what was learned of it in the union.
LEMMA SharedIs ==
  ASSUME NEW torn, NEW base, NEW s, NEW g, {"packages", "incomplete"} \subseteq DOMAIN g,
         AreLearned(torn, base, s, Sources),
         \A q \in base.packages : \A r \in base.packages : q.id = r.id => q = r,
         \A p \in g.packages : HasFields(p) /\ \E q \in base.packages : q.id = p.id,
         \A n \in s.incomplete : "step" \in DOMAIN n
  PROVE  LET e == ApplyShared(SharedBetween(base, s), g)
         IN  /\ {"packages", "incomplete"} \subseteq DOMAIN e
             /\ \A r \in e.packages : \E p \in g.packages : \E q \in base.packages : \E a \in s.packages :
                  p.id = q.id /\ IsLearned(torn, q, a, s, Sources) /\ IsShared(p, q, a, r)
             /\ \A source : IsNoted(s, source) => IsNoted(e, source)
<1> DEFINE Change(id) == Between(ById(base.packages, id), ById(s.packages, id))
           changed == {id \in Ids(s.packages) : Change(id) # <<>>}
           learned == [id \in changed |-> Change(id)]
           shared == SharedBetween(base, s)
           Of(p) == IF p.id \in changed THEN Learn(p, Change(p.id)) ELSE p
           notes == {[n EXCEPT !.shared = TRUE] : n \in s.incomplete}
           e == ApplyShared(shared, g)
<1>1. shared = [learned |-> learned, incomplete |-> s.incomplete]
  BY Zenon DEF SharedBetween
<1>2. shared.learned = learned /\ shared.incomplete = s.incomplete
  <2> HIDE DEF shared, learned
  <2> QED BY <1>1
<1>3. e = [g EXCEPT
             !.packages = {IF p.id \in DOMAIN shared.learned THEN Learn(p, shared.learned[p.id]) ELSE p : p \in @},
             !.incomplete = @ \cup {[n EXCEPT !.shared = TRUE] : n \in shared.incomplete}]
  <2> HIDE DEF shared
  <2> QED BY Zenon DEF ApplyShared
<1>4. e.packages = {IF p.id \in DOMAIN shared.learned THEN Learn(p, shared.learned[p.id]) ELSE p : p \in g.packages}
      /\ e.incomplete = g.incomplete \cup {[n EXCEPT !.shared = TRUE] : n \in shared.incomplete}
      /\ {"packages", "incomplete"} \subseteq DOMAIN e
  <2> DEFINE packages == {IF p.id \in DOMAIN shared.learned THEN Learn(p, shared.learned[p.id]) ELSE p : p \in g.packages}
             incomplete == g.incomplete \cup {[n EXCEPT !.shared = TRUE] : n \in shared.incomplete}
  <2>1. e = [g EXCEPT !.packages = packages, !.incomplete = incomplete]
    BY <1>3
  <2> HIDE DEF packages, incomplete, e
  <2>2. e.packages = packages /\ e.incomplete = incomplete /\ {"packages", "incomplete"} \subseteq DOMAIN e
    BY <2>1
  <2> QED BY <2>2 DEF packages, incomplete
<1>5. \A r \in e.packages : \E p \in g.packages : r = Of(p)
  <2>1. \A p : (IF p.id \in DOMAIN shared.learned THEN Learn(p, shared.learned[p.id]) ELSE p) = Of(p)
    <3> HIDE DEF shared, Change, changed
    <3> QED BY <1>2
  <2> HIDE DEF e, shared, Of
  <2> QED BY <1>4, <2>1
<1>6. e.incomplete = g.incomplete \cup notes
  <2> HIDE DEF shared, e, learned
  <2> QED BY <1>2, <1>4
<1>7. ASSUME NEW p \in g.packages
      PROVE  \E q \in base.packages : \E a \in s.packages :
               p.id = q.id /\ IsLearned(torn, q, a, s, Sources) /\ IsShared(p, q, a, Of(p))
  <2>1. PICK q \in base.packages : q.id = p.id
    OBVIOUS
  <2>2. PICK a \in s.packages : a.id = q.id
    BY DEF AreLearned
  <2>3. PICK q2 \in base.packages : IsLearned(torn, q2, a, s, Sources)
    BY DEF AreLearned
  <2>4. q2 = q
    <3>1. q2.id = a.id
      BY <2>3 DEF IsLearned, IsSame
    <3> QED BY <2>2, <3>1
  <2>5. ById(base.packages, p.id) = q
    BY <2>1, ByIdIs
  <2>6. ById(s.packages, p.id) = a
    <3>1. \A r1 \in s.packages : \A r2 \in s.packages : r1.id = r2.id => r1 = r2
      BY DEF AreLearned
    <3> QED BY <2>1, <2>2, <3>1, ByIdIs
  <2>7. Change(p.id) = Between(q, a) /\ p.id \in Ids(s.packages)
    BY <2>1, <2>2, <2>5, <2>6 DEF Ids
  <2>8. IsShared(p, q, a, Of(p))
    <3>1. /\ IsShared(p, q, a, Learn(p, Between(q, a)))
          /\ Between(q, a) = <<>> => IsShared(p, q, a, p)
      BY LearnIs
    <3>2. p.id \in changed <=> Between(q, a) # <<>>
      <4> HIDE DEF Change
      <4> QED BY <2>7
    <3> HIDE DEF Change, changed
    <3> QED BY <2>7, <3>1, <3>2
  <2> HIDE DEF Of
  <2> QED BY <2>1, <2>3, <2>4, <2>8
<1>8. ASSUME NEW source, IsNoted(s, source)
      PROVE  IsNoted(e, source)
  <2>1. PICK n \in s.incomplete : n.step = StepOf(source)
    BY <1>8 DEF IsNoted
  <2>2. [n EXCEPT !.shared = TRUE].step = n.step
    OBVIOUS
  <2>3. [n EXCEPT !.shared = TRUE] \in e.incomplete
    <3> HIDE DEF e
    <3> QED BY <1>6
  <2> HIDE DEF e
  <2> QED BY <2>1, <2>2, <2>3 DEF IsNoted
<1> HIDE DEF Of, e
<1> QED BY <1>4, <1>5, <1>7, <1>8 DEF e

\* No source is none.
LEMMA SourcesAreSome ==
  ASSUME NEW p
  PROVE  FirstSource(p) # None /\ SecondSource(p) # None
BY SourcesAssumption DEF FirstSource, SecondSource, Sources

\* Of a license that nobody stated it is put down where it is from.
LEMMA LookedUpLicense ==
  ASSUME NEW torn, NEW q, NEW p, NEW d, LicenseIsOwn(torn, q, p, d, Sources)
  PROVE  /\ p.licenseFrom = None => p.license = q.license
         /\ p.licenseFrom # None =>
              /\ q.license = None /\ p.license # None
              /\ p.license = LicenseAt(p, p.licenseFrom)
              /\ \/ p.licenseFrom = FirstSource(p)
                 \/ p.licenseFrom = SecondSource(p) /\ Told(torn, d, p, FirstSource(p))
         /\ (p.licenseFrom = None /\ q.license = None) =>
              \A source \in {FirstSource(p), SecondSource(p)} : Told(torn, d, p, source)
<1>1. FirstSource(p) \in Sources /\ SecondSource(p) \in Sources
  BY DEF FirstSource, SecondSource, Sources
<1>2. FirstSource(p) # None /\ SecondSource(p) # None
  BY SourcesAreSome
<1> QED BY <1>1, <1>2 DEF LicenseIsOwn

LEMMA LearnedIsTold ==
  ASSUME NEW torn, NEW q, NEW p, NEW d, IsLearned(torn, q, p, d, Sources)
  PROVE  IsTold(torn, q, q, p, d)
<1>1. LicenseIsOwn(torn, q, p, d, Sources) /\ "pypi" \in Sources
  BY DEF IsLearned, Sources
<1> QED BY <1>1, LookedUpLicense DEF IsLearned, IsTold

\* What was learned for another package of the same id and kind, p gets it: the
\* lookup went by what the other one lacks.
LEMMA SharedIsTold ==
  ASSUME NEW torn, NEW p, NEW q, NEW a, NEW r, NEW s, NEW e, NEW f, f.license = q.license,
         IsLearned(torn, q, a, s, Sources), IsShared(p, q, a, r), IsBare(p), IsBare(q),
         p.id = q.id, p.kind = q.kind, FromIndex(p) = FromIndex(q),
         \A source : IsNoted(s, source) => IsNoted(e, source)
  PROVE  IsTold(torn, p, f, r, e)
<1>1. IsSame(q, a) /\ IsSame(p, r) /\ HasFields(r)
  BY DEF IsLearned, IsShared
<1>2. r.id = a.id /\ r.kind = a.kind /\ Source(r) = Source(a)
  BY <1>1 DEF IsSame, Source
<1>3. FromIndex(r) = FromIndex(a)
  BY <1>1, SameIs
<1>4. \A source : LicenseAt(r, source) = LicenseAt(a, source)
  BY <1>2, <1>3, Zenon DEF LicenseAt
<1>5. FirstSource(r) = FirstSource(a) /\ SecondSource(r) = SecondSource(a)
  BY <1>2 DEF FirstSource, SecondSource
<1>6. \A source : Told(torn, s, a, source) => Told(torn, e, r, source)
  BY <1>2, <1>4 DEF Told
<1>7. /\ r.licenseFrom = a.licenseFrom /\ r.files = a.files /\ r.filesFrom = a.filesFrom
      /\ r.yanked <=> a.yanked
  <2>1. \A x \in {"license", "licenseFrom", "files", "filesFrom", "yanked"} :
          p[x] = q[x] => r[x] = a[x]
    BY DEF IsShared
  <2>2. p.licenseFrom = q.licenseFrom /\ p.files = q.files /\ p.filesFrom = q.filesFrom
    BY DEF IsBare
  <2>3. r.yanked = IF q.yanked # a.yanked THEN a.yanked ELSE p.yanked
    BY DEF IsShared
  <2>4. r.yanked <=> a.yanked
    BY <2>3 DEF IsBare
  <2> QED BY <2>1, <2>2, <2>4
<1>8. r.license = IF q.license # a.license THEN a.license ELSE p.license
  BY DEF IsShared
<1>9. LicenseIsOwn(torn, q, a, s, Sources)
  BY DEF IsLearned
<1>10. r.licenseFrom = None => r.license = p.license
  <2>1. a.licenseFrom = None => a.license = q.license
    BY <1>9, LookedUpLicense
  <2> QED BY <1>7, <1>8, <2>1
<1>11. ASSUME r.licenseFrom # None
       PROVE  /\ f.license = None /\ r.license # None
              /\ r.license = LicenseAt(r, r.licenseFrom)
              /\ \/ r.licenseFrom = FirstSource(r)
                 \/ r.licenseFrom = SecondSource(r) /\ Told(torn, e, r, FirstSource(r))
  <2>1. /\ q.license = None /\ a.license # None
        /\ a.license = LicenseAt(a, a.licenseFrom)
        /\ \/ a.licenseFrom = FirstSource(a)
           \/ a.licenseFrom = SecondSource(a) /\ Told(torn, s, a, FirstSource(a))
    BY <1>7, <1>9, <1>11, LookedUpLicense
  <2>2. r.license = a.license
    BY <1>8, <2>1
  <2> QED BY <1>4, <1>5, <1>6, <1>7, <2>1, <2>2
<1>12. ASSUME r.licenseFrom = None, f.license = None
       PROVE  \A source \in {FirstSource(r), SecondSource(r)} : Told(torn, e, r, source)
  BY <1>5, <1>6, <1>7, <1>9, <1>12, LookedUpLicense
<1>13. (r.files # {}) = (r.filesFrom # None) /\ (r.yanked => Source(r).index.yanked)
  BY <1>2, <1>7 DEF IsLearned
<1>14. YankedIsSaid(torn, r, e)
  <2>1. YankedIsSaid(torn, a, s)
    BY DEF IsLearned, Sources
  <2> QED BY <1>2, <1>3, <1>7, <2>1 DEF YankedIsSaid
<1> QED BY <1>1, <1>10, <1>11, <1>12, <1>13, <1>14 DEF IsTold, HasFields

LEMMA ShareOutKeeps ==
  ASSUME LocksAreSound, EachInv, SubjectInv, ShareOut
  PROVE  EachInv'
<1>1. /\ phase = "learned" /\ current = 0 /\ phase' = "enriched" /\ UNCHANGED LookupVars
      /\ documents' = [i \in DOMAIN documents |-> ApplyShared(SharedBetween(Union(documents), subject), documents[i])]
  BY DEF ShareOut, LookupVars
<1>2. documents = given
  <2>1. DOMAIN documents = DOMAIN given /\ \A i \in DOMAIN given : documents[i] = given[i]
    BY <1>1 DEF EachInv
  <2>2. documents = [i \in DOMAIN documents |-> documents[i]] /\ given = [i \in DOMAIN given |-> given[i]]
    BY <1>1 DEF EachInv
  <2> QED BY <2>1, <2>2
<1>3. PICK n \in Nat \ {0} : DOMAIN given = 1..n
  BY <1>1 DEF EachInv
<1>4. /\ \A i \in DOMAIN given : {"packages", "incomplete"} \subseteq DOMAIN given[i]
      /\ \A i \in DOMAIN given : \A p \in given[i].packages : IsBare(p)
  BY <1>1 DEF EachInv
<1> DEFINE base == Union(given)
<1>5. IsUnion(base, given)
  BY <1>3, <1>4, UnionIs DEF LocksAreSound, LocksAreFinite, IdsTellApart
<1> HIDE DEF base
<1>6. AreLearned(Torn, base, subject, Sources) /\ \A x \in subject.incomplete : "step" \in DOMAIN x
  BY <1>1 DEF SubjectInv, LooksUp, Asked, Base, base
<1>7. Torn' = Torn
  BY <1>1, BaseStays DEF LookupVars
<1>8. ASSUME NEW i \in DOMAIN given
      PROVE  LET e == documents'[i]
             IN  \A r \in e.packages : \E p \in given[i].packages :
                   \E j \in DOMAIN given : \E f \in given[j].packages :
                     r.id = p.id /\ f.id = r.id /\ GoesBy(i, r.id, j) /\ IsTold(Torn, p, f, r, e)
  <2> DEFINE e == documents'[i]
  <2>1. e = ApplyShared(SharedBetween(base, subject), given[i])
    BY <1>1, <1>2 DEF base
  <2>2. /\ \A r \in e.packages : \E p \in given[i].packages : \E q \in base.packages : \E a \in subject.packages :
             p.id = q.id /\ IsLearned(Torn, q, a, subject, Sources) /\ IsShared(p, q, a, r)
        /\ \A source : IsNoted(subject, source) => IsNoted(e, source)
    <3>1. \A p \in given[i].packages : HasFields(p) /\ \E q \in base.packages : q.id = p.id
      BY <1>4, <1>5 DEF IsUnion, IsBare, HasFields
    <3>2. \A q \in base.packages : \A r \in base.packages : q.id = r.id => q = r
      BY <1>5 DEF IsUnion
    <3> HIDE DEF e
    <3> QED BY <1>4, <1>6, <2>1, <3>1, <3>2, SharedIs
  <2> HIDE DEF e
  <2>3. ASSUME NEW r \in e.packages
        PROVE  \E p \in given[i].packages : \E j \in DOMAIN given : \E f \in given[j].packages :
                 r.id = p.id /\ f.id = r.id /\ GoesBy(i, r.id, j) /\ IsTold(Torn, p, f, r, e)
    <3>1. PICK p \in given[i].packages : \E q \in base.packages : \E a \in subject.packages :
             p.id = q.id /\ IsLearned(Torn, q, a, subject, Sources) /\ IsShared(p, q, a, r)
      BY <2>2
    <3>2. PICK q \in base.packages : \E a \in subject.packages :
             p.id = q.id /\ IsLearned(Torn, q, a, subject, Sources) /\ IsShared(p, q, a, r)
      BY <3>1
    <3>3. PICK a \in subject.packages :
             p.id = q.id /\ IsLearned(Torn, q, a, subject, Sources) /\ IsShared(p, q, a, r)
      BY <3>2
    <3>4. PICK j \in DOMAIN given : \E f \in given[j].packages :
             q = [f EXCEPT !.deps = {}] /\ \A k \in 1..(j - 1) : f.id \notin Ids(given[k].packages)
      BY <1>5 DEF IsUnion
    <3>5. PICK f \in given[j].packages :
             q = [f EXCEPT !.deps = {}] /\ \A k \in 1..(j - 1) : f.id \notin Ids(given[k].packages)
      BY <3>4
    <3>6. IsBare(p) /\ IsBare(f)
      BY <1>4
    <3>7. /\ q.id = f.id /\ q.kind = f.kind /\ q.source = f.source /\ q.license = f.license /\ IsBare(q)
      BY <3>5, <3>6 DEF IsBare, Stated, LookedUp
    <3>8. p.kind = f.kind /\ FromIndex(p) = FromIndex(f)
      BY <3>3, <3>7 DEF LocksAreSound, IdsTellApart
    <3>9. p.kind = q.kind /\ FromIndex(p) = FromIndex(q)
      BY <3>7, <3>8 DEF FromIndex
    <3>10. r.id = p.id /\ f.id = r.id
      BY <3>3, <3>7 DEF IsShared, IsSame
    <3>11. GoesBy(i, r.id, j)
      BY <1>1, <3>5, <3>10 DEF GoesBy, Ids
    <3>12. IsTold(Torn, p, f, r, e)
      BY <2>2, <3>3, <3>6, <3>7, <3>9, SharedIsTold
    <3> QED BY <3>10, <3>11, <3>12
  <2> QED BY <2>3 DEF e
<1>9. ASSUME NEW i \in DOMAIN given PROVE IsDone(i)'
  <2>1. given' = given /\ current' = current
    BY <1>1 DEF LookupVars
  <2>2. \A id, j : GoesBy(i, id, j) => GoesBy(i, id, j)'
    BY <2>1 DEF GoesBy
  <2>3. \A r \in documents'[i].packages : \E p \in given[i].packages :
          \E j \in DOMAIN given : \E f \in given[j].packages :
            r.id = p.id /\ f.id = r.id /\ GoesBy(i, r.id, j) /\ IsTold(Torn, p, f, r, documents'[i])
    BY <1>8
  <2> QED BY <1>7, <2>1, <2>2, <2>3, Zenon DEF IsDone
<1>10. DOMAIN documents' = DOMAIN given' /\ documents' \in Seq(Values(documents')) /\ Len(documents') > 0
  <2>1. documents' = [i \in 1..n |-> documents'[i]]
    BY <1>1, <1>2, <1>3
  <2>2. documents' \in [1..n -> Values(documents')]
    BY <2>1 DEF Values
  <2>3. documents' \in Seq(Values(documents')) /\ Len(documents') > 0
    BY <2>2
  <2> QED BY <1>1, <1>3, <2>1, <2>3 DEF LookupVars
<1> QED BY <1>1, <1>4, <1>9, <1>10 DEF EachInv, LookupVars

LEMMA NextDocumentKeeps ==
  ASSUME LocksAreSound, EachInv, SubjectInv, NextDocument
  PROVE  EachInv' /\ SubjectInv'
<1>1. /\ phase = "learned" /\ current # 0 /\ UNCHANGED <<given, options, cache>>
      /\ documents' = [documents EXCEPT ![current] = subject]
      /\ IF current = Len(documents)
         THEN current' = current /\ subject' = subject /\ phase' = "enriched"
         ELSE current' = current + 1 /\ subject' = documents[current + 1] /\ phase' = "wheels"
  BY DEF NextDocument
<1> DEFINE n == Len(documents)
<1>2. /\ n \in Nat \ {0} /\ DOMAIN documents = 1..n /\ DOMAIN given = 1..n /\ current \in 1..n
      /\ documents = [i \in 1..n |-> documents[i]]
  BY <1>1 DEF EachInv
<1> HIDE DEF n
<1>3. Torn' = Torn /\ current' # 0
  BY <1>1 DEF Torn, EachInv
<1>4. AreLearned(Torn, given[current], subject, Sources)
  BY <1>1 DEF SubjectInv, LooksUp, Asked, Base
<1>5. /\ documents'[current] = subject
      /\ \A i \in 1..n : i # current => documents'[i] = documents[i]
      /\ documents' = [i \in 1..n |-> documents'[i]]
  BY <1>1, <1>2
<1>6. ASSUME NEW i \in 1..n, i = current
      PROVE  IsDone(i)'
  <2>1. \A p \in subject.packages : \E q \in given[i].packages :
          p.id = q.id /\ IsTold(Torn, q, q, p, subject)
    BY <1>4, <1>6, LearnedIsTold DEF AreLearned, IsLearned, IsSame
  <2>2. documents'[i] = subject
    BY <1>5, <1>6
  <2>3. ASSUME NEW p \in subject.packages
        PROVE  \E q \in given[i].packages : \E j \in DOMAIN given : \E f \in given[j].packages :
                 p.id = q.id /\ f.id = p.id /\ GoesBy(i, p.id, j)' /\ IsTold(Torn, q, f, p, subject)
    <3>1. PICK q \in given[i].packages : p.id = q.id /\ IsTold(Torn, q, q, p, subject)
      BY <2>1
    <3>2. GoesBy(i, p.id, i)'
      BY <1>1, <1>2, <1>3, <3>1 DEF GoesBy, Ids
    <3> QED BY <1>2, <3>1, <3>2
  <2> QED BY <1>1, <1>3, <2>2, <2>3 DEF IsDone
<1>7. ASSUME NEW i \in 1..n, i # current
      PROVE  /\ i < current => IsDone(i)'
             /\ i > current => documents'[i] = given[i]
  <2>1. documents'[i] = documents[i]
    BY <1>5, <1>7
  <2>2. i < current => IsDone(i)
    BY <1>1, <1>2 DEF EachInv
  <2>3. IsDone(i) => IsDone(i)'
    BY <1>1, <1>3, <2>1 DEF IsDone, GoesBy
  <2>4. i > current => documents[i] = given[i]
    BY <1>1, <1>2 DEF EachInv
  <2> QED BY <2>1, <2>2, <2>3, <2>4
<1>8. documents' \in Seq(Values(documents')) /\ Len(documents') > 0 /\ DOMAIN documents' = 1..n
  <2>1. documents' \in [1..n -> Values(documents')]
    BY <1>5 DEF Values
  <2> QED BY <1>2, <2>1
<1>9. /\ \A i \in 1..n : {"packages", "incomplete"} \subseteq DOMAIN given[i]
      /\ \A i \in 1..n : \A p \in given[i].packages : IsBare(p)
      /\ given \in Seq(Values(given))
  BY <1>1, <1>2 DEF EachInv
<1>10. CASE current = n
  <2>1. phase' = "enriched" /\ current' = current
    BY <1>1, <1>10 DEF n
  <2>2. \A i \in 1..n : IsDone(i)'
    BY <1>2, <1>6, <1>7, <1>10
  <2> QED BY <1>1, <1>2, <1>8, <1>9, <2>1, <2>2 DEF EachInv, SubjectInv, LooksUp
<1>11. CASE current # n
  <2>1. phase' = "wheels" /\ current' = current + 1 /\ subject' = documents[current + 1]
    BY <1>1, <1>11 DEF n
  <2>2. current + 1 \in 1..n
    BY <1>2, <1>11
  <2>3. \A i \in 1..n : IF i < current + 1 THEN IsDone(i)' ELSE documents'[i] = given[i]
    BY <1>2, <1>6, <1>7
  <2>4. EachInv'
    BY <1>1, <1>2, <1>8, <1>9, <2>1, <2>2, <2>3 DEF EachInv
  <2>5. subject' = given[current + 1]
    BY <1>2, <1>7, <2>1, <2>2, <1>5
  <2>6. AreLearned(Torn', subject', subject', {}) /\ IsFiniteSet(subject'.packages)
    <3>1. \A p \in given[current + 1].packages : \A q \in given[current + 1].packages : p.id = q.id => p = q
      BY <1>2, <2>2 DEF LocksAreSound, IdsTellApart
    <3> QED BY <1>2, <1>9, <2>2, <2>5, <3>1, BareAreLearned DEF LocksAreSound, LocksAreFinite
  <2>7. Base' = subject' /\ Asked' = {} /\ current' # 0
    BY <1>1, <1>2, <2>1, <2>5 DEF Base, Asked
  <2> QED BY <1>2, <1>9, <2>1, <2>2, <2>4, <2>5, <2>6, <2>7 DEF SubjectInv
<1> QED BY <1>10, <1>11

LEMMA EachStays ==
  ASSUME EachInv, UNCHANGED <<given, documents, current>>, Torn' = Torn,
         phase = "idle" => phase' = "idle", phase' = "enriched" <=> phase = "enriched"
  PROVE  EachInv'
<1>1. \A i \in DOMAIN given : IsDone(i) => IsDone(i)'
  BY DEF IsDone, GoesBy
<1> QED BY <1>1 DEF EachInv

LEMMA IsSeq ==
  ASSUME NEW n \in Nat, NEW S, NEW s \in [1..n -> S]
  PROVE  s \in Seq(S)
OBVIOUS

\* A run looks up its lock, or with it the one of the first run.
LEMMA LookUpKeeps ==
  ASSUME DocumentsInv, EarlierInv, LocksAreSound', LookUp
  PROVE  LookupInv'
<1>1. PICK option : option \in Options /\
        \E left \in Caches :
          LET docs == IF run = 1 THEN <<sbom>> ELSE <<earlier.sbom, sbom>>
          IN  /\ stage = "read" /\ (run = 2 => earlier.name = "lock")
              /\ Begin(docs, option, left)
  BY DEF LookUp
<1>2. PICK left \in Caches :
        LET docs == IF run = 1 THEN <<sbom>> ELSE <<earlier.sbom, sbom>>
        IN  /\ stage = "read" /\ (run = 2 => earlier.name = "lock")
            /\ Begin(docs, option, left)
  BY <1>1
<1> DEFINE docs == IF run = 1 THEN <<sbom>> ELSE <<earlier.sbom, sbom>>
<1>3. /\ stage = "read" /\ (run = 2 => earlier.name = "lock")
      /\ Begin(docs, option, left)
  BY <1>2
<1>4. run \in {1, 2} /\ IsDocument(sbom) /\ (run = 2 => IsDocument(earlier.sbom))
  BY <1>3 DEF DocumentsInv, HasDocument, EarlierInv
<1>5. \E n \in Nat \ {0} :
        DOMAIN docs = 1..n /\ docs \in Seq(Values(docs)) /\ \A i \in DOMAIN docs : IsDocument(docs[i])
  <2>1. CASE run = 1
    <3> DEFINE one == <<sbom>>
    <3>1. DOMAIN one = 1..1 /\ one[1] = sbom /\ one = [i \in 1..1 |-> one[i]]
      OBVIOUS
    <3>2. \A i \in 1..1 : i = 1
      OBVIOUS
    <3> HIDE DEF one
    <3>3. one \in [1..1 -> Values(one)]
      BY <3>1 DEF Values, Range
    <3>4. one \in Seq(Values(one))
      BY <3>3, IsSeq
    <3>5. \A i \in DOMAIN one : IsDocument(one[i])
      BY <1>4, <3>1, <3>2
    <3>6. docs = one
      BY <2>1 DEF one
    <3> HIDE DEF docs
    <3> QED BY <3>1, <3>4, <3>5, <3>6
  <2>2. CASE run = 2
    <3> DEFINE two == <<earlier.sbom, sbom>>
    <3>1. DOMAIN two = 1..2 /\ two[1] = earlier.sbom /\ two[2] = sbom /\ two = [i \in 1..2 |-> two[i]]
      OBVIOUS
    <3>2. \A i \in 1..2 : i = 1 \/ i = 2
      OBVIOUS
    <3> HIDE DEF two
    <3>3. two \in [1..2 -> Values(two)]
      BY <3>1 DEF Values, Range
    <3>4. two \in Seq(Values(two))
      BY <3>3, IsSeq
    <3>5. \A i \in DOMAIN two : IsDocument(two[i])
      BY <1>4, <2>2, <3>1, <3>2
    <3>6. docs = two
      BY <2>2 DEF two
    <3> HIDE DEF docs
    <3> QED BY <3>1, <3>4, <3>5, <3>6
  <2> QED BY <1>4, <2>1, <2>2
<1> HIDE DEF docs
<1> QED BY <1>3, <1>5, BeginKeeps DEF LookupInv

LEMMA EnrichmentKeeps ==
  ASSUME LookupInv, LocksAreSound, EnrichmentNext
  PROVE  LookupInv'
<1> USE DEF LookupInv
<1>1. ASSUME NEW failing, ReadWheels(failing) \/ ReadArchives(failing)
      PROVE  LookupInv'
  <2>1. /\ phase \in {"wheels", "archives"} /\ phase' \in {"package cache", "releases"}
        /\ UNCHANGED LookupVars /\ documents' = documents
    BY <1>1 DEF ReadWheels, ReadArchives, LookupVars
  <2>2. SubjectInv'
    BY <1>1, WheelsKeep, ArchivesKeep
  <2>3. EachInv'
    BY <2>1, BaseStays, EachStays DEF LookupVars
  <2> QED BY <2>1, <2>2, <2>3 DEF JobsInv, CacheInv, LookupVars
<1>2. CASE ReadPackageCache
  <2>1. /\ phase = "package cache" /\ phase' \in {"releases", "archives"}
        /\ UNCHANGED LookupVars /\ documents' = documents
    BY <1>2 DEF ReadPackageCache, LookupVars
  <2>2. EachInv'
    BY <2>1, BaseStays, EachStays DEF LookupVars
  <2> QED BY <1>2, <2>1, <2>2, PackageCacheKeeps DEF JobsInv, CacheInv, LookupVars
<1>3. CASE AskReleases \/ \E id \in DOMAIN jobs : Look(id) \/ Answered(id) \/ Refused(id) \/ Unreachable(id)
  <2>1. /\ phase \in {"releases", "asking"} /\ phase' \in {"releases", "asking"}
        /\ UNCHANGED <<given, documents, current>>
    BY <1>3 DEF AskReleases, Look, Answered, Refused, Unreachable
  <2>2. SubjectInv' /\ JobsInv' /\ CacheInv' /\ Torn' = Torn
    BY <1>3, AskingKeeps
  <2>3. EachInv'
    BY <2>1, <2>2, EachStays
  <2> QED BY <2>2, <2>3
<1>4. CASE ReadReleases
  <2>1. phase = "asking" /\ phase' = "learned" /\ UNCHANGED LookupVars /\ documents' = documents
    BY <1>4 DEF ReadReleases, LookupVars
  <2>2. EachInv'
    BY <2>1, BaseStays, EachStays DEF LookupVars
  <2> QED BY <1>4, <2>1, <2>2, ReleasesKeep DEF JobsInv, CacheInv, LookupVars
<1>5. CASE ShareOut
  <2>1. phase' = "enriched" /\ cache' = cache /\ phase = "learned"
    BY <1>5 DEF ShareOut
  <2> QED BY <1>5, <2>1, ShareOutKeeps DEF SubjectInv, LooksUp, JobsInv, CacheInv
<1>6. CASE NextDocument
  <2>1. phase' \in {"enriched", "wheels"} /\ cache' = cache /\ phase = "learned"
    BY <1>6 DEF NextDocument
  <2> QED BY <1>6, <2>1, NextDocumentKeeps DEF JobsInv, CacheInv
<1> QED BY <1>1, <1>2, <1>3, <1>4, <1>5, <1>6 DEF EnrichmentNext

LEMMA LookupInvKept ==
  LookupInv /\ DocumentsInv /\ EarlierInv /\ LocksAreSound /\ LocksAreSound' /\ [ScanNext]_svars => LookupInv'
<1> SUFFICES ASSUME LookupInv, DocumentsInv, EarlierInv, LocksAreSound, LocksAreSound', [ScanNext]_svars
             PROVE  LookupInv'
  OBVIOUS
<1>1. CASE UNCHANGED evars
  <2>1. Torn' = Torn /\ Base' = Base /\ Asked' = Asked
    BY <1>1 DEF evars, Torn, Base, Asked
  <2>2. EachInv'
    BY <1>1, <2>1, EachStays DEF evars, LookupInv
  <2> QED BY <1>1, <2>1, <2>2 DEF evars, LookupInv, SubjectInv, JobsInv, CacheInv, LooksUp
<1> QED BY <1>1, LookUpKeeps, EnrichmentKeeps DEF ScanNext, svars, LookForLocks, OpenLock

LEMMA EarlierInvKept ==
  EarlierInv /\ DocumentsInv /\ [Next]_vars => EarlierInv'
<1> SUFFICES ASSUME EarlierInv, DocumentsInv, [Next]_vars
             PROVE  EarlierInv'
  OBVIOUS
<1>1. ASSUME NEW i, AgainstLock(i)
      PROVE  EarlierInv'
  <2>1. run' = 2 /\ stage = "read" /\ earlier'.sbom = sbom
    BY <1>1 DEF AgainstLock, SecondRun
  <2> QED BY <2>1 DEF DocumentsInv, HasDocument, EarlierInv
<1>2. ASSUME NEW i, AgainstDocument(i)
      PROVE  EarlierInv'
  <2>1. run' = 2 /\ earlier'.name = "document"
    BY <1>2 DEF AgainstDocument, SecondRun
  <2> QED BY <2>1 DEF EarlierInv
<1>3. CASE UNCHANGED <<run, earlier>>
  BY <1>3 DEF EarlierInv
<1>4. CASE ~ \E i \in Later : AgainstLock(i) \/ AgainstDocument(i)
  <2>1. UNCHANGED <<run, earlier>>
    BY <1>4 DEF Next, vars, ReadAtOnce, StartUv, VisitUv, EndUv, StartRequirements, ReadRequirement,
                EndRequirements, Filter, WriteDocument, CompareWithEarlier, MergeWithEarlier, IsRead
  <2> QED BY <1>3, <2>1
<1> QED BY <1>1, <1>2, <1>4

\* Whatever is looked up, in whatever order.
THEOREM LookupInvHolds ==
  ScanSpec /\ []GraphsAreFinite /\ []LocksAreSound => []LookupInv
<1>1. ScanInit => LookupInv /\ EarlierInv
  BY DEF ScanInit, Init, EnrichmentInit, LookupInv, SubjectInv, LooksUp, JobsInv, EachInv, CacheInv, EarlierInv
<1>2. DocumentsInv /\ LocksAreSound /\ LocksAreSound' /\ LookupInv /\ EarlierInv /\ [ScanNext]_svars
        => LookupInv' /\ EarlierInv'
  BY LookupInvKept, EarlierInvKept, ScanIsDocuments
<1> QED BY <1>1, <1>2, DocumentsInvHolds, PTL DEF ScanSpec

\* The lookup of a package goes by one lock.
LEMMA LookedUpForIs ==
  ASSUME NEW n \in Nat, DOMAIN given = 1..n, NEW i, NEW p, NEW j, GoesBy(i, p.id, j)
  PROVE  LookedUpFor(i, p) = InLock(j, p)
<1> DEFINE Before(m) == {k \in 1..(m - 1) : p.id \in Ids(given[k].packages)}
           Is(m) == p.id \in Ids(given[m].packages) /\ (IF current = 0 THEN Before(m) = {} ELSE m = i)
<1>1. j \in 1..n /\ Is(j)
  BY DEF GoesBy
<1>2. \A m \in 1..n : Is(m) => m = j
  <2> SUFFICES ASSUME NEW m \in 1..n, Is(m) PROVE m = j
    OBVIOUS
  <2>1. CASE current # 0
    BY <1>1, <2>1
  <2>2. CASE current = 0
    <3>1. ~ (m < j) /\ ~ (j < m)
      BY <1>1, <2>2
    <3> QED BY <1>1, <3>1
  <2> QED BY <2>1, <2>2
<1> HIDE DEF Is
<1>3. (CHOOSE m \in DOMAIN given : Is(m)) = j
  BY <1>1, <1>2
<1> QED BY <1>3, Zenon DEF LookedUpFor, Is

\* What a lookup leaves of a package when it is over.
LEMMA DoneIs ==
  ASSUME LookupInv, LocksAreSound, phase = "enriched",
         NEW i \in DOMAIN documents, NEW p \in documents[i].packages
  PROVE  IsTold(Torn, InLock(i, p), LookedUpFor(i, p), p, documents[i])
<1>1. i \in DOMAIN given /\ IsDone(i) /\ given \in Seq(Values(given))
  BY DEF LookupInv, EachInv
<1>2. PICK q \in given[i].packages : \E j \in DOMAIN given : \E f \in given[j].packages :
        /\ p.id = q.id /\ f.id = p.id /\ GoesBy(i, p.id, j)
        /\ IsTold(Torn, q, f, p, documents[i])
  BY <1>1 DEF IsDone
<1>3. PICK j \in DOMAIN given : \E f \in given[j].packages :
        /\ p.id = q.id /\ f.id = p.id /\ GoesBy(i, p.id, j)
        /\ IsTold(Torn, q, f, p, documents[i])
  BY <1>2
<1>4. PICK f \in given[j].packages :
        /\ p.id = q.id /\ f.id = p.id /\ GoesBy(i, p.id, j)
        /\ IsTold(Torn, q, f, p, documents[i])
  BY <1>3
<1>5. \A k \in DOMAIN given : \A r \in given[k].packages : \A s \in given[k].packages : r.id = s.id => r = s
  BY DEF LocksAreSound, IdsTellApart
<1>6. InLock(i, p) = q
  <2>1. ById(given[i].packages, q.id) = q
    BY <1>1, <1>5, ByIdIs
  <2> QED BY <1>4, <2>1 DEF InLock
<1>7. InLock(j, p) = f
  <2>1. ById(given[j].packages, f.id) = f
    BY <1>5, ByIdIs
  <2> QED BY <1>4, <2>1 DEF InLock
<1>8. PICK n \in Nat : DOMAIN given = 1..n
  BY <1>1
<1>9. LookedUpFor(i, p) = f
  BY <1>4, <1>7, <1>8, LookedUpForIs
<1> QED BY <1>4, <1>6, <1>9

LEMMA TwoSources ==
  ASSUME NEW p
  PROVE  /\ SourcesOf(p) = <<FirstSource(p), SecondSource(p)>>
         /\ FirstSource(p) # SecondSource(p)
         /\ Values(SourcesOf(p)) = {FirstSource(p), SecondSource(p)}
         /\ FirstSource(p) \in Sources /\ SecondSource(p) \in Sources
<1>1. SourcesOf(p) = <<FirstSource(p), SecondSource(p)>>
  BY DEF SourcesOf, FirstSource, SecondSource
<1>2. FirstSource(p) # SecondSource(p) /\ FirstSource(p) \in Sources /\ SecondSource(p) \in Sources
  BY DEF FirstSource, SecondSource, Sources
<1>3. Values(SourcesOf(p)) = {FirstSource(p), SecondSource(p)}
  <2> DEFINE a == FirstSource(p)
             b == SecondSource(p)
             s == <<a, b>>
  <2> HIDE DEF a, b
  <2>1. DOMAIN s = {1, 2} /\ s[1] = a /\ s[2] = b
    OBVIOUS
  <2>2. SourcesOf(p) = s
    BY <1>1 DEF a, b
  <2> HIDE DEF s
  <2>3. Values(s) = {a, b}
    BY <2>1 DEF Values, Range
  <2> QED BY <2>2, <2>3 DEF a, b
<1> QED BY <1>1, <1>2, <1>3

\* Where a source comes among two.
LEMMA PlaceOf ==
  ASSUME NEW a, NEW b, a # b
  PROVE  /\ (CHOOSE n \in DOMAIN <<a, b>> : <<a, b>>[n] = a) = 1
         /\ (CHOOSE n \in DOMAIN <<a, b>> : <<a, b>>[n] = b) = 2
<1> DEFINE s == <<a, b>>
<1>1. DOMAIN s = {1, 2} /\ s[1] = a /\ s[2] = b
  OBVIOUS
<1> HIDE DEF s
<1>2. \A n \in DOMAIN s : (s[n] = a <=> n = 1) /\ (s[n] = b <=> n = 2)
  BY <1>1
<1>3. (CHOOSE n \in DOMAIN s : s[n] = a) = 1
  BY <1>1, <1>2
<1>4. (CHOOSE n \in DOMAIN s : s[n] = b) = 2
  BY <1>1, <1>2
<1> QED BY <1>3, <1>4 DEF s

LEMMA ToldIsExcused ==
  ASSUME NEW d, NEW p, NEW source, Told(Torn, d, p, source)
  PROVE  LicenseAt(p, source) = None \/ IsExcused(d, p, source)
BY DEF Told, Torn, IsExcused, IsTorn, Cached

LEMMA MetadataIs ==
  LookupInv /\ LocksAreSound => MetadataIsOwn
<1> SUFFICES ASSUME LookupInv, LocksAreSound, phase = "enriched"
             PROVE  MetadataIsOwn
  BY Zenon DEF MetadataIsOwn
<1> DEFINE IsFirst(d, p, source) ==
             LET at == CHOOSE n \in DOMAIN SourcesOf(p) : SourcesOf(p)[n] = source
             IN  \A n \in 1..(at - 1) :
                   LicenseAt(p, SourcesOf(p)[n]) = None \/ IsExcused(d, p, SourcesOf(p)[n])
           Own(i, p) ==
             LET q == InLock(i, p)
             IN  /\ p.licenseFrom = None => p.license = q.license
                 /\ p.licenseFrom # None =>
                      /\ LookedUpFor(i, p).license = None
                      /\ p.licenseFrom \in Values(SourcesOf(p))
                      /\ p.license = LicenseAt(p, p.licenseFrom)
                      /\ IsFirst(documents[i], p, p.licenseFrom)
                 /\ (p.files # {}) = (p.filesFrom # None)
                 /\ p.yanked => Source(p).index.yanked
                 /\ <<p.deps, p.purl, p.hash>> = <<q.deps, q.purl, q.hash>>
<1>1. ASSUME NEW i \in DOMAIN documents, NEW p \in documents[i].packages
      PROVE  Own(i, p)
  <2> DEFINE q == InLock(i, p)
             f == LookedUpFor(i, p)
             d == documents[i]
  <2>1. IsTold(Torn, q, f, p, d)
    BY DoneIs
  <2> HIDE DEF q, f, d
  <2>2. IsFirst(d, p, FirstSource(p))
    <3>1. (CHOOSE n \in DOMAIN SourcesOf(p) : SourcesOf(p)[n] = FirstSource(p)) = 1
      BY TwoSources, PlaceOf
    <3>2. 1..(1 - 1) = {}
      OBVIOUS
    <3> QED BY <3>1, <3>2
  <2>3. ASSUME Told(Torn, d, p, FirstSource(p))
        PROVE  IsFirst(d, p, SecondSource(p))
    <3>1. (CHOOSE n \in DOMAIN SourcesOf(p) : SourcesOf(p)[n] = SecondSource(p)) = 2
      BY TwoSources, PlaceOf
    <3>2. 1..(2 - 1) = {1} /\ SourcesOf(p)[1] = FirstSource(p)
      BY TwoSources
    <3>3. LicenseAt(p, FirstSource(p)) = None \/ IsExcused(d, p, FirstSource(p))
      BY <2>3, ToldIsExcused
    <3> QED BY <3>1, <3>2, <3>3
  <2> HIDE DEF IsFirst
  <2>4. ASSUME p.licenseFrom # None
        PROVE  /\ f.license = None
               /\ p.licenseFrom \in Values(SourcesOf(p))
               /\ p.license = LicenseAt(p, p.licenseFrom)
               /\ IsFirst(d, p, p.licenseFrom)
    <3>1. /\ f.license = None /\ p.license = LicenseAt(p, p.licenseFrom)
          /\ \/ p.licenseFrom = FirstSource(p)
             \/ p.licenseFrom = SecondSource(p) /\ Told(Torn, d, p, FirstSource(p))
      BY <2>1, <2>4 DEF IsTold
    <3>2. p.licenseFrom \in Values(SourcesOf(p))
      BY <3>1, TwoSources
    <3> QED BY <2>2, <2>3, <3>1, <3>2
  <2>5. p.licenseFrom = None => p.license = q.license
    BY <2>1 DEF IsTold
  <2>6. (p.files # {}) = (p.filesFrom # None) /\ (p.yanked => Source(p).index.yanked)
    BY <2>1 DEF IsTold
  <2>7. p.deps = q.deps /\ p.purl = q.purl /\ p.hash = q.hash
    BY <2>1 DEF IsTold, IsSame
  <2> QED BY <2>4, <2>5, <2>6, <2>7 DEF q, f, d
<1> HIDE DEF Own
<1>2. \A i \in DOMAIN documents : \A p \in documents[i].packages : Own(i, p)
  BY <1>1
<1> QED BY <1>2, Zenon DEF MetadataIsOwn, Own, IsFirst

LEMMA LacksAre ==
  LookupInv /\ LocksAreSound => EveryLackIsSaid
<1> SUFFICES ASSUME LookupInv, LocksAreSound, phase = "enriched",
                    NEW i \in DOMAIN documents, NEW p \in documents[i].packages
             PROVE  /\ (p.licenseFrom = None /\ LookedUpFor(i, p).license = None) =>
                         \A source \in Values(SourcesOf(p)) :
                           LicenseAt(p, source) # None => IsExcused(documents[i], p, source)
                    /\ (FromIndex(p) /\ Source(p).index # None /\ Source(p).index.yanked /\ ~ p.yanked) =>
                         IsExcused(documents[i], p, "pypi")
  BY Zenon DEF EveryLackIsSaid
<1> DEFINE f == LookedUpFor(i, p)
<1>1. IsTold(Torn, InLock(i, p), f, p, documents[i])
  BY DoneIs
<1> HIDE DEF f
<1>2. ASSUME p.licenseFrom = None, f.license = None, NEW source \in Values(SourcesOf(p))
      PROVE  LicenseAt(p, source) # None => IsExcused(documents[i], p, source)
  <2>1. source \in {FirstSource(p), SecondSource(p)}
    BY <1>2, TwoSources
  <2>2. Told(Torn, documents[i], p, source)
    BY <1>1, <1>2, <2>1 DEF IsTold
  <2> QED BY <2>2, ToldIsExcused
<1>3. ASSUME FromIndex(p), Source(p).index # None, Source(p).index.yanked, ~ p.yanked
      PROVE  IsExcused(documents[i], p, "pypi")
  <2>1. IsNoted(documents[i], "pypi") \/ p.id \in Torn
    BY <1>1, <1>3 DEF IsTold, YankedIsSaid
  <2> QED BY <2>1 DEF Torn, IsExcused, IsTorn, Cached
<1> QED BY <1>2, <1>3 DEF f

\* For whatever locks, also those that say different things of a package: what is
\* looked up of it is put down to the source that has it, the first that could be read
\* or read a whole file of, and nothing else of it is touched (batch.rs:67).
THEOREM MetadataHolds ==
  ScanSpec /\ []GraphsAreFinite /\ []LocksAreSound => []MetadataIsOwn
BY LookupInvHolds, MetadataIs, PTL

\* For whatever locks: what could have been learned of a package that the lock the
\* lookup went by says nothing of, and was not, each document says, unless the file
\* of the release was torn (main.rs:2406, batch.rs:147).
THEOREM LacksHold ==
  ScanSpec /\ []GraphsAreFinite /\ []LocksAreSound => []EveryLackIsSaid
BY LookupInvHolds, LacksAre, PTL

-----------------------------------------------------------------------------
(* What is explained. *)

\* An explanation shows what is listed.
NamesIn(fact) == IF fact.considered = {} THEN fact.value ELSE {}

LEMMA NamesShown ==
  ASSUME NEW names
  PROVE  NamesIn(ShownAll(names)) = names
BY DEF NamesIn, ShownAll, UnknownFact, KnownFact

LEMMA ExplainableIs ==
  ASSUME NEW p, HasFields(p)
  PROVE  /\ HasFields(Explainable(p)) /\ IsSame(p, Explainable(p))
         /\ Explainable(p).license = p.license /\ Explainable(p).licenseFrom = p.licenseFrom
         /\ Explainable(p).yanked = p.yanked
<1> DEFINE more == [channel |-> None, purlsFromLock |-> FALSE, supplier |-> None, cpe |-> None,
                    interpreter |-> FALSE, scorecard |-> None, location |-> None, md5 |-> None,
                    requested |-> FALSE, evidence |-> None, mappedBy |-> None, cranBy |-> None,
                    distInfo |-> None, requiresPython |-> None, embeddedFrom |-> None, cargoSource |-> None,
                    reason |-> None, scoredOn |-> None, others |-> <<>>]
<1>1. Explainable(p) = p ++ more
  BY DEF Explainable
<1> HIDE DEF more
<1>2. DOMAIN p \subseteq DOMAIN Explainable(p) /\ \A x \in DOMAIN p : Explainable(p)[x] = p[x]
  <2>1. DOMAIN p \subseteq DOMAIN (p ++ more) /\ \A x \in DOMAIN p : (p ++ more)[x] = p[x]
    BY DEF ++
  <2> QED BY <1>1, <2>1
<1> QED BY <1>2 DEF HasFields, IsSame, Stated, LookedUp

\* The rows of a license, of what was yanked, and of the edges.
LEMMA FactsAre ==
  ASSUME NEW p, NEW packages, NEW findings, NEW ctx
  PROVE  LET facts == FactsOf(p, packages, findings, ctx)
         IN  /\ facts["license"] = LicenseFact(p, ctx)
             /\ facts["yanked"] = YankedFact(p, ctx)
             /\ facts["dependsOn"] = ShownAll(NamesOf(packages, p.deps))
             /\ facts["neededBy"] = ShownAll(Needing(packages, p))
<1> DEFINE fixed == [identity |-> KnownFact(p.purl, "input"),
                     kind |-> KnownFact(p.kind, "input"),
                     version |-> Shown(p.version),
                     declared |-> Declaration(p, ctx),
                     obtainedFrom |-> ObtainedFrom(p),
                     location |-> Shown(p.location),
                     checksum |-> ShownAll(Checksums(p)),
                     license |-> LicenseFact(p, ctx),
                     licenseFiles |-> LicenseFilesFact(p, ctx),
                     otherPurls |-> OtherPurls(p, ctx),
                     requiresPython |-> RequiresPython(p),
                     embeddedSbom |-> EmbeddedFact(p, ctx),
                     yanked |-> YankedFact(p, ctx),
                     scorecard |-> ScorecardFact(p, ctx),
                     vulnerabilities |-> VulnerabilitiesFact(p, findings, ctx),
                     dependsOn |-> ShownAll(NamesOf(packages, p.deps)),
                     neededBy |-> ShownAll(Needing(packages, p))]
           facts == FactsOf(p, packages, findings, ctx)
<1>1. facts = fixed ++ Extras(p) ++ CpeFact(p) ++ RepositoryFact(p, ctx) ++ OtherProperties(p)
  BY DEF FactsOf
<1>2. /\ {"license", "yanked", "dependsOn", "neededBy"} \subseteq DOMAIN fixed
      /\ fixed["license"] = LicenseFact(p, ctx)
      /\ fixed["yanked"] = YankedFact(p, ctx)
      /\ fixed["dependsOn"] = ShownAll(NamesOf(packages, p.deps))
      /\ fixed["neededBy"] = ShownAll(Needing(packages, p))
  OBVIOUS
<1> HIDE DEF fixed, facts
<1>3. \A x \in DOMAIN fixed : facts[x] = fixed[x]
  <2>1. \A a, b : \A x \in DOMAIN a : x \in DOMAIN (a ++ b) /\ (a ++ b)[x] = a[x]
    BY DEF ++
  <2> QED BY <1>1, <2>1
<1> QED BY <1>2, <1>3 DEF facts

LEMMA RowsAre ==
  ASSUME NEW packages, NEW findings, NEW ctx, NEW patterns, \A p \in packages : p.name \in patterns
  PROVE  LET rows == Explain(packages, findings, patterns, ctx).rows
         IN  \/ DOMAIN rows = {}
             \/ rows = [p \in packages |-> FactsOf(p, packages, findings, ctx)]
<1> DEFINE matched == {p \in packages : p.name \in patterns}
           rows == [p \in matched |-> FactsOf(p, packages, findings, ctx)]
           e == Explain(packages, findings, patterns, ctx)
<1>1. e.rows = <<>> \/ e.rows = rows
  BY DEF Explain
<1>2. rows = [p \in packages |-> FactsOf(p, packages, findings, ctx)]
  <2>1. matched = packages
    OBVIOUS
  <2> QED BY <2>1
<1>3. DOMAIN <<>> = {}
  OBVIOUS
<1> HIDE DEF e, rows
<1>4. DOMAIN e.rows = {} \/ e.rows = [p \in packages |-> FactsOf(p, packages, findings, ctx)]
  BY <1>1, <1>2, <1>3
<1> QED BY <1>4 DEF e

\* A license that is shown is from whoever is said to have it, and who may not have
\* been read is not said to have none.
LEMMA LicenseFactIs ==
  ASSUME NEW p, NEW ctx, ctx.fetchLicenses
  PROVE  /\ p.license # None =>
              /\ LicenseFact(p, ctx).value = p.license
              /\ LicenseFact(p, ctx).source
                   = SourceOrInput(IF p.licenseFrom = None THEN "lockfile" ELSE p.licenseFrom)
         /\ p.license = None =>
              /\ LicenseFact(p, ctx).value = None
              /\ \A c \in LicenseFact(p, ctx).considered :
                   c.says \in {"nothing", "nothing cached"} => c.source \in {FirstSource(p), SecondSource(p)}
<1> DEFINE supplied == IF p.licenseFrom = None /\ p.license # None THEN "lockfile" ELSE p.licenseFrom
           considered == LicenseSources(p, ctx, supplied)
<1>1. ASSUME NEW c \in considered, c.says \in {"nothing", "nothing cached"}
      PROVE  c.source \in {FirstSource(p), SecondSource(p)}
  <2> DEFINE Unread(network) == CASE ~ ctx.fetchLicenses -> "not read"
                                  [] ctx.fetchLicenses /\ ctx.offline /\ network -> "nothing cached"
                                  [] OTHER -> "nothing"
             conda == p.kind \in {"conda", "conda-source"}
             local == Unread(FALSE)
             remote == Unread(TRUE)
             all == {Claim("lockfile", "declares none"),
                     Claim("package-cache", IF conda THEN local ELSE "conda only")}
                      \cup (IF conda THEN {Claim("conda-archive", remote)} ELSE {})
                      \cup (IF p.kind = "pypi" THEN {Claim("wheel", remote), Claim("pypi", remote)}
                            ELSE {Claim("pypi", "not PyPI")})
  <2>1. c \in all
    BY DEF LicenseSources
  <2> HIDE DEF local, remote
  <2>2. \/ c = Claim("lockfile", "declares none")
        \/ conda /\ c \in {Claim("package-cache", local), Claim("conda-archive", remote)}
        \/ c = Claim("package-cache", "conda only")
        \/ p.kind = "pypi" /\ c \in {Claim("wheel", remote), Claim("pypi", remote)}
        \/ c = Claim("pypi", "not PyPI")
    BY <2>1
  <2>3. \A source, says : Claim(source, says).source = source /\ Claim(source, says).says = says
    BY DEF Claim
  <2> HIDE DEF conda
  <2>4. c \in {Claim("lockfile", "declares none"), Claim("package-cache", "conda only"), Claim("pypi", "not PyPI")}
          => c.says \in {"declares none", "conda only", "not PyPI"}
    <3>1. /\ Claim("lockfile", "declares none").says = "declares none"
          /\ Claim("package-cache", "conda only").says = "conda only"
          /\ Claim("pypi", "not PyPI").says = "not PyPI"
      BY DEF Claim
    <3> QED BY <3>1
  <2>5. c \in {Claim("package-cache", local), Claim("conda-archive", remote)}
          => c.source \in {"package-cache", "conda-archive"}
    BY <2>3
  <2>6. c \in {Claim("wheel", remote), Claim("pypi", remote)} => c.source \in {"wheel", "pypi"}
    BY <2>3
  <2>7. \/ c.says \in {"declares none", "conda only", "not PyPI"}
        \/ conda /\ c.source \in {"package-cache", "conda-archive"}
        \/ p.kind = "pypi" /\ c.source \in {"wheel", "pypi"}
    BY <2>2, <2>4, <2>5, <2>6
  <2> QED BY <1>1, <2>7 DEF conda, FirstSource, SecondSource
<1>2. LicenseFact(p, ctx) = IF p.license = None THEN UnknownFact(considered)
                            ELSE [KnownFact(p.license, SourceOrInput(supplied)) EXCEPT !.considered = considered]
  BY DEF LicenseFact
<1> HIDE DEF considered
<1>3. p.license # None => supplied = IF p.licenseFrom = None THEN "lockfile" ELSE p.licenseFrom
  OBVIOUS
<1> HIDE DEF supplied
<1>4. p.license # None => /\ LicenseFact(p, ctx).value = p.license
                          /\ LicenseFact(p, ctx).source = SourceOrInput(supplied)
  BY <1>2 DEF KnownFact
<1>5. p.license = None => LicenseFact(p, ctx).value = None /\ LicenseFact(p, ctx).considered = considered
  BY <1>2 DEF UnknownFact
<1> QED BY <1>1, <1>3, <1>4, <1>5

LEMMA YankedFactIs ==
  ASSUME NEW p, NEW ctx, p.yanked
  PROVE  YankedFact(p, ctx).value.yanked
<1>1. YankedFact(p, ctx) = KnownFact([yanked |-> TRUE, reason |-> p.reason], "pypi")
  BY DEF YankedFact
<1> QED BY <1>1 DEF KnownFact

\* Packages that are the same are the same in all locks.
LEMMA TwinsAre ==
  ASSUME NEW o, NEW p, IsSame(o, p)
  PROVE  /\ \A i : InLock(i, p) = InLock(i, o) /\ LookedUpFor(i, p) = LookedUpFor(i, o)
         /\ \A d, source : IsExcused(d, p, source) <=> IsExcused(d, o, source)
<1>1. p.id = o.id
  BY DEF IsSame
<1>2. \A i : InLock(i, p) = InLock(i, o)
  BY <1>1 DEF InLock
<1>3. \A i : LookedUpFor(i, p) = LookedUpFor(i, o)
  BY <1>1 DEF LookedUpFor, InLock
<1>4. \A d, source : IsExcused(d, p, source) <=> IsExcused(d, o, source)
  BY <1>1 DEF IsExcused, IsTorn
<1> QED BY <1>2, <1>3, <1>4

LEMMA ExplanationIs ==
  LookupInv /\ LocksAreSound => ExplainIsTrue
<1> SUFFICES ASSUME LookupInv, LocksAreSound, phase = "enriched"
             PROVE  ExplainIsTrue
  BY Zenon DEF ExplainIsTrue
<1> DEFINE Ctx == [manifest |-> FALSE, fetchLicenses |-> TRUE, embeddedSboms |-> options.embeddedSboms,
                   scorecard |-> FALSE, vulnerabilities |-> FALSE, pypiMapping |-> FALSE,
                   offline |-> options.offline]
           Packages(d) == {Explainable(p) : p \in d.packages}
           Of(d) == Explain(Packages(d), {}, {p.name : p \in Packages(d)}, Ctx)
           LicenseIsTrue(i, p, fact) ==
             IF fact.value # None
             THEN IF fact.source = "input" THEN InLock(i, p).license = fact.value
                  ELSE LicenseAt(p, fact.source) = fact.value
             ELSE LookedUpFor(i, p).license = None =>
                    \A c \in fact.considered :
                      (c.says \in {"nothing", "nothing cached"}) =>
                        LicenseAt(p, c.source) = None \/ IsExcused(documents[i], p, c.source)
           YankedIsTrue(i, p, fact) ==
             (fact.value # None /\ ~ fact.value.yanked /\ FromIndex(p) /\ Source(p).index # None) =>
               ~ Source(p).index.yanked \/ IsExcused(documents[i], p, "pypi")
           IsReturned(rows, p, said, answer) ==
             \A name \in NamesIn(rows[p][said]) :
               \E q \in DOMAIN rows : q.name = name /\ p.name \in NamesIn(rows[q][answer])
<1>1. Ctx.fetchLicenses
  OBVIOUS
<1> HIDE DEF Ctx
<1>2. ASSUME NEW i \in DOMAIN documents, NEW o \in documents[i].packages
      PROVE  LET p == Explainable(o)
             IN  /\ LicenseIsTrue(i, p, LicenseFact(p, Ctx))
                 /\ YankedIsTrue(i, p, YankedFact(p, Ctx))
  <2> DEFINE p == Explainable(o)
             q == InLock(i, o)
             f == LookedUpFor(i, o)
             fact == LicenseFact(p, Ctx)
             yanked == YankedFact(p, Ctx)
  <2>1. IsTold(Torn, q, f, o, documents[i]) /\ HasFields(o)
    BY DoneIs DEF IsTold, HasFields
  <2>2. IsSame(o, p) /\ p.license = o.license /\ p.licenseFrom = o.licenseFrom /\ p.yanked = o.yanked
    BY <2>1, ExplainableIs
  <2> HIDE DEF p
  <2>3. /\ FirstSource(p) = FirstSource(o) /\ SecondSource(p) = SecondSource(o)
        /\ \A source : LicenseAt(p, source) = LicenseAt(o, source)
        /\ Source(p) = Source(o) /\ FromIndex(p) = FromIndex(o)
    BY <2>2, SameIs
  <2>4. /\ InLock(i, p) = q /\ LookedUpFor(i, p) = f
        /\ \A source : IsExcused(documents[i], p, source) <=> IsExcused(documents[i], o, source)
    BY <2>2, TwinsAre
  <2>5. YankedIsTrue(i, p, yanked)
    <3> SUFFICES ASSUME ~ yanked.value.yanked, FromIndex(p), Source(p).index # None, Source(p).index.yanked
                 PROVE  IsExcused(documents[i], p, "pypi")
      OBVIOUS
    <3>1. ~ p.yanked
      BY YankedFactIs
    <3>2. FromIndex(o) /\ Source(o).index # None /\ Source(o).index.yanked /\ ~ o.yanked
      BY <2>2, <2>3, <3>1
    <3>3. IsNoted(documents[i], "pypi") \/ o.id \in Torn
      BY <2>1, <3>2 DEF IsTold, YankedIsSaid
    <3>4. IsExcused(documents[i], o, "pypi")
      BY <3>3 DEF Torn, IsExcused, IsTorn, Cached
    <3> QED BY <2>4, <3>4
  <2>6. LicenseIsTrue(i, p, fact)
    <3> HIDE DEF q, f
    <3>1. CASE p.license # None
      <4>1. /\ fact.value = p.license
            /\ fact.source = SourceOrInput(IF p.licenseFrom = None THEN "lockfile" ELSE p.licenseFrom)
        BY <1>1, <3>1, LicenseFactIs
      <4> HIDE DEF fact
      <4>2. CASE p.licenseFrom = None
        <5>1. p.license = q.license
          BY <2>1, <2>2, <4>2 DEF IsTold
        <5>2. fact.source = "input"
          BY <4>1, <4>2 DEF SourceOrInput
        <5> QED BY <2>4, <3>1, <4>1, <5>1, <5>2
      <4>3. CASE p.licenseFrom # None
        <5>1. FirstSource(p) \in Sources /\ SecondSource(p) \in Sources
          BY TwoSources
        <5>2. p.licenseFrom \in Sources /\ p.license = LicenseAt(p, p.licenseFrom)
          BY <2>1, <2>2, <2>3, <4>3, <5>1 DEF IsTold
        <5>3. fact.source = p.licenseFrom /\ fact.source # "input"
          BY <4>1, <5>2, SourcesAssumption DEF SourceOrInput, Sources
        <5> QED BY <3>1, <4>1, <5>2, <5>3
      <4> QED BY <4>2, <4>3
    <3>2. CASE p.license = None
      <4>1. /\ fact.value = None
            /\ \A c \in fact.considered :
                 c.says \in {"nothing", "nothing cached"} => c.source \in {FirstSource(p), SecondSource(p)}
        BY <1>1, <3>2, LicenseFactIs
      <4> HIDE DEF fact
      <4>2. ASSUME f.license = None, NEW source \in {FirstSource(p), SecondSource(p)}
            PROVE  LicenseAt(p, source) = None \/ IsExcused(documents[i], p, source)
        <5>1. o.licenseFrom = None
          BY <2>1, <2>2, <3>2 DEF IsTold
        <5>2. Told(Torn, documents[i], o, source)
          BY <2>1, <2>3, <4>2, <5>1 DEF IsTold
        <5>3. LicenseAt(o, source) = None \/ IsExcused(documents[i], o, source)
          BY <5>2, ToldIsExcused
        <5> QED BY <2>3, <2>4, <5>3
      <4> QED BY <2>4, <4>1, <4>2
    <3> QED BY <3>1, <3>2
  <2> HIDE DEF LicenseIsTrue, YankedIsTrue
  <2> QED BY <2>5, <2>6 DEF p
<1>3. ASSUME NEW i \in DOMAIN documents
      PROVE  LET rows == Of(documents[i]).rows
             IN  \A p \in DOMAIN rows :
                   /\ LicenseIsTrue(i, p, rows[p]["license"])
                   /\ YankedIsTrue(i, p, rows[p]["yanked"])
                   /\ IsReturned(rows, p, "dependsOn", "neededBy")
                   /\ IsReturned(rows, p, "neededBy", "dependsOn")
  <2> DEFINE packages == Packages(documents[i])
             rows == Of(documents[i]).rows
  <2>1. DOMAIN rows = {} \/ rows = [p \in packages |-> FactsOf(p, packages, {}, Ctx)]
    <3> DEFINE patterns == {p.name : p \in packages}
    <3>1. rows = Explain(packages, {}, patterns, Ctx).rows /\ \A p \in packages : p.name \in patterns
      OBVIOUS
    <3> HIDE DEF packages, rows, patterns
    <3>2. LET shown == Explain(packages, {}, patterns, Ctx).rows
          IN  DOMAIN shown = {} \/ shown = [p \in packages |-> FactsOf(p, packages, {}, Ctx)]
      BY <3>1, RowsAre
    <3> QED BY <3>1, <3>2
  <2>2. \A p \in packages : \E o \in documents[i].packages : p = Explainable(o)
    OBVIOUS
  <2> HIDE DEF packages, rows
  <2> SUFFICES ASSUME DOMAIN rows # {}
               PROVE  \A p \in DOMAIN rows :
                        /\ LicenseIsTrue(i, p, rows[p]["license"])
                        /\ YankedIsTrue(i, p, rows[p]["yanked"])
                        /\ IsReturned(rows, p, "dependsOn", "neededBy")
                        /\ IsReturned(rows, p, "neededBy", "dependsOn")
    BY Zenon DEF rows
  <2>3. DOMAIN rows = packages /\ \A p \in packages : rows[p] = FactsOf(p, packages, {}, Ctx)
    BY <2>1
  <2>4. ASSUME NEW p \in packages
        PROVE  /\ rows[p]["license"] = LicenseFact(p, Ctx)
               /\ rows[p]["yanked"] = YankedFact(p, Ctx)
               /\ NamesIn(rows[p]["dependsOn"]) = NamesOf(packages, p.deps)
               /\ NamesIn(rows[p]["neededBy"]) = Needing(packages, p)
    BY <2>3, FactsAre, NamesShown
  <2>5. ASSUME NEW p \in packages
        PROVE  /\ LicenseIsTrue(i, p, rows[p]["license"])
               /\ YankedIsTrue(i, p, rows[p]["yanked"])
    <3>1. PICK o \in documents[i].packages : p = Explainable(o)
      BY <2>2
    <3> HIDE DEF LicenseIsTrue, YankedIsTrue
    <3> QED BY <1>2, <2>4, <3>1
  <2>6. ASSUME NEW p \in packages
        PROVE  IsReturned(rows, p, "dependsOn", "neededBy") /\ IsReturned(rows, p, "neededBy", "dependsOn")
    <3>1. ASSUME NEW name \in NamesOf(packages, p.deps)
          PROVE  \E q \in packages : q.name = name /\ p.name \in Needing(packages, q)
      <4>1. PICK q \in packages : q.id \in p.deps /\ q.name = name
        BY DEF NamesOf
      <4>2. p.name \in Needing(packages, q)
        BY <4>1 DEF Needing
      <4> QED BY <4>1, <4>2
    <3>2. ASSUME NEW name \in Needing(packages, p)
          PROVE  \E q \in packages : q.name = name /\ p.name \in NamesOf(packages, q.deps)
      <4>1. PICK q \in packages : p.id \in q.deps /\ q.name = name
        BY DEF Needing
      <4>2. p.name \in NamesOf(packages, q.deps)
        BY <4>1 DEF NamesOf
      <4> QED BY <4>1, <4>2
    <3> QED BY <2>3, <2>4, <3>1, <3>2
  <2> HIDE DEF LicenseIsTrue, YankedIsTrue, IsReturned
  <2> QED BY <2>3, <2>5, <2>6
<1> HIDE DEF Of
<1>4. \A i \in DOMAIN documents :
        LET rows == Of(documents[i]).rows
        IN  \A p \in DOMAIN rows :
              /\ LicenseIsTrue(i, p, rows[p]["license"])
              /\ YankedIsTrue(i, p, rows[p]["yanked"])
              /\ IsReturned(rows, p, "dependsOn", "neededBy")
              /\ IsReturned(rows, p, "neededBy", "dependsOn")
  BY <1>3, Zenon
<1> QED BY <1>4, Zenon DEF ExplainIsTrue, Of, Ctx, NamesIn

\* What the explanation of a package says of its license, of a release that was yanked,
\* and of what needs what is true, whichever sources could be read and whatever the
\* locks say, but of a source that a torn file stood for, or that was not asked as the
\* lock the lookup went by states a license (explain.rs:240).
THEOREM ExplanationHolds ==
  ScanSpec /\ []GraphsAreFinite /\ []LocksAreSound => []ExplainIsTrue
BY LookupInvHolds, ExplanationIs, PTL

-----------------------------------------------------------------------------
(* What has changed. *)

\* A comparison is the last step of a run, and what it was of stays as it was.
CompareInv ==
  changes # None =>
    /\ stage = "done"
    /\ changes = Compare(sbom, PypiOnly, earlier.entries, earlier.pypiOnly)

LEMMA CompareInvKept == CompareInv /\ [Next]_vars => CompareInv'
<1> SUFFICES ASSUME CompareInv, [Next]_vars
             PROVE  CompareInv'
  OBVIOUS
<1>1. CASE CompareWithEarlier
  <2>1. /\ changes' = Compare(sbom, PypiOnly, earlier.entries, earlier.pypiOnly)
        /\ stage' = "done" /\ sbom' = sbom /\ earlier' = earlier /\ input' = input
    BY <1>1 DEF CompareWithEarlier
  <2>2. PypiOnly' = PypiOnly
    BY <2>1 DEF PypiOnly
  <2> QED BY <2>1, <2>2 DEF CompareInv
<1>2. CASE UNCHANGED vars
  BY <1>2 DEF vars, CompareInv, PypiOnly
<1>3. CASE \/ ReadAtOnce \/ StartUv \/ VisitUv \/ EndUv
           \/ StartRequirements \/ ReadRequirement \/ EndRequirements
  <2>1. stage # "done" /\ changes' = changes
    BY <1>3 DEF ReadAtOnce, StartUv, VisitUv, EndUv, StartRequirements, ReadRequirement, EndRequirements
  <2> QED BY <2>1 DEF CompareInv
<1>4. CASE \/ \E f \in Filters : Filter(f)
           \/ \E format \in OutputFormats : WriteDocument(format)
           \/ \E i \in Later : AgainstLock(i) \/ AgainstDocument(i)
           \/ \E first \in BOOLEAN : MergeWithEarlier(first)
  <2>1. stage # "done" /\ changes' = changes
    BY <1>4 DEF Filter, WriteDocument, AgainstLock, AgainstDocument, SecondRun, MergeWithEarlier
  <2> QED BY <2>1 DEF CompareInv
<1> QED BY <1>1, <1>2, <1>3, <1>4 DEF Next

\* One side of a comparison has a key if it has an entry of it, and of a key of which
\* it has no other, that entry.
LEMMA LatestIs ==
  ASSUME NEW entries
  PROVE  /\ DOMAIN Latest(entries) = {EntryKey(e) : e \in entries}
         /\ \A e \in entries :
              (\A f \in entries : EntryKey(f) = EntryKey(e) => f = e) => Latest(entries)[EntryKey(e)] = e
<1>1. DOMAIN Latest(entries) = {EntryKey(e) : e \in entries}
  BY DEF Latest
<1>2. ASSUME NEW e \in entries, \A f \in entries : EntryKey(f) = EntryKey(e) => f = e
      PROVE  Latest(entries)[EntryKey(e)] = e
  <2> DEFINE OfKey(k) == {f \in entries : EntryKey(f) = k}
             NotBefore(g, f) == f.version = None \/ (g.version # None /\ f.version <= g.version)
  <2>1. Latest(entries)[EntryKey(e)]
          = CHOOSE g \in OfKey(EntryKey(e)) : \A f \in OfKey(EntryKey(e)) \ {g} : NotBefore(g, f)
    BY DEF Latest
  <2>2. OfKey(EntryKey(e)) = {e}
    BY <1>2
  <2> HIDE DEF OfKey, NotBefore
  <2>3. \E g \in OfKey(EntryKey(e)) : \A f \in OfKey(EntryKey(e)) \ {g} : NotBefore(g, f)
    BY <2>2
  <2>4. Latest(entries)[EntryKey(e)] \in OfKey(EntryKey(e))
    BY <2>1, <2>3
  <2> QED BY <2>2, <2>4
<1> QED BY <1>1, <1>2

\* So has it once what only the other side could not know of is left out.
LEMMA SideIs ==
  ASSUME NEW entries, NEW pypiOnly, NEW previousPypiOnly, NEW e,
         e.type # "conda" \/ pypiOnly = previousPypiOnly,
         \A f, g \in entries : EntryKey(f) = EntryKey(e) /\ EntryKey(g) = EntryKey(e) => f = g
  PROVE  LET side == OfBothKinds(Latest(entries), pypiOnly, previousPypiOnly)
         IN  /\ EntryKey(e) \in DOMAIN side <=> \E f \in entries : EntryKey(f) = EntryKey(e)
             /\ \A f \in entries : EntryKey(f) = EntryKey(e) => side[EntryKey(e)] = f
<1> DEFINE latest == Latest(entries)
           side == OfBothKinds(latest, pypiOnly, previousPypiOnly)
           k == EntryKey(e)
<1>1. k \in DOMAIN latest <=> \E f \in entries : EntryKey(f) = k
  <2>1. DOMAIN latest = {EntryKey(f) : f \in entries}
    BY LatestIs
  <2> HIDE DEF latest, k
  <2> QED BY <2>1
<1>2. ASSUME NEW f \in entries, EntryKey(f) = k
      PROVE  latest[k] = f
  BY <1>2, LatestIs
<1> HIDE DEF latest
<1>3. k[1] = e.type
  BY DEF EntryKey
<1>4. (k \in DOMAIN side <=> k \in DOMAIN latest) /\ (k \in DOMAIN side => side[k] = latest[k])
  <2>1. CASE pypiOnly = previousPypiOnly
    BY <2>1 DEF OfBothKinds
  <2>2. CASE pypiOnly # previousPypiOnly
    <3>1. k[1] # "conda"
      BY <1>3, <2>2
    <3>2. side = [x \in {y \in DOMAIN latest : y[1] # "conda"} |-> latest[x]]
      BY <2>2 DEF OfBothKinds, Restrict
    <3> HIDE DEF side, k
    <3> QED BY <3>1, <3>2
  <2> QED BY <2>1, <2>2
<1> HIDE DEF side, k
<1>5. \A f \in entries : EntryKey(f) = k => side[k] = f
  BY <1>1, <1>2, <1>4
<1>6. k \in DOMAIN side <=> \E f \in entries : EntryKey(f) = k
  BY <1>1, <1>4
<1> QED BY <1>5, <1>6 DEF side, k, latest

Sections == {"added", "pip", "removed", "version", "build", "license"}

\* What a comparison says of a key that a side has at most once: the first of its
\* sections that fits, where it is on one side or differs on the two.
LEMMA ComparisonIs ==
  ASSUME NEW s, NEW pypiOnly, NEW previous, NEW previousPypiOnly, NEW k
  PROVE  LET c == Compare(s, pypiOnly, previous, previousPypiOnly)
             old == OfBothKinds(Latest(previous), pypiOnly, previousPypiOnly)
             new == OfBothKinds(Latest(Entries(s)), pypiOnly, previousPypiOnly)
             told == {t \in DiffHits(c, {"any"}) : k \in c[t]}
             a == new[k]
             b == old[k]
             known == a.build # None /\ b.build # None
         IN  /\ (k \in DOMAIN new /\ k \notin DOMAIN old) => told = {IF a.pip THEN "pip" ELSE "added"}
             /\ (k \notin DOMAIN new /\ k \in DOMAIN old) => told = {"removed"}
             /\ (k \in DOMAIN new /\ k \in DOMAIN old) =>
                  /\ a.version # b.version => told = {"version"}
                  /\ (a.version = b.version /\ known /\ a.build # b.build) => told = {"build"}
                  /\ (a.version = b.version /\ ~ (known /\ a.build # b.build)) => told \subseteq {"license"}
<1> DEFINE c == Compare(s, pypiOnly, previous, previousPypiOnly)
           old == OfBothKinds(Latest(previous), pypiOnly, previousPypiOnly)
           new == OfBothKinds(Latest(Entries(s)), pypiOnly, previousPypiOnly)
           both == DOMAIN old \cap DOMAIN new
           appeared == DOMAIN new \ DOMAIN old
           version == {j \in both : old[j].version # new[j].version}
           Known(x, y) == x # None /\ y # None /\ x # y
           build == {j \in both \ version : Known(old[j].build, new[j].build)}
           license == {j \in both \ (version \cup build) : Known(old[j].license, new[j].license)}
           pip == {j \in appeared : new[j].pip}
           told == {t \in DiffHits(c, {"any"}) : k \in c[t]}
<1>1. c = [added |-> appeared \ pip, pip |-> pip, removed |-> DOMAIN old \ DOMAIN new,
           version |-> version, build |-> build, license |-> license,
           unchanged |-> both \ (version \cup build \cup license)]
  BY DEF Compare
<1> HIDE DEF c, old, new
<1>2. /\ c.added = appeared \ pip /\ c.pip = pip /\ c.removed = DOMAIN old \ DOMAIN new
      /\ c.version = version /\ c.build = build /\ c.license = license
      /\ DOMAIN c = Sections \cup {"unchanged"}
  BY <1>1 DEF Sections
<1>3. told = {t \in Sections : k \in c[t]}
  BY <1>2 DEF DiffHits, Sections
<1> HIDE DEF told
<1>4. /\ k \in c.added <=> k \in appeared /\ ~ new[k].pip
      /\ k \in c.pip <=> k \in appeared /\ new[k].pip
      /\ k \in c.removed <=> k \in DOMAIN old /\ k \notin DOMAIN new
      /\ k \in c.version <=> k \in both /\ old[k].version # new[k].version
      /\ k \in c.build <=> /\ k \in both /\ old[k].version = new[k].version
                           /\ Known(old[k].build, new[k].build)
      /\ k \in c.license => /\ k \in both /\ old[k].version = new[k].version
                            /\ ~ Known(old[k].build, new[k].build)
  BY <1>2
<1>5. (k \in DOMAIN new /\ k \notin DOMAIN old) => told = {IF new[k].pip THEN "pip" ELSE "added"}
  BY <1>3, <1>4 DEF Sections
<1>6. (k \notin DOMAIN new /\ k \in DOMAIN old) => told = {"removed"}
  BY <1>3, <1>4 DEF Sections
<1>7. ASSUME k \in DOMAIN new, k \in DOMAIN old
      PROVE  /\ new[k].version # old[k].version => told = {"version"}
             /\ new[k].version = old[k].version /\ Known(old[k].build, new[k].build) => told = {"build"}
             /\ new[k].version = old[k].version /\ ~ Known(old[k].build, new[k].build)
                  => told \subseteq {"license"}
  <2> HIDE DEF Known
  <2>1. k \in both /\ k \notin appeared
    BY <1>7
  <2> HIDE DEF both, appeared
  <2> QED BY <1>3, <1>4, <1>7, <2>1 DEF Sections
<1> QED BY <1>5, <1>6, <1>7 DEF c, old, new, told

\* What is told of a key is exactly that it differs, of one that is comparable.
LEMMA ChangesAre ==
  CompareInv => NoChangeIsMissed
<1> DEFINE now == Entries(sbom)
           before == earlier.entries
           sides == {now, before}
           SameKey(e, f) == EntryKey(e) = EntryKey(f)
           Alone(e) == \A side \in sides : \A f, g \in side : SameKey(e, f) /\ SameKey(e, g) => f = g
           Same(e, f) == /\ SameKey(e, f) /\ e.version = f.version
                         /\ e.build = f.build \/ e.build = None \/ f.build = None
           Differs(e) == \E side \in sides : \A f \in side : ~ Same(e, f)
           ToldOf(e) == {s \in DiffHits(changes, {"any"}) : EntryKey(e) \in changes[s]}
<1> SUFFICES ASSUME CompareInv, changes # None,
                    NEW e \in now \cup before, Alone(e),
                    e.type # "conda" \/ PypiOnly = earlier.pypiOnly
             PROVE  (\A s, t \in ToldOf(e) : s = t) /\ (ToldOf(e) \ {"license"} # {}) = Differs(e)
  BY Zenon DEF NoChangeIsMissed
<1> DEFINE k == EntryKey(e)
           old == OfBothKinds(Latest(before), PypiOnly, earlier.pypiOnly)
           new == OfBothKinds(Latest(now), PypiOnly, earlier.pypiOnly)
           c == Compare(sbom, PypiOnly, before, earlier.pypiOnly)
           told == {t \in DiffHits(c, {"any"}) : k \in c[t]}
<1>1. ToldOf(e) = told
  BY DEF CompareInv
<1>2. /\ k \in DOMAIN old <=> \E f \in before : EntryKey(f) = k
      /\ \A f \in before : EntryKey(f) = k => old[k] = f
  <2>1. \A f, g \in before : EntryKey(f) = EntryKey(e) /\ EntryKey(g) = EntryKey(e) => f = g
    OBVIOUS
  <2> HIDE DEF before
  <2> QED BY <2>1, SideIs
<1>3. /\ k \in DOMAIN new <=> \E f \in now : EntryKey(f) = k
      /\ \A f \in now : EntryKey(f) = k => new[k] = f
  <2>1. \A f, g \in now : EntryKey(f) = EntryKey(e) /\ EntryKey(g) = EntryKey(e) => f = g
    OBVIOUS
  <2> HIDE DEF now
  <2> QED BY <2>1, SideIs
<1>4. LET a == new[k]
          b == old[k]
          known == a.build # None /\ b.build # None
      IN  /\ (k \in DOMAIN new /\ k \notin DOMAIN old) => told = {IF a.pip THEN "pip" ELSE "added"}
          /\ (k \notin DOMAIN new /\ k \in DOMAIN old) => told = {"removed"}
          /\ (k \in DOMAIN new /\ k \in DOMAIN old) =>
               /\ a.version # b.version => told = {"version"}
               /\ (a.version = b.version /\ known /\ a.build # b.build) => told = {"build"}
               /\ (a.version = b.version /\ ~ (known /\ a.build # b.build)) => told \subseteq {"license"}
  BY ComparisonIs
<1> HIDE DEF told, old, new, ToldOf
<1>5. CASE k \in DOMAIN new /\ k \notin DOMAIN old
  <2>1. \A f \in before : ~ Same(e, f)
    BY <1>2, <1>5
  <2>2. Differs(e)
    BY <2>1
  <2> QED BY <1>1, <1>4, <1>5, <2>2
<1>6. CASE k \notin DOMAIN new /\ k \in DOMAIN old
  <2>1. \A f \in now : ~ Same(e, f)
    BY <1>3, <1>6
  <2>2. Differs(e)
    BY <2>1
  <2> QED BY <1>1, <1>4, <1>6, <2>2
<1>7. CASE k \in DOMAIN new /\ k \in DOMAIN old
  <2>1. PICK a \in now : EntryKey(a) = k
    BY <1>3, <1>7
  <2>2. PICK b \in before : EntryKey(b) = k
    BY <1>2, <1>7
  <2>3. new[k] = a /\ old[k] = b
    BY <1>2, <1>3, <2>1, <2>2
  <2>4. (\A f \in now : EntryKey(f) = k => f = a) /\ (\A f \in before : EntryKey(f) = k => f = b)
    BY <1>2, <1>3, <2>3
  <2>5. e = a \/ e = b
    BY <2>4
  <2> HIDE DEF now, before
  <2>6. Differs(e) <=> ~ Same(a, b)
    <3>1. (\A f \in now : ~ Same(e, f)) <=> ~ Same(e, a)
      BY <2>1, <2>4
    <3>2. (\A f \in before : ~ Same(e, f)) <=> ~ Same(e, b)
      BY <2>2, <2>4
    <3>3. Same(e, e) /\ (Same(b, a) <=> Same(a, b))
      OBVIOUS
    <3>4. Differs(e) <=> ~ Same(e, a) \/ ~ Same(e, b)
      BY <3>1, <3>2
    <3> HIDE DEF Same, Differs
    <3> QED BY <2>5, <3>3, <3>4
  <2>7. Same(a, b) <=> a.version = b.version /\ ~ (a.build # None /\ b.build # None /\ a.build # b.build)
    BY <2>1, <2>2
  <2>8. Differs(e) \in BOOLEAN
    OBVIOUS
  <2> HIDE DEF Same, Differs
  <2>9. /\ a.version # b.version => told = {"version"}
        /\ (a.version = b.version /\ a.build # None /\ b.build # None /\ a.build # b.build) => told = {"build"}
        /\ (a.version = b.version /\ ~ (a.build # None /\ b.build # None /\ a.build # b.build))
             => told \subseteq {"license"}
    BY <1>4, <1>7, <2>3
  <2>10. CASE Same(a, b)
    BY <1>1, <2>6, <2>7, <2>8, <2>9, <2>10
  <2>11. CASE ~ Same(a, b)
    BY <1>1, <2>6, <2>7, <2>8, <2>9, <2>11
  <2> QED BY <2>10, <2>11
<1>8. k \in DOMAIN new \/ k \in DOMAIN old
  BY <1>2, <1>3
<1> QED BY <1>5, <1>6, <1>7, <1>8

\* A comparison tells of a package that differs, and of none that does not, whatever
\* was read, filtered and written before (diff.rs:449).
THEOREM ChangesHold == ScanSpec => []NoChangeIsMissed
<1>1. ScanInit => CompareInv
  BY DEF ScanInit, Init, CompareInv
<1> QED BY <1>1, CompareInvKept, ChangesAre, ScanIsDocuments, PTL DEF ScanSpec

-----------------------------------------------------------------------------
(* What is walked. *)

\* What is reached is the least that has the roots and whatever its members lead to.
LEMMA ReachedIsLeast ==
  ASSUME NEW roots, NEW edges, IsFiniteSet(edges), NEW S, roots \subseteq S, Closed(S, edges)
  PROVE  Reached(roots, edges) \subseteq S
<1> DEFINE N == Cardinality(edges)
<1>1. N \in Nat
  BY FS_CardinalityType
<1>2. PICK g : Grows(g, roots, edges, N) /\ Reached(roots, edges) = g[N]
  BY ReachedGrows
<1> DEFINE K == {k \in Nat : k <= N => g[k] \subseteq S}
<1> HIDE DEF N
<1>3. 0 \in K
  BY <1>2 DEF Grows
<1>4. ASSUME NEW k \in Nat, k \in K PROVE k + 1 \in K
  <2> SUFFICES ASSUME k + 1 <= N PROVE g[k + 1] \subseteq S
    OBVIOUS
  <2>1. k + 1 \in 1..N /\ (k + 1) - 1 = k /\ k <= N
    BY <1>1
  <2>2. g[k + 1] = Beyond(g[k], edges)
    BY <1>2, <2>1 DEF Grows
  <2> QED BY <1>4, <2>1, <2>2 DEF Beyond, Closed
<1>5. Nat \subseteq K
  <2> HIDE DEF K
  <2> QED BY <1>3, <1>4, Induction
<1> QED BY <1>1, <1>2, <1>5

\* A sequence of a finite set has its members.
LEMMA SetToSeqIs ==
  ASSUME NEW S, IsFiniteSet(S)
  PROVE  /\ Cardinality(S) \in Nat
         /\ SetToSeq(S) \in [1..Cardinality(S) -> S]
         /\ Values(SetToSeq(S)) = S
<1> DEFINE n == Cardinality(S)
<1>1. n \in Nat /\ ExistsBijection(1..n, S)
  BY FS_CardinalityType
<1>2. PICK f : f \in Bijection(1..n, S)
  BY <1>1 DEF ExistsBijection
<1>3. f \in [1..n -> S] /\ IsInjective(f)
  BY <1>2 DEF Bijection, Injection, IsInjective
<1>4. SetToSeq(S) \in [1..n -> S] /\ IsInjective(SetToSeq(S))
  <2> HIDE DEF n
  <2>1. SetToSeq(S) = CHOOSE h \in [1..n -> S] : IsInjective(h)
    BY DEF SetToSeq, n
  <2> QED BY <1>3, <2>1
<1> HIDE DEF n
<1> DEFINE s == SetToSeq(S)
<1>5. s \in Injection(1..n, S)
  BY <1>4 DEF Injection, IsInjective
<1>6. IsFiniteSet(1..n) /\ Cardinality(1..n) = n
  BY <1>1, FS_Interval
<1> HIDE DEF s
<1>7. s \in Surjection(1..n, S)
  BY <1>5, <1>6, FS_Injection DEF n
<1>8. Values(s) = S
  BY <1>7 DEF Surjection, Values
<1> QED BY <1>1, <1>4, <1>8 DEF s, n

\* What the edges between the nodes of a lock are.
LEMMA UvNeedsAre ==
  ASSUME NEW lock, NEW platform
  PROVE  \A e : e \in UvNeeds(lock, platform) <=>
           \E i \in DOMAIN lock.packages : \E n \in UvNodes(lock, i) :
             \E f \in UvLeaving(lock, n[1], n[2]) :
               UvLeadsOn(f, lock, platform) /\ \E m \in UvTargets(f, lock) : e = <<n, m>>
BY DEF UvNeeds

LEMMA UvNeedsAreFinite ==
  ASSUME NEW lock, NEW platform, IsUvLock(lock)
  PROVE  IsFiniteSet(UvNeeds(lock, platform))
<1> DEFINE Nodes == UNION {UvNodes(lock, i) : i \in DOMAIN lock.packages}
           From(n) == {e \in UvLeaving(lock, n[1], n[2]) : UvLeadsOn(e, lock, platform)}
           To(n) == UNION {UvTargets(e, lock) : e \in From(n)}
<1>1. IsFiniteSet(DOMAIN lock.packages)
  <2>1. DOMAIN lock.packages = 1..Len(lock.packages) /\ Len(lock.packages) \in Nat
    BY DEF IsUvLock
  <2>2. \A n \in Nat : IsFiniteSet(1..n)
    BY FS_Interval
  <2> QED BY <2>1, <2>2
<1>2. ASSUME NEW i \in DOMAIN lock.packages
      PROVE  /\ IsFiniteSet(UvNodes(lock, i))
             /\ \A n \in UvNodes(lock, i) :
                  /\ n[1] = i /\ n = <<n[1], n[2]>>
                  /\ IsFiniteSet(UvLeaving(lock, n[1], n[2]))
                  /\ \A e \in UvLeaving(lock, n[1], n[2]) : IsFiniteSet(e.extras)
  <2> DEFINE p == lock.packages[i]
  <2>1. p \in Values(lock.packages)
    BY DEF Values
  <2>2. /\ IsFiniteSet(DOMAIN p.optional) /\ None \notin DOMAIN p.optional
        /\ \A edges \in {p.needs, p.dev} \cup Values(p.optional) :
             IsFiniteSet(edges) /\ \A e \in edges : IsFiniteSet(e.extras) /\ None \notin e.extras
    BY <2>1, Zenon DEF IsUvLock
  <2>3. IsFiniteSet(UvNodes(lock, i))
    <3>1. IsFiniteSet({None} \cup DOMAIN p.optional)
      BY <2>2, FS_Singleton, FS_Union
    <3> HIDE DEF p
    <3> QED BY <3>1, FS_Singleton, FS_Product DEF UvNodes, p
  <2>4. ASSUME NEW n \in UvNodes(lock, i)
        PROVE  /\ n[1] = i /\ n = <<n[1], n[2]>>
               /\ IsFiniteSet(UvLeaving(lock, n[1], n[2]))
               /\ \A e \in UvLeaving(lock, n[1], n[2]) : IsFiniteSet(e.extras)
    <3>1. n[1] = i /\ n = <<n[1], n[2]>> /\ n[2] \in {None} \cup DOMAIN p.optional
      BY DEF UvNodes
    <3> HIDE DEF p
    <3>2. UvLeaving(lock, i, n[2])
            = IF n[2] # None THEN p.optional[n[2]] ELSE p.needs \cup (IF Member(p, lock) THEN p.dev ELSE {})
      BY DEF UvLeaving, p
    <3>3. CASE n[2] # None
      <4>1. p.optional[n[2]] \in Values(p.optional)
        BY <3>1, <3>3 DEF Values
      <4> QED BY <2>2, <3>1, <3>2, <3>3, <4>1
    <3>4. CASE n[2] = None
      <4>1. IsFiniteSet(p.needs) /\ IsFiniteSet(p.dev) /\ IsFiniteSet(p.needs \cup p.dev)
        BY <2>2, FS_Union
      <4> QED BY <2>2, <3>1, <3>2, <3>4, <4>1
    <3> QED BY <3>3, <3>4
  <2> QED BY <2>3, <2>4
<1>3. IsFiniteSet(Nodes)
  <2> DEFINE f == [i \in DOMAIN lock.packages |-> UvNodes(lock, i)]
  <2>1. IsFiniteSet({f[i] : i \in DOMAIN f})
    BY <1>1, ImageIsFinite
  <2>2. {f[i] : i \in DOMAIN f} = {UvNodes(lock, i) : i \in DOMAIN lock.packages}
    OBVIOUS
  <2>3. \A T \in {UvNodes(lock, i) : i \in DOMAIN lock.packages} : IsFiniteSet(T)
    BY <1>2
  <2> HIDE DEF f
  <2> QED BY <2>1, <2>2, <2>3, FS_UNION
<1>4. ASSUME NEW n \in Nodes
      PROVE  IsFiniteSet(To(n))
  <2>1. PICK i \in DOMAIN lock.packages : n \in UvNodes(lock, i)
    OBVIOUS
  <2>2. /\ IsFiniteSet(UvLeaving(lock, n[1], n[2]))
        /\ \A e \in UvLeaving(lock, n[1], n[2]) : IsFiniteSet(e.extras)
    BY <1>2, <2>1
  <2>3. IsFiniteSet(From(n))
    BY <2>2, FS_Subset
  <2>4. ASSUME NEW e \in From(n) PROVE IsFiniteSet(UvTargets(e, lock))
    <3>1. IsFiniteSet({None} \cup e.extras)
      BY <2>2, FS_Singleton, FS_Union
    <3> QED BY <3>1, FS_Singleton, FS_Product DEF UvTargets
  <2> DEFINE f == [e \in From(n) |-> UvTargets(e, lock)]
  <2>5. DOMAIN f = From(n)
    OBVIOUS
  <2>6. IsFiniteSet({f[e] : e \in DOMAIN f})
    <3> HIDE DEF f, From
    <3> QED BY <2>3, <2>5, ImageIsFinite
  <2>7. {f[e] : e \in DOMAIN f} = {UvTargets(e, lock) : e \in From(n)}
    OBVIOUS
  <2>8. \A T \in {UvTargets(e, lock) : e \in From(n)} : IsFiniteSet(T)
    BY <2>4
  <2> HIDE DEF f, From
  <2> QED BY <2>6, <2>7, <2>8, FS_UNION
<1>5. \A n \in Nodes : IsFiniteSet({n} \X To(n))
  <2> HIDE DEF To, Nodes
  <2> QED BY <1>4, FS_Singleton, FS_Product
<1>6. IsFiniteSet({{n} \X To(n) : n \in Nodes})
  <2> DEFINE f == [n \in Nodes |-> {n} \X To(n)]
  <2> HIDE DEF To, Nodes
  <2>1. IsFiniteSet({f[n] : n \in DOMAIN f})
    BY <1>3, ImageIsFinite
  <2>2. {f[n] : n \in DOMAIN f} = {{n} \X To(n) : n \in Nodes}
    OBVIOUS
  <2> QED BY <2>1, <2>2
<1> DEFINE all == {{n} \X To(n) : n \in Nodes}
<1>7. UvNeeds(lock, platform) = UNION all
  BY DEF UvNeeds
<1>8. \A T \in all : IsFiniteSet(T)
  <2> HIDE DEF To, Nodes
  <2> QED BY <1>5
<1>9. IsFiniteSet(UNION all)
  <2>1. IsFiniteSet(all)
    BY <1>6
  <2> HIDE DEF all
  <2> QED BY <1>8, <2>1, FS_UNION
<1> HIDE DEF all
<1> QED BY <1>7, <1>9

\* What a step of the walk does to its queue.
LEMMA QueueIs ==
  ASSUME NEW s, s \in Seq(Values(s)), s # <<>>, NEW S, IsFiniteSet(S)
  PROVE  LET t == Tail(s) \o SetToSeq(S)
         IN  /\ Values(s) = {Head(s)} \cup Values(Tail(s))
             /\ Values(t) = Values(Tail(s)) \cup S
             /\ t \in Seq(Values(t))
<1> DEFINE r == SetToSeq(S)
           n == Cardinality(S)
           l == Len(s)
           t == Tail(s) \o r
<1>1. n \in Nat /\ r \in [1..n -> S] /\ Values(r) = S
  BY SetToSeqIs
<1> HIDE DEF r, n
<1>2. l \in Nat \ {0} /\ DOMAIN s = 1..l /\ s \in [1..l -> Values(s)]
  OBVIOUS
<1>3. r \in Seq(S) /\ Len(r) = n
  BY <1>1, IsSeq
<1>4. /\ Head(s) = s[1] /\ Len(Tail(s)) = l - 1 /\ DOMAIN Tail(s) = 1..(l - 1)
      /\ \A i \in 1..(l - 1) : Tail(s)[i] = s[i + 1]
  BY <1>2
<1>5. Values(s) = {Head(s)} \cup Values(Tail(s))
  <2>1. \A i \in 1..l : i = 1 \/ (i - 1 \in 1..(l - 1) /\ (i - 1) + 1 = i)
    BY <1>2
  <2>2. \A i \in 1..(l - 1) : i + 1 \in 1..l
    BY <1>2
  <2>3. 1 \in 1..l
    BY <1>2
  <2>4. DOMAIN Tail(s) = 1..(l - 1) /\ DOMAIN s = 1..l
    BY <1>2, <1>4
  <2> HIDE DEF l
  <2>5. ASSUME NEW i \in 1..l PROVE s[i] = Head(s) \/ s[i] \in Values(Tail(s))
    <3>1. CASE i = 1
      BY <1>4, <3>1
    <3>2. ASSUME i - 1 \in 1..(l - 1), (i - 1) + 1 = i PROVE s[i] \in Values(Tail(s))
      <4>1. Tail(s)[i - 1] = s[i]
        BY <1>4, <3>2
      <4> QED BY <2>4, <3>2, <4>1 DEF Values
    <3> QED BY <2>1, <3>1, <3>2
  <2>6. ASSUME NEW i \in 1..(l - 1) PROVE Tail(s)[i] \in Values(s)
    BY <1>4, <2>2, <2>4 DEF Values
  <2>7. Head(s) \in Values(s)
    BY <1>4, <2>3, <2>4 DEF Values
  <2>8. Values(s) \subseteq {Head(s)} \cup Values(Tail(s))
    BY <2>4, <2>5 DEF Values
  <2>9. Values(Tail(s)) \subseteq Values(s)
    BY <2>4, <2>6 DEF Values
  <2> QED BY <2>7, <2>8, <2>9
<1>6. Tail(s) \in Seq(Values(s) \cup S) /\ r \in Seq(Values(s) \cup S)
  <2>1. Tail(s) \in Seq(Values(s))
    OBVIOUS
  <2> HIDE DEF l
  <2> QED BY <1>3, <2>1
<1>7. /\ t \in Seq(Values(s) \cup S)
      /\ DOMAIN t = 1..(l - 1 + n)
      /\ \A i \in 1..(l - 1 + n) : t[i] = IF i <= l - 1 THEN Tail(s)[i] ELSE r[i - (l - 1)]
  BY <1>1, <1>2, <1>3, <1>4, <1>6
<1>8. Values(t) = Values(Tail(s)) \cup S
  <2>1. ASSUME NEW x \in Values(t) PROVE x \in Values(Tail(s)) \cup S
    <3>1. PICK i \in 1..(l - 1 + n) : x = t[i]
      BY <1>7 DEF Values
    <3>2. CASE i <= l - 1
      <4>1. i \in 1..(l - 1)
        BY <1>2, <3>2
      <4> HIDE DEF l, t
      <4> QED BY <1>4, <1>7, <3>1, <3>2, <4>1 DEF Values
    <3>3. CASE ~ (i <= l - 1)
      <4>1. i - (l - 1) \in 1..n
        BY <1>1, <1>2, <3>3
      <4> HIDE DEF l, t
      <4> QED BY <1>1, <1>7, <3>1, <3>3, <4>1
    <3> QED BY <3>2, <3>3
  <2>2. ASSUME NEW i \in 1..(l - 1) PROVE Tail(s)[i] \in Values(t)
    <3>1. i \in 1..(l - 1 + n) /\ i <= l - 1
      BY <1>1, <1>2
    <3> HIDE DEF l, t
    <3> QED BY <1>7, <3>1 DEF Values
  <2>3. ASSUME NEW i \in 1..n PROVE r[i] \in Values(t)
    <3>1. i + (l - 1) \in 1..(l - 1 + n) /\ ~ (i + (l - 1) <= l - 1) /\ (i + (l - 1)) - (l - 1) = i
      BY <1>1, <1>2
    <3> HIDE DEF l, t
    <3> QED BY <1>7, <3>1 DEF Values
  <2>4. Values(Tail(s)) \cup S \subseteq Values(t)
    <3>1. Values(Tail(s)) \subseteq Values(t)
      <4> HIDE DEF l, t
      <4> QED BY <1>4, <2>2 DEF Values
    <3>2. DOMAIN r = 1..n
      BY <1>1
    <3>3. Values(r) \subseteq Values(t)
      <4> HIDE DEF l, t
      <4> QED BY <2>3, <3>2 DEF Values
    <3> QED BY <1>1, <3>1, <3>3
  <2> QED BY <2>1, <2>4
<1>9. t \in Seq(Values(t))
  <2>1. l - 1 + n \in Nat
    BY <1>1, <1>2
  <2>2. t = [i \in 1..(l - 1 + n) |-> t[i]]
    <3>1. t \in Seq(Values(s) \cup S) /\ DOMAIN t = 1..(l - 1 + n)
      BY <1>7
    <3> HIDE DEF l, t
    <3>2. t = [i \in DOMAIN t |-> t[i]]
      BY <3>1
    <3> QED BY <3>1, <3>2, Zenon
  <2>3. \A i \in 1..(l - 1 + n) : t[i] \in Values(t)
    <3> HIDE DEF l, t
    <3> QED BY <1>7 DEF Values
  <2>4. t \in [1..(l - 1 + n) -> Values(t)]
    <3> HIDE DEF t, l
    <3> QED BY <2>2, <2>3, Zenon
  <2> HIDE DEF t, l
  <2> QED BY <2>1, <2>4, IsSeq
<1> QED BY <1>5, <1>8, <1>9 DEF r

\* The nodes a walk has been at, and those its queue holds.
Visited(w) == w.done \X {None} \cup w.asked
Due(w) == UNION {{q.package} \X ({None} \cup q.extras) : q \in Values(w.queue)}

\* A walk has been at, or will be at, what the members are and what those it has been
\* at need; and it has been at nothing, and will be at nothing, that is not reached.
IsWalk(w, lock, platform) ==
  /\ DOMAIN NothingWalked \subseteq DOMAIN w
  /\ w.queue \in Seq(Values(w.queue))
  /\ \A q \in Values(w.queue) : q.package \in DOMAIN lock.packages /\ None \notin q.extras
  /\ \A n \in w.asked : n[1] \in w.done /\ n[2] # None
  /\ UNION {UvNodes(lock, i) : i \in UvMembers(lock)} \subseteq Visited(w) \cup Due(w)
  /\ \A e \in UvNeeds(lock, platform) : e[1] \in Visited(w) => e[2] \in Visited(w) \cup Due(w)
  /\ Visited(w) \cup Due(w) \subseteq UvReached(lock, platform)

\* What is reached has the members and is closed, and is the least such.
LEMMA UvReachedIs ==
  ASSUME NEW lock, NEW platform, IsUvLock(lock)
  PROVE  LET starts == UNION {UvNodes(lock, i) : i \in UvMembers(lock)}
         IN  /\ starts \subseteq UvReached(lock, platform)
             /\ Closed(UvReached(lock, platform), UvNeeds(lock, platform))
             /\ \A S : (starts \subseteq S /\ Closed(S, UvNeeds(lock, platform)))
                         => UvReached(lock, platform) \subseteq S
<1>1. IsFiniteSet(UvNeeds(lock, platform))
  BY UvNeedsAreFinite
<1> DEFINE starts == UNION {UvNodes(lock, i) : i \in UvMembers(lock)}
           needs == UvNeeds(lock, platform)
<1>2. UvReached(lock, platform) = Reached(starts, needs)
  BY DEF UvReached
<1> HIDE DEF starts, needs
<1>3. IsFiniteSet(needs)
  BY <1>1 DEF needs
<1>4. starts \subseteq Reached(starts, needs) /\ Closed(Reached(starts, needs), needs)
  BY <1>3, ReachedIs
<1>5. \A S : (starts \subseteq S /\ Closed(S, needs)) => Reached(starts, needs) \subseteq S
  BY <1>3, ReachedIsLeast
<1> QED BY <1>2, <1>4, <1>5 DEF starts, needs

LEMMA StartIsWalk ==
  ASSUME NEW lock, NEW platform, IsUvLock(lock)
  PROVE  StartWalk(lock).error = None /\ IsWalk(StartWalk(lock), lock, platform)
<1> DEFINE w == StartWalk(lock)
           f == [i \in UvMembers(lock) |-> [package |-> i, extras |-> DOMAIN lock.packages[i].optional]]
           S == {[package |-> i, extras |-> DOMAIN lock.packages[i].optional] : i \in UvMembers(lock)}
<1>1. /\ DOMAIN NothingWalked \subseteq DOMAIN w
      /\ w.queue = SetToSeq(S) /\ w.done = {} /\ w.asked = {} /\ w.error = None
  BY DEF StartWalk, NothingWalked
<1>2. IsFiniteSet(S)
  <2>1. IsFiniteSet(UvMembers(lock))
    <3>1. DOMAIN lock.packages = 1..Len(lock.packages) /\ Len(lock.packages) \in Nat
      BY DEF IsUvLock
    <3>2. \A n \in Nat : IsFiniteSet(1..n)
      BY FS_Interval
    <3> QED BY <3>1, <3>2, FS_Subset DEF UvMembers
  <2>2. IsFiniteSet({f[i] : i \in DOMAIN f})
    BY <2>1, ImageIsFinite
  <2>3. {f[i] : i \in DOMAIN f} = S
    OBVIOUS
  <2> HIDE DEF f, S
  <2> QED BY <2>2, <2>3
<1>3. Values(w.queue) = S /\ w.queue \in Seq(Values(w.queue))
  <2>1. /\ Cardinality(S) \in Nat /\ SetToSeq(S) \in [1..Cardinality(S) -> S]
        /\ Values(SetToSeq(S)) = S
    <3> HIDE DEF S
    <3> QED BY <1>2, SetToSeqIs
  <2>2. SetToSeq(S) \in Seq(S)
    <3> HIDE DEF S
    <3> QED BY <2>1, IsSeq
  <2> HIDE DEF S
  <2> QED BY <1>1, <2>1, <2>2
<1>4. \A i \in UvMembers(lock) : i \in DOMAIN lock.packages /\ None \notin DOMAIN lock.packages[i].optional
  BY DEF UvMembers, IsUvLock, Values
<1>5. \A q \in S : q.package \in DOMAIN lock.packages /\ None \notin q.extras
  BY <1>4
<1>6. Due(w) = UNION {UvNodes(lock, i) : i \in UvMembers(lock)}
  <2>1. UNION {{q.package} \X ({None} \cup q.extras) : q \in S}
          = UNION {UvNodes(lock, i) : i \in UvMembers(lock)}
    <3> DEFINE Of(q) == {q.package} \X ({None} \cup q.extras)
    <3>1. \A i \in UvMembers(lock) : Of(f[i]) = UvNodes(lock, i)
      BY DEF UvNodes
    <3>2. S = {f[i] : i \in UvMembers(lock)}
      OBVIOUS
    <3> HIDE DEF S, Of, f
    <3>3. UNION {Of(q) : q \in S} = UNION {UvNodes(lock, i) : i \in UvMembers(lock)}
      BY <3>1, <3>2
    <3> QED BY <3>3 DEF Of
  <2> HIDE DEF S, w
  <2> QED BY <1>3, <2>1 DEF Due
<1>7. Visited(w) = {}
  <2> HIDE DEF w
  <2> QED BY <1>1 DEF Visited
<1>8. UNION {UvNodes(lock, i) : i \in UvMembers(lock)} \subseteq UvReached(lock, platform)
  BY UvReachedIs
<1> HIDE DEF w, S
<1> QED BY <1>1, <1>3, <1>5, <1>6, <1>7, <1>8 DEF IsWalk, w

\* What leaves a package of a lock is finite, and so are the extras it asks for.
LEMMA UvLeavingIs ==
  ASSUME NEW lock, IsUvLock(lock), NEW i \in DOMAIN lock.packages
  PROVE  LET p == lock.packages[i]
         IN  /\ IsFiniteSet(DOMAIN p.optional) /\ None \notin DOMAIN p.optional
             /\ \A edges \in {p.needs \cup p.dev, p.needs} \cup Values(p.optional) :
                  IsFiniteSet(edges) /\ \A e \in edges : None \notin e.extras
<1> DEFINE p == lock.packages[i]
<1>1. p \in Values(lock.packages)
  BY DEF Values
<1>2. /\ IsFiniteSet(DOMAIN p.optional) /\ None \notin DOMAIN p.optional
      /\ \A edges \in {p.needs, p.dev} \cup Values(p.optional) :
           IsFiniteSet(edges) /\ \A e \in edges : IsFiniteSet(e.extras) /\ None \notin e.extras
  BY <1>1, Zenon DEF IsUvLock
<1> HIDE DEF p
<1>3. IsFiniteSet(p.needs) /\ IsFiniteSet(p.dev) /\ IsFiniteSet(p.needs \cup p.dev)
  BY <1>2, FS_Union
<1>4. \A edges \in {p.needs \cup p.dev, p.needs} \cup Values(p.optional) :
        IsFiniteSet(edges) /\ \A e \in edges : None \notin e.extras
  BY <1>2, <1>3
<1> QED BY <1>2, <1>4 DEF p

\* Among numbers there is a least.
LEMMA LeastOf ==
  ASSUME NEW n, NEW S, n \in Nat, S \subseteq 1..n, S # {}
  PROVE  \E i \in S : \A j \in S : i <= j
<1> SUFFICES ASSUME \A i \in S : \E j \in S : ~ (i <= j)
             PROVE  FALSE
  OBVIOUS
<1> DEFINE K == {k \in Nat : \A i \in S : ~ (i <= k)}
<1>1. 0 \in K
  OBVIOUS
<1>2. ASSUME NEW k \in Nat, k \in K PROVE k + 1 \in K
  <2> SUFFICES ASSUME NEW i \in S, i <= k + 1 PROVE FALSE
    OBVIOUS
  <2>1. PICK j \in S : ~ (i <= j)
    OBVIOUS
  <2>2. j <= k
    BY <2>1
  <2> QED BY <1>2, <2>2
<1>3. Nat \subseteq K
  <2> HIDE DEF K
  <2> QED BY <1>1, <1>2, Induction
<1> HIDE DEF K
<1>4. S \subseteq Nat
  OBVIOUS
<1>5. PICK i : i \in S /\ i \in Nat
  BY <1>4
<1> QED BY <1>3, <1>5 DEF K

\* An edge leads to a package of the lock, if it leads anywhere.
LEMMA ResolveIs ==
  ASSUME NEW e, NEW lock, IsUvLock(lock), Resolve(e, lock) # None
  PROVE  Resolve(e, lock) \in DOMAIN lock.packages
<1> DEFINE s == [i \in DOMAIN lock.packages |-> i]
           Test(i) == LET p == lock.packages[i]
                      IN  /\ Normalized(p.name) = Normalized(e.name)
                          /\ e.version \in {None, p.version}
                          /\ e.source \in {None, p.source}
           hits == {i \in DOMAIN s : Test(s[i])}
<1>1. Resolve(e, lock) = IF hits = {} THEN None ELSE s[CHOOSE i \in hits : \A j \in hits : i <= j]
  BY Zenon DEF Resolve, FirstWith
<1>2. hits \subseteq 1..Len(lock.packages) /\ Len(lock.packages) \in Nat
  BY DEF IsUvLock
<1>3. hits # {}
  <2> HIDE DEF hits
  <2> QED BY <1>1
<1> HIDE DEF Test
<1>4. \E i \in hits : \A j \in hits : i <= j
  <2> HIDE DEF hits
  <2> QED BY <1>2, <1>3, LeastOf
<1> DEFINE k == CHOOSE i \in hits : \A j \in hits : i <= j
<1>5. k \in hits
  <2> HIDE DEF hits
  <2> QED BY <1>4
<1>6. Resolve(e, lock) = s[k] /\ k \in DOMAIN lock.packages
  BY <1>1, <1>3, <1>5
<1> HIDE DEF k
<1> QED BY <1>6

\* The edges that leave the package at the head of the queue now, each with the extra
\* it goes through, and what they lead to.
Leaving(w, lock) ==
  LET p == lock.packages[Head(w.queue).package]
      own == IF Head(w.queue).package \notin w.done
             THEN p.needs \cup (IF Member(p, lock) THEN p.dev ELSE {}) ELSE {}
  IN  (own \X {None}) \cup UNION {p.optional[x] \X {x} : x \in NewExtras(w) \cap DOMAIN p.optional}

Out(w, lock, platform) ==
  {e \in Leaving(w, lock) : platform \in e[1].on /\ Resolve(e[1], lock) # None}

Arrivals(out, lock) == {[package |-> Resolve(e[1], lock), extras |-> e[1].extras] : e \in out}

\* One turn of the loop.  A marker that does not parse ends it.
LEMMA VisitIs ==
  ASSUME NEW lock, NEW platform, NEW w, DOMAIN NothingWalked \subseteq DOMAIN w
  PROVE  LET v == Visit(w, lock, platform)
             i == Head(w.queue).package
             bad == \E e \in Leaving(w, lock) : e[1].on = None
         IN  /\ bad => v.error = "marker" /\ v.queue = <<>>
             /\ ~ bad => /\ DOMAIN v = DOMAIN w /\ v.error = w.error
                         /\ v.queue = Tail(w.queue) \o SetToSeq(Arrivals(Out(w, lock, platform), lock))
                         /\ v.done = w.done \cup {i}
                         /\ v.asked = w.asked \cup ({i} \X NewExtras(w))
<1> DEFINE v == Visit(w, lock, platform)
           i == Head(w.queue).package
           out == Out(w, lock, platform)
           bad == \E e \in Leaving(w, lock) : e[1].on = None
           plain == w.plain \cup {<<i, Resolve(e[1], lock)>> : e \in {f \in out : f[2] = None}}
           gated == w.gated \cup {<<i, Resolve(e[1], lock), e[2]>> : e \in {f \in out : f[2] # None}}
           requested == w.requested \cup UNION {{Resolve(e[1], lock)} \X e[1].extras : e \in out}
           ended == [w EXCEPT !.error = "marker", !.queue = <<>>]
           gone == [w EXCEPT !.queue = Tail(@) \o SetToSeq(Arrivals(out, lock)),
                             !.done = @ \cup {i}, !.asked = @ \cup ({i} \X NewExtras(w)),
                             !.plain = plain, !.gated = gated, !.requested = requested]
<1>1. v = IF bad THEN ended ELSE gone
  BY Zenon DEF Visit, Leaving, Out, Arrivals
<1>2. {"queue", "done", "asked", "plain", "gated", "requested", "error"} \subseteq DOMAIN w
  BY DEF NothingWalked
<1> HIDE DEF v, i, out, bad, plain, gated, requested
<1>3. bad => v.error = "marker" /\ v.queue = <<>>
  BY <1>1, <1>2
<1>4. ~ bad => /\ DOMAIN v = DOMAIN w /\ v.error = w.error
               /\ v.queue = Tail(w.queue) \o SetToSeq(Arrivals(out, lock))
               /\ v.done = w.done \cup {i}
               /\ v.asked = w.asked \cup ({i} \X NewExtras(w))
  BY <1>1, <1>2
<1> QED BY <1>3, <1>4 DEF v, i, out, bad

\* One turn of the loop leaves nothing out and adds nothing that is not needed.
LEMMA VisitIsWalk ==
  ASSUME NEW lock, NEW platform, IsUvLock(lock), NEW w, IsWalk(w, lock, platform), w.queue # <<>>,
         Visit(w, lock, platform).error = None
  PROVE  IsWalk(Visit(w, lock, platform), lock, platform)
<1> DEFINE v == Visit(w, lock, platform)
           h == Head(w.queue)
           i == h.package
           p == lock.packages[i]
           first == i \notin w.done
           new == NewExtras(w)
           own == IF first THEN p.needs \cup (IF Member(p, lock) THEN p.dev ELSE {}) ELSE {}
           leaving == (own \X {None}) \cup UNION {p.optional[x] \X {x} : x \in new \cap DOMAIN p.optional}
           out == {e \in leaving : platform \in e[1].on /\ Resolve(e[1], lock) # None}
           arrivals == {[package |-> Resolve(e[1], lock), extras |-> e[1].extras] : e \in out}
           needs == UvNeeds(lock, platform)
           added == UNION {UvTargets(e[1], lock) : e \in out}
           mine == {i} \X ({None} \cup h.extras)
<1>1. DOMAIN NothingWalked \subseteq DOMAIN w /\ w.queue \in Seq(Values(w.queue))
  BY DEF IsWalk
<1>2. \A e \in leaving : e[1].on # None
  <2>1. leaving = Leaving(w, lock)
    BY Zenon DEF Leaving
  <2> HIDE DEF leaving, v
  <2> QED BY <1>1, <2>1, VisitIs, UvAssumption DEF v
<1>3. /\ DOMAIN v = DOMAIN w
      /\ v.queue = Tail(w.queue) \o SetToSeq(arrivals)
      /\ v.done = w.done \cup {i}
      /\ v.asked = w.asked \cup ({i} \X new)
  <2>1. leaving = Leaving(w, lock) /\ arrivals = Arrivals(Out(w, lock, platform), lock)
    BY Zenon DEF Leaving, Out, Arrivals
  <2> HIDE DEF leaving, arrivals, v
  <2> QED BY <1>1, <1>2, <2>1, VisitIs DEF v
<1> HIDE DEF v
<1>4. i \in DOMAIN lock.packages /\ None \notin h.extras
  <2>1. h \in Values(w.queue)
    <3>1. Len(w.queue) \in Nat \ {0} /\ DOMAIN w.queue = 1..Len(w.queue) /\ h = w.queue[1]
      BY <1>1
    <3> QED BY <3>1 DEF Values
  <2> QED BY <2>1 DEF IsWalk
<1>5. /\ IsFiniteSet(DOMAIN p.optional) /\ None \notin DOMAIN p.optional
      /\ \A edges \in {p.needs \cup p.dev, p.needs} \cup Values(p.optional) :
           IsFiniteSet(edges) /\ \A e \in edges : None \notin e.extras
  BY <1>4, UvLeavingIs, Zenon
<1>6. new \subseteq h.extras /\ \A x \in h.extras : x \in new \/ <<i, x>> \in w.asked
  BY DEF NewExtras
<1> HIDE DEF h, new
<1>7. \A e : e \in leaving <=>
        \/ e = <<e[1], None>> /\ first /\ e[1] \in UvLeaving(lock, i, None)
        \/ \E x \in new \cap DOMAIN p.optional : e = <<e[1], x>> /\ e[1] \in UvLeaving(lock, i, x)
  <2>1. UvLeaving(lock, i, None) = p.needs \cup (IF Member(p, lock) THEN p.dev ELSE {})
    BY DEF UvLeaving
  <2>2. \A x \in DOMAIN p.optional : UvLeaving(lock, i, x) = p.optional[x]
    BY <1>5 DEF UvLeaving
  <2> HIDE DEF p, i, first
  <2> QED BY <2>1, <2>2
<1>8. ASSUME NEW e \in leaving
      PROVE  /\ e[2] \in {None} \cup (new \cap DOMAIN p.optional)
             /\ e[1] \in UvLeaving(lock, i, e[2])
             /\ None \notin e[1].extras
  <2>1. e[2] \in {None} \cup (new \cap DOMAIN p.optional) /\ e[1] \in UvLeaving(lock, i, e[2])
    <3> HIDE DEF leaving, p, first, i
    <3>1. CASE first /\ e = <<e[1], None>> /\ e[1] \in UvLeaving(lock, i, None)
      BY <3>1
    <3>2. ASSUME NEW x \in new \cap DOMAIN p.optional, e = <<e[1], x>>, e[1] \in UvLeaving(lock, i, x)
          PROVE  e[2] \in new \cap DOMAIN p.optional /\ e[1] \in UvLeaving(lock, i, e[2])
      BY <3>2
    <3> QED BY <1>7, <3>1, <3>2
  <2>2. \E edges \in {p.needs \cup p.dev, p.needs} \cup Values(p.optional) : e[1] \in edges
    <3>1. p.needs \cup (IF Member(p, lock) THEN p.dev ELSE {}) \in {p.needs \cup p.dev, p.needs}
      OBVIOUS
    <3>2. \A x \in DOMAIN p.optional : p.optional[x] \in Values(p.optional)
      BY DEF Values
    <3>3. \/ e[1] \in p.needs \cup (IF Member(p, lock) THEN p.dev ELSE {})
          \/ \E x \in DOMAIN p.optional : e[1] \in p.optional[x]
      <4> HIDE DEF leaving
      <4> QED BY <1>5, <2>1 DEF UvLeaving
    <3> HIDE DEF leaving, p
    <3> QED BY <3>1, <3>2, <3>3
  <2> HIDE DEF leaving, p
  <2> QED BY <1>5, <2>1, <2>2
<1>9. IsFiniteSet(arrivals)
  <2> DEFINE asked == new \cap DOMAIN p.optional
             f == [x \in asked |-> p.optional[x] \X {x}]
             g == [e \in out |-> [package |-> Resolve(e[1], lock), extras |-> e[1].extras]]
  <2>1. IsFiniteSet(own \X {None})
    <3>1. IsFiniteSet(own)
      BY <1>5, FS_EmptySet
    <3> HIDE DEF own
    <3> QED BY <3>1, FS_Singleton, FS_Product
  <2>2. IsFiniteSet(asked)
    BY <1>5, FS_Subset
  <2>3. IsFiniteSet({f[x] : x \in DOMAIN f})
    <3>1. DOMAIN f = asked
      OBVIOUS
    <3> HIDE DEF asked, f
    <3> QED BY <2>2, <3>1, ImageIsFinite
  <2>4. \A T \in {f[x] : x \in DOMAIN f} : IsFiniteSet(T)
    <3>1. \A x \in asked : IsFiniteSet(p.optional[x] \X {x})
      <4>1. \A x \in asked : p.optional[x] \in Values(p.optional)
        BY DEF Values
      <4>2. \A x \in asked : IsFiniteSet(p.optional[x])
        BY <1>5, <4>1
      <4> HIDE DEF asked, p
      <4> QED BY <4>2, FS_Singleton, FS_Product
    <3> HIDE DEF asked, p
    <3> QED BY <3>1
  <2>5. IsFiniteSet(UNION {f[x] : x \in DOMAIN f})
    <3> DEFINE all == {f[x] : x \in DOMAIN f}
    <3> HIDE DEF f
    <3>1. IsFiniteSet(all) /\ \A T \in all : IsFiniteSet(T)
      BY <2>3, <2>4
    <3> HIDE DEF all
    <3>2. IsFiniteSet(UNION all)
      BY <3>1, FS_UNION
    <3> QED BY <3>2 DEF all
  <2>6. UNION {f[x] : x \in DOMAIN f} = UNION {p.optional[x] \X {x} : x \in new \cap DOMAIN p.optional}
    OBVIOUS
  <2>7. IsFiniteSet(leaving)
    <3> DEFINE A == own \X {None}
               B == UNION {p.optional[x] \X {x} : x \in new \cap DOMAIN p.optional}
    <3>1. IsFiniteSet(A)
      BY <2>1
    <3>2. IsFiniteSet(B)
      <4> HIDE DEF B, f
      <4>1. UNION {f[x] : x \in DOMAIN f} = B
        BY <2>6 DEF B
      <4> QED BY <2>5, <4>1
    <3>3. leaving = A \cup B
      OBVIOUS
    <3> HIDE DEF A, B, leaving
    <3> QED BY <3>1, <3>2, <3>3, FS_Union
  <2>8. IsFiniteSet(out)
    <3> HIDE DEF leaving
    <3> QED BY <2>7, FS_Subset
  <2>9. IsFiniteSet({g[e] : e \in DOMAIN g})
    <3>1. DOMAIN g = out
      OBVIOUS
    <3> HIDE DEF out, g
    <3> QED BY <2>8, <3>1, ImageIsFinite
  <2>10. {g[e] : e \in DOMAIN g} = arrivals
    <3> HIDE DEF out
    <3> QED OBVIOUS
  <2> HIDE DEF g, arrivals
  <2> QED BY <2>9, <2>10
<1>10. /\ Values(w.queue) = {h} \cup Values(Tail(w.queue))
       /\ Values(v.queue) = Values(Tail(w.queue)) \cup arrivals
       /\ v.queue \in Seq(Values(v.queue))
  <2> HIDE DEF arrivals
  <2> DEFINE q == w.queue
  <2>1. q \in Seq(Values(q)) /\ q # <<>> /\ v.queue = Tail(q) \o SetToSeq(arrivals) /\ h = Head(q)
    BY <1>1, <1>3 DEF h
  <2> HIDE DEF q
  <2> DEFINE t == Tail(q) \o SetToSeq(arrivals)
  <2>2. /\ Values(q) = {Head(q)} \cup Values(Tail(q))
        /\ Values(t) = Values(Tail(q)) \cup arrivals
        /\ t \in Seq(Values(t))
    BY <1>9, <2>1, QueueIs
  <2>3. v.queue = t
    BY <2>1
  <2> HIDE DEF t
  <2>4. Values(v.queue) = Values(Tail(q)) \cup arrivals /\ v.queue \in Seq(Values(v.queue))
    BY <2>2, <2>3
  <2>5. Values(q) = {h} \cup Values(Tail(q))
    BY <2>1, <2>2
  <2> QED BY <2>4, <2>5 DEF q
<1> DEFINE later == UNION {{q.package} \X ({None} \cup q.extras) : q \in Values(Tail(w.queue))}
<1>11. Due(w) = mine \cup later /\ Due(v) = later \cup added
  <2>1. UNION {{q.package} \X ({None} \cup q.extras) : q \in arrivals} = added
    <3> DEFINE Of(q) == {q.package} \X ({None} \cup q.extras)
               To(e) == [package |-> Resolve(e[1], lock), extras |-> e[1].extras]
    <3>1. \A e : Of(To(e)) = UvTargets(e[1], lock)
      BY DEF UvTargets
    <3>2. arrivals = {To(e) : e \in out}
      OBVIOUS
    <3> HIDE DEF Of, To, arrivals, out
    <3>3. UNION {Of(q) : q \in arrivals} = UNION {UvTargets(e[1], lock) : e \in out}
      BY <3>1, <3>2
    <3> QED BY <3>3 DEF Of
  <2> HIDE DEF arrivals, added
  <2>2. Due(w) = mine \cup later
    BY <1>10 DEF Due
  <2>3. Due(v) = later \cup added
    BY <1>10, <2>1 DEF Due
  <2> QED BY <2>2, <2>3
<1>12. /\ Visited(w) \subseteq Visited(v) /\ mine \subseteq Visited(v)
       /\ Visited(v) \subseteq Visited(w) \cup mine
  <2>1. Visited(v) = Visited(w) \cup {<<i, None>>} \cup ({i} \X new)
    <3> HIDE DEF arrivals
    <3>1. v.done = w.done \cup {i} /\ v.asked = w.asked \cup ({i} \X new)
      BY <1>3
    <3> HIDE DEF i
    <3>2. v.done \X {None} = w.done \X {None} \cup {<<i, None>>}
      BY <3>1
    <3> QED BY <3>1, <3>2 DEF Visited
  <2>2. mine \subseteq Visited(w) \cup {<<i, None>>} \cup ({i} \X new)
    <3> HIDE DEF i
    <3> QED BY <1>6 DEF Visited
  <2>3. {<<i, None>>} \cup ({i} \X new) \subseteq mine
    <3> HIDE DEF i
    <3> QED BY <1>6
  <2> HIDE DEF mine
  <2> QED BY <2>1, <2>2, <2>3
\* The edges that leave what is visited only now all leave the package now.
<1>13. ASSUME NEW n, n \in UvNodes(lock, n[1]), n \in Visited(v), n \notin Visited(w),
              NEW f \in UvLeaving(lock, n[1], n[2])
       PROVE  n[1] = i /\ <<f, n[2]>> \in leaving
  <2>1. n = <<n[1], n[2]>> /\ n[2] \in {None} \cup DOMAIN lock.packages[n[1]].optional
    <3>1. \A j : \A m \in UvNodes(lock, j) :
            m = <<m[1], m[2]>> /\ m[2] \in {None} \cup DOMAIN lock.packages[j].optional
      BY DEF UvNodes
    <3> QED BY <1>13, <3>1
  <2>2. n \in mine
    <3> HIDE DEF mine
    <3> QED BY <1>12, <1>13
  <2>3. n[1] = i
    BY <2>2
  <2>4. CASE n[2] = None
    <3>1. first
      <4> HIDE DEF i
      <4> QED BY <1>13, <2>1, <2>3, <2>4 DEF Visited
    <3> HIDE DEF leaving, i, first
    <3> QED BY <1>7, <1>13, <2>3, <2>4, <3>1
  <2>5. CASE n[2] # None
    <3>1. n[2] \in new \cap DOMAIN p.optional
      <4>1. n[2] \in h.extras /\ n[2] \in DOMAIN p.optional
        BY <2>1, <2>2, <2>3, <2>5
      <4>2. <<i, n[2]>> \notin w.asked
        <5> HIDE DEF i
        <5> QED BY <1>13, <2>1, <2>3 DEF Visited
      <4> HIDE DEF i, p
      <4> QED BY <1>6, <4>1, <4>2
    <3> HIDE DEF leaving, i, p
    <3> QED BY <1>7, <1>13, <2>3, <3>1
  <2> QED BY <2>3, <2>4, <2>5
<1> HIDE DEF mine
\* What is needed of it is due.
<1>14. ASSUME NEW e \in needs, e[1] \in Visited(v)
       PROVE  e[2] \in Visited(v) \cup Due(v)
  <2>1. CASE e[1] \in Visited(w)
    <3>1. e[2] \in Visited(w) \cup Due(w)
      BY <2>1 DEF IsWalk
    <3> HIDE DEF added, later
    <3> QED BY <1>11, <1>12, <3>1
  <2>2. CASE e[1] \notin Visited(w)
    <3>1. PICK n, f, m :
            /\ \E j \in DOMAIN lock.packages : n \in UvNodes(lock, j)
            /\ f \in UvLeaving(lock, n[1], n[2]) /\ UvLeadsOn(f, lock, platform)
            /\ m \in UvTargets(f, lock) /\ e = <<n, m>>
      BY UvNeedsAre
    <3>2. n \in UvNodes(lock, n[1]) /\ e[1] = n /\ e[2] = m
      BY <3>1 DEF UvNodes
    <3>3. <<f, n[2]>> \in leaving
      <4> HIDE DEF leaving
      <4> QED BY <1>13, <1>14, <2>2, <3>1, <3>2
    <3>4. <<f, n[2]>> \in out
      <4> HIDE DEF leaving
      <4> QED BY <3>1, <3>3 DEF UvLeadsOn
    <3>5. UvTargets(f, lock) \subseteq added
      <4> HIDE DEF out
      <4> QED BY <3>4
    <3> HIDE DEF added, later
    <3> QED BY <1>11, <3>1, <3>2, <3>5
  <2> QED BY <2>1, <2>2
\* And what is due is needed of something visited.
<1>15. added \subseteq UvReached(lock, platform)
  <2> SUFFICES ASSUME NEW e \in out, NEW m \in UvTargets(e[1], lock)
               PROVE  m \in UvReached(lock, platform)
    OBVIOUS
  <2>1. e \in leaving /\ platform \in e[1].on /\ Resolve(e[1], lock) # None
    OBVIOUS
  <2>2. UvLeadsOn(e[1], lock, platform)
    <3> HIDE DEF leaving, out
    <3> QED BY <1>2, <2>1 DEF UvLeadsOn
  <2> DEFINE n == <<i, e[2]>>
  <2>3. n \in UvNodes(lock, i) /\ n[1] = i /\ n[2] = e[2]
    <3> HIDE DEF leaving, i
    <3>1. e[2] \in {None} \cup (new \cap DOMAIN p.optional)
      BY <1>8, <2>1
    <3> QED BY <3>1 DEF UvNodes
  <2>4. <<n, m>> \in needs
    <3>1. e[1] \in UvLeaving(lock, n[1], n[2])
      <4> HIDE DEF leaving, i, n
      <4> QED BY <1>8, <2>1, <2>3
    <3> HIDE DEF n, i, leaving, out
    <3> QED BY <1>4, <2>2, <2>3, <3>1, UvNeedsAre
  <2>5. n \in Visited(w) \cup Due(w)
    <3>1. n \in mine
      <4>1. e[2] \in {None} \cup new
        <5> HIDE DEF leaving
        <5> QED BY <1>8, <2>1
      <4> HIDE DEF leaving, i
      <4> QED BY <1>6, <4>1 DEF mine
    <3> HIDE DEF n, later
    <3> QED BY <1>11, <3>1
  <2>6. n \in UvReached(lock, platform)
    <3> HIDE DEF n
    <3> QED BY <2>5 DEF IsWalk
  <2>7. Closed(UvReached(lock, platform), needs)
    BY UvReachedIs
  <2>8. <<n, m>>[1] = n /\ <<n, m>>[2] = m
    OBVIOUS
  <2> HIDE DEF n, needs
  <2> QED BY <2>4, <2>6, <2>7, <2>8 DEF Closed
<1> HIDE DEF added, later, needs
<1>16. Visited(v) \cup Due(v) \subseteq UvReached(lock, platform)
  <2>1. Visited(w) \cup Due(w) \subseteq UvReached(lock, platform)
    BY DEF IsWalk
  <2> QED BY <1>11, <1>12, <1>15, <2>1
<1>17. Visited(w) \cup Due(w) \subseteq Visited(v) \cup Due(v)
  BY <1>11, <1>12
<1>18. UNION {UvNodes(lock, j) : j \in UvMembers(lock)} \subseteq Visited(v) \cup Due(v)
  <2>1. UNION {UvNodes(lock, j) : j \in UvMembers(lock)} \subseteq Visited(w) \cup Due(w)
    BY DEF IsWalk
  <2> QED BY <1>17, <2>1
<1>19. \A n \in v.asked : n[1] \in v.done /\ n[2] # None
  <2>1. \A n \in w.asked : n[1] \in w.done /\ n[2] # None
    BY DEF IsWalk
  <2> HIDE DEF arrivals
  <2>2. v.done = w.done \cup {i} /\ v.asked = w.asked \cup ({i} \X new)
    BY <1>3
  <2> HIDE DEF i
  <2> QED BY <1>4, <1>6, <2>1, <2>2
<1>20. \A q \in Values(v.queue) : q.package \in DOMAIN lock.packages /\ None \notin q.extras
  <2>1. \A q \in Values(w.queue) : q.package \in DOMAIN lock.packages /\ None \notin q.extras
    BY DEF IsWalk
  <2>2. ASSUME NEW q \in arrivals PROVE q.package \in DOMAIN lock.packages /\ None \notin q.extras
    <3>1. PICK e \in out : q.package = Resolve(e[1], lock) /\ q.extras = e[1].extras
      <4> HIDE DEF out
      <4> QED OBVIOUS
    <3>2. e \in leaving /\ Resolve(e[1], lock) # None
      OBVIOUS
    <3>3. None \notin e[1].extras
      <4> HIDE DEF leaving
      <4> QED BY <1>8, <3>2
    <3>4. Resolve(e[1], lock) \in DOMAIN lock.packages
      <4> HIDE DEF leaving
      <4> QED BY <3>2, ResolveIs
    <3> QED BY <3>1, <3>3, <3>4
  <2> HIDE DEF arrivals
  <2> QED BY <1>10, <2>1, <2>2
<1>21. IsWalk(v, lock, platform)
  <2>1. DOMAIN NothingWalked \subseteq DOMAIN v /\ v.queue \in Seq(Values(v.queue))
    <3> HIDE DEF arrivals
    <3>1. DOMAIN NothingWalked \subseteq DOMAIN v
      BY <1>1, <1>3
    <3> QED BY <1>10, <3>1
  <2>2. \A e \in UvNeeds(lock, platform) : e[1] \in Visited(v) => e[2] \in Visited(v) \cup Due(v)
    BY <1>14 DEF needs
  <2> QED BY <1>16, <1>18, <1>19, <1>20, <2>1, <2>2, Zenon DEF IsWalk
<1> QED BY <1>21 DEF v

\* A walk whose queue is empty has been at what is reached.
LEMMA WalkIsOver ==
  ASSUME NEW lock, NEW platform, IsUvLock(lock), NEW w, IsWalk(w, lock, platform), w.queue = <<>>
  PROVE  LET reached == UvReached(lock, platform)
         IN  /\ w.done = {n[1] : n \in reached}
             /\ w.asked = {n \in reached : n[2] # None}
<1> DEFINE reached == UvReached(lock, platform)
<1>1. Due(w) = {}
  BY DEF Due, Values
<1>2. /\ UNION {UvNodes(lock, i) : i \in UvMembers(lock)} \subseteq Visited(w)
      /\ Closed(Visited(w), UvNeeds(lock, platform))
      /\ Visited(w) \subseteq reached
  BY <1>1 DEF IsWalk, Closed
<1> HIDE DEF reached
<1>3. reached = w.done \X {None} \cup w.asked
  BY <1>2, UvReachedIs DEF reached, Visited
<1>4. \A n \in w.asked : n[1] \in w.done /\ n[2] # None
  BY DEF IsWalk
<1>5. w.done = {n[1] : n \in reached}
  <2>1. \A i \in w.done : <<i, None>> \in reached
    BY <1>3
  <2>2. \A n \in reached : n[1] \in w.done
    BY <1>3, <1>4
  <2>3. \A i \in w.done : \E n \in reached : n[1] = i
    <3>1. \A i : <<i, None>>[1] = i
      OBVIOUS
    <3> QED BY <2>1, <3>1
  <2> QED BY <2>2, <2>3
<1>6. w.asked = {n \in reached : n[2] # None}
  BY <1>3, <1>4
<1> QED BY <1>5, <1>6 DEF reached

\* The loop is walked until its queue is empty or a marker does not parse.
UvWalkInv ==
  /\ input \in Inputs \cup Later
  /\ (input.format = "uv" /\ stage \in {"walking", "read"} /\ walk.error = None) =>
       IsWalk(walk, input.lock, input.platform)
  /\ (input.format = "uv" /\ stage = "walking") => (walk.error = None \/ walk.queue = <<>>)
  /\ (input.format = "uv" /\ stage = "read") => (walk.error = None /\ walk.queue = <<>>)
  /\ stage = "reading" => input.format # "uv"

LEMMA UvWalkInvKept == UvWalkInv /\ [Next]_vars => UvWalkInv'
<1> SUFFICES ASSUME UvWalkInv, [Next]_vars
             PROVE  UvWalkInv'
  OBVIOUS
<1> DEFINE lock == input.lock
<1>1. input.format = "uv" => IsUvLock(lock)
  BY UvAssumption DEF UvWalkInv
<1>2. CASE StartUv
  <2>1. walk' = StartWalk(lock) /\ stage' = "walking" /\ input' = input /\ input.format = "uv"
    BY <1>2 DEF StartUv
  <2>2. IsWalk(StartWalk(lock), lock, input.platform) /\ StartWalk(lock).error = None
    BY <1>1, <2>1, StartIsWalk
  <2> QED BY <2>1, <2>2 DEF UvWalkInv
<1>3. CASE VisitUv
  <2>1. /\ stage = "walking" /\ stage' = stage /\ input' = input /\ walk.queue # <<>>
        /\ walk' = Visit(walk, lock, input.platform)
    BY <1>3 DEF VisitUv
  <2>2. ASSUME input.format = "uv"
        PROVE  /\ walk'.error = None => IsWalk(walk', lock, input.platform)
               /\ walk'.error = None \/ walk'.queue = <<>>
    <3>1. walk.error = None /\ IsWalk(walk, lock, input.platform)
      BY <2>1, <2>2 DEF UvWalkInv
    <3>2. DOMAIN NothingWalked \subseteq DOMAIN walk
      BY <3>1 DEF IsWalk
    <3>3. walk'.error = None \/ walk'.queue = <<>>
      BY <2>1, <3>1, <3>2, VisitIs
    <3>4. walk'.error = None => IsWalk(walk', lock, input.platform)
      BY <1>1, <2>1, <2>2, <3>1, VisitIsWalk
    <3> QED BY <3>3, <3>4
  <2> QED BY <2>1, <2>2 DEF UvWalkInv
<1>4. CASE EndUv
  <2> DEFINE s == FinishUv(walk, lock, input.platform, Root(input))
  <2>1. /\ stage = "walking" /\ walk.queue = <<>> /\ input' = input /\ walk' = walk
        /\ stage' = IF s.error # None THEN "failed" ELSE "read"
    BY <1>4 DEF EndUv, IsRead
  <2>2. walk.error # None => s.error # None
    <3>1. \A error : Failed(error).error = error
      BY DEF Failed, Empty
    <3>2. walk.error # None => s \in {Failed("platform"), Failed(walk.error)}
      BY DEF FinishUv
    <3> HIDE DEF s
    <3> QED BY <3>1, <3>2, UvAssumption
  <2> HIDE DEF s
  <2> QED BY <2>1, <2>2 DEF UvWalkInv
<1>5. CASE \/ ReadAtOnce \/ StartRequirements \/ ReadRequirement \/ EndRequirements
  <2>1. input' = input /\ input.format # "uv"
    BY <1>5 DEF ReadAtOnce, StartRequirements, ReadRequirement, EndRequirements, UvWalkInv
  <2> QED BY <2>1 DEF UvWalkInv
<1>6. CASE \/ \E f \in Filters : Filter(f)
           \/ \E format \in OutputFormats : WriteDocument(format)
           \/ CompareWithEarlier
           \/ \E first \in BOOLEAN : MergeWithEarlier(first)
           \/ UNCHANGED vars
  <2>1. input' = input /\ walk' = walk /\ (stage' = stage \/ stage' \in {"written", "done"})
    BY <1>6 DEF Filter, WriteDocument, CompareWithEarlier, MergeWithEarlier, vars
  <2> QED BY <2>1 DEF UvWalkInv
<1>7. CASE \E i \in Later : AgainstLock(i) \/ AgainstDocument(i)
  <2>1. input' \in Later /\ stage' = "opened"
    BY <1>7 DEF AgainstLock, AgainstDocument, SecondRun
  <2> QED BY <2>1 DEF UvWalkInv
<1> QED BY <1>2, <1>3, <1>4, <1>5, <1>6, <1>7 DEF Next

\* The walk over a lock visits what its members need with all their extras, around any
\* cycles and in any order, and nothing else (uv.rs:298).
THEOREM UvWalkHolds == ScanSpec => []UvWalkIsExact
<1>1. ScanInit => UvWalkInv
  BY DEF ScanInit, Init, UvWalkInv
<1>2. UvWalkInv => UvWalkIsExact
  <2> SUFFICES ASSUME UvWalkInv, input.format = "uv", stage = "read"
               PROVE  LET reached == UvReached(input.lock, input.platform)
                      IN  /\ walk.done = {n[1] : n \in reached}
                          /\ walk.asked = {n \in reached : n[2] # None}
    BY Zenon DEF UvWalkIsExact
  <2>1. IsWalk(walk, input.lock, input.platform) /\ walk.queue = <<>> /\ IsUvLock(input.lock)
    BY UvAssumption DEF UvWalkInv
  <2> QED BY <2>1, WalkIsOver
<1> QED BY <1>1, <1>2, UvWalkInvKept, ScanIsDocuments, PTL DEF ScanSpec

-----------------------------------------------------------------------------
(* What is found. *)

Paths == Seq(STRING)

\* What a directory must have for a lock to be found in it.
HasLock(tree, d) ==
  tree[d].files \cap Values(LockfileKinds) # {} \/ (tree[d].named # <<>> /\ tree[d].readable)

LEMMA LockIs ==
  ASSUME NEW tree, NEW d
  PROVE  /\ KindsIn(tree, d) # {} <=> HasLock(tree, d)
         /\ ~ HasLock(tree, d) => LockfileIn(tree, d) = None
         /\ HasLock(tree, d) =>
              \E n \in KindsIn(tree, d) :
                LET kind == LockfileKinds[n]
                IN  LockfileIn(tree, d) =
                      Lockfile(d, kind, IF kind \in tree[d].files THEN None ELSE Head(NamedIn(tree, d)))
<1> DEFINE K == KindsIn(tree, d)
<1>1. DOMAIN LockfileKinds = 1..6
  BY DEF LockfileKinds
<1>2. K \subseteq 1..6
  BY <1>1 DEF KindsIn
<1>3. "pylock.toml" = LockfileKinds[3] /\ 3 \in DOMAIN LockfileKinds
  BY <1>1 DEF LockfileKinds
<1>4. K # {} <=> HasLock(tree, d)
  <2>1. NamedIn(tree, d) # <<>> <=> (tree[d].named # <<>> /\ tree[d].readable)
    BY DEF NamedIn
  <2>2. K # {} <=> \/ \E n \in DOMAIN LockfileKinds : LockfileKinds[n] \in tree[d].files
                   \/ NamedIn(tree, d) # <<>>
    BY <1>3, Zenon DEF KindsIn
  <2>3. (\E n \in DOMAIN LockfileKinds : LockfileKinds[n] \in tree[d].files)
          <=> tree[d].files \cap Values(LockfileKinds) # {}
    BY Zenon DEF Values
  <2> QED BY <2>1, <2>2, <2>3 DEF HasLock
<1>5. ASSUME K # {} PROVE Min(K) \in K
  <2> HIDE DEF K
  <2>1. \E x \in K : \A y \in K : x <= y
    BY <1>2, <1>5, LeastOf, 6 \in Nat
  <2> QED BY <2>1, Zenon DEF Min
<1> QED BY <1>4, <1>5, Zenon DEF LockfileIn

\* Beginning with a path.
LEMMA PrefixIs ==
  ASSUME NEW s \in Paths, NEW t \in Paths
  PROVE  IsPrefix(s, t) <=> Len(s) <= Len(t) /\ SubSeq(t, 1, Len(s)) = s
<1>1. SubSeq(s, 1, Len(s)) = s
  BY SubSeqFull DEF Paths
<1> QED BY <1>1 DEF IsPrefix

LEMMA CutIs ==
  ASSUME NEW t \in Paths, NEW m \in 0..Len(t)
  PROVE  /\ SubSeq(t, 1, m) \in Paths /\ Len(SubSeq(t, 1, m)) = m
         /\ \A i \in 1..m : SubSeq(t, 1, m)[i] = t[i]
         /\ \A n \in 0..m : SubSeq(SubSeq(t, 1, m), 1, n) = SubSeq(t, 1, n)
<1> DEFINE s == SubSeq(t, 1, m)
<1>1. Len(t) \in Nat /\ m \in Nat /\ \A i \in 1..m : t[i] \in STRING
  BY LenProperties, ElementOfSeq DEF Paths
<1>2. s \in Paths /\ Len(s) = m /\ \A i \in 1..m : s[i] = t[i]
  <2>1. /\ s \in Seq(STRING)
        /\ Len(s) = IF 1 <= m THEN m - 1 + 1 ELSE 0
        /\ \A i \in 1 .. m - 1 + 1 : s[i] = t[1 + i - 1]
    <3> HIDE DEF s
    <3>1. SubSeq(t, 1, m) = s
      BY DEF s
    <3>2. m \in Int /\ 1 \in Int
      BY <1>1
    <3> QED BY <1>1, <3>1, <3>2, SubSeqProperties
  <2> HIDE DEF s
  <2>2. m - 1 + 1 = m /\ \A i \in 1..m : 1 + i - 1 = i
    BY <1>1
  <2>3. Len(s) = m
    BY <1>1, <2>1
  <2> QED BY <2>1, <2>2, <2>3 DEF Paths
<1>3. ASSUME NEW n \in 0..m PROVE SubSeq(s, 1, n) = SubSeq(t, 1, n)
  <2>1. CASE n = 0
    <3>1. SubSeq(s, 1, 0) = <<>> /\ SubSeq(t, 1, 0) = <<>>
      BY SubSeqEmpty
    <3> QED BY <2>1, <3>1
  <2>2. CASE n # 0
    <3>1. 1 \in 1..Len(t) /\ m \in 1..Len(t) /\ 1 \in 1..(m - 1 + 1) /\ n \in 1..(m - 1 + 1)
      BY <1>1, <2>2
    <3>2. SubSeq(SubSeq(t, 1, m), 1, n) = SubSeq(t, 1 + 1 - 1, 1 + n - 1)
      BY <3>1, SubSeqOfSubSeq DEF Paths
    <3>3. 1 + 1 - 1 = 1 /\ 1 + n - 1 = n
      BY <1>1
    <3> QED BY <3>2, <3>3
  <2> QED BY <2>1, <2>2
<1> QED BY <1>2, <1>3

LEMMA RestIs ==
  ASSUME NEW t \in Paths, NEW n \in 1..(Len(t) + 1)
  PROVE  LET u == SubSeq(t, n, Len(t))
         IN  /\ u \in Paths /\ Len(u) = Len(t) - n + 1
             /\ \A i \in 1..(Len(t) - n + 1) : u[i] = t[n + i - 1]
<1> DEFINE m == Len(t)
           u == SubSeq(t, n, m)
<1>1. m \in Int /\ m \in Nat /\ n \in Int /\ n \in 1..(m + 1)
  <2>1. Len(t) \in Nat
    BY LenProperties DEF Paths
  <2> QED BY <2>1
<1>2. \A i \in n..m : t[i] \in STRING
  <2>1. \A i \in n..m : i \in 1..Len(t)
    BY <1>1
  <2> QED BY <2>1, ElementOfSeq DEF Paths
<1> HIDE DEF m
<1>3. /\ SubSeq(t, n, m) \in Seq(STRING)
      /\ Len(SubSeq(t, n, m)) = IF n <= m THEN m - n + 1 ELSE 0
      /\ \A i \in 1..(m - n + 1) : SubSeq(t, n, m)[i] = t[n + i - 1]
  BY <1>1, <1>2, SubSeqProperties
<1>4. (IF n <= m THEN m - n + 1 ELSE 0) = m - n + 1
  BY <1>1
<1> HIDE DEF u
<1>5. u \in Paths /\ Len(u) = m - n + 1 /\ \A i \in 1..(m - n + 1) : u[i] = t[n + i - 1]
  BY <1>3, <1>4 DEF u, Paths
<1> QED BY <1>5 DEF u, m

\* Directories are paths, and those on the way to one are there.
LEMMA DirsArePaths ==
  ASSUME NEW d \in DOMAIN Tree
  PROVE  /\ d \in Paths /\ Len(d) \in Nat
         /\ \A n \in 0..Len(d) : SubSeq(d, 1, n) \in DOMAIN Tree
         /\ Ancestors(d) \subseteq DOMAIN Tree
<1>1. d \in Paths /\ Len(d) \in Nat /\ \A n \in 0..Len(d) : SubSeq(d, 1, n) \in DOMAIN Tree
  BY TreeAssumption, LenProperties DEF Paths
<1> QED BY <1>1 DEF Ancestors

\* Where a scan may go on from d.
Enters(d, e) ==
  /\ Len(e) = Len(d) + 1 /\ IsPrefix(d, e) /\ Tree[d].readable /\ ~ Tree[e].link
  /\ Last(e) \notin Hidden \cup ScanSkippedDirs
Entering == {d \in (DOMAIN Tree) \X (DOMAIN Tree) : Enters(d[1], d[2])}

\* The walk gets wherever a scan may go, and nowhere else.
LEMMA WalkedIs ==
  ASSUME NEW scan \in DOMAIN Tree
  PROVE  Reached({scan}, Entering) = Walked(Tree, scan, None)
<1> DEFINE R == Reached({scan}, Entering)
           W == Walked(Tree, scan, None)
<1>1. IsFiniteSet(Entering)
  <2>1. IsFiniteSet((DOMAIN Tree) \X (DOMAIN Tree))
    BY TreeAssumption, FS_Product
  <2>2. Entering \subseteq (DOMAIN Tree) \X (DOMAIN Tree)
    BY DEF Entering
  <2> QED BY <2>1, <2>2, FS_Subset
<1>2. \A d \in DOMAIN Tree : d \in Paths /\ Len(d) \in Nat /\ \A n \in 0..Len(d) : SubSeq(d, 1, n) \in DOMAIN Tree
  BY TreeAssumption, LenProperties DEF Paths
<1> DEFINE May(d, n) == /\ d[n] \notin Hidden \cup ScanSkippedDirs
                        /\ Tree[SubSeq(d, 1, n - 1)].readable /\ ~ Tree[SubSeq(d, 1, n)].link
<1>3. \A d : d \in W <=> /\ d \in DOMAIN Tree /\ IsPrefix(scan, d)
                         /\ \A n \in (Len(scan) + 1)..Len(d) : May(d, n)
  BY Zenon DEF Walked
<1>4. R \subseteq W
  <2>1. scan \in W
    <3>1. IsPrefix(scan, scan)
      BY <1>2, PrefixIs, SubSeqFull DEF Paths
    <3>2. (Len(scan) + 1)..Len(scan) = {}
      BY <1>2
    <3> HIDE DEF W, May
    <3> QED BY <1>3, <3>1, <3>2
  <2>2. ASSUME NEW x \in Entering, x[1] \in W PROVE x[2] \in W
    <3> DEFINE d == x[1]
               e == x[2]
    <3>1. d \in DOMAIN Tree /\ e \in DOMAIN Tree /\ Enters(d, e)
      BY DEF Entering
    <3>2. Len(e) = Len(d) + 1 /\ SubSeq(e, 1, Len(d)) = d
      BY <1>2, <3>1, PrefixIs DEF Enters
    <3>3. Len(scan) <= Len(d) /\ SubSeq(d, 1, Len(scan)) = scan
      BY <1>2, <1>3, <2>2, <3>1, PrefixIs
    <3>4. Len(d) \in 0..Len(e) /\ Len(scan) \in 0..Len(d)
      BY <1>2, <3>1, <3>2, <3>3
    <3>5. /\ \A i \in 1..Len(d) : d[i] = e[i]
          /\ \A n \in 0..Len(d) : SubSeq(d, 1, n) = SubSeq(e, 1, n)
      <4>1. d \in Paths /\ e \in Paths
        BY <1>2, <3>1
      <4> HIDE DEF d, e
      <4> QED BY <3>2, <3>4, <4>1, CutIs
    <3>6. IsPrefix(scan, e)
      <4>1. SubSeq(e, 1, Len(scan)) = scan
        BY <3>3, <3>4, <3>5, Zenon
      <4>2. Len(scan) <= Len(e)
        <5> HIDE DEF d, e
        <5> QED BY <1>2, <3>1, <3>2, <3>3
      <4> QED BY <1>2, <3>1, <4>1, <4>2, PrefixIs
    <3>7. ASSUME NEW n \in (Len(scan) + 1)..Len(e) PROVE May(e, n)
      <4> HIDE DEF May, d, e
      <4>1. n \in Nat /\ Len(e) \in Nat /\ Len(d) \in Nat /\ Len(scan) \in Nat
        BY <1>2, <3>1
      <4>2. CASE n = Len(e)
        <5>1. n - 1 = Len(d) /\ SubSeq(e, 1, n - 1) = d /\ SubSeq(e, 1, n) = e
          <6>1. SubSeq(e, 1, Len(e)) = e
            BY <1>2, <3>1, SubSeqFull DEF Paths
          <6>2. n - 1 = Len(d)
            BY <4>1, <4>2, <3>2
          <6> QED BY <3>2, <4>2, <6>1, <6>2
        <5>2. e[n] \notin Hidden \cup ScanSkippedDirs /\ Tree[d].readable /\ ~ Tree[e].link
          BY <3>1, <4>2 DEF Enters, Last
        <5> QED BY <5>1, <5>2 DEF May
      <4>3. CASE n # Len(e)
        <5>1. n \in (Len(scan) + 1)..Len(d) /\ n \in 1..Len(d) /\ n \in 0..Len(d) /\ n - 1 \in 0..Len(d)
          BY <3>2, <4>1, <4>3
        <5>2. May(d, n)
          BY <1>3, <2>2, <5>1 DEF d
        <5>3. d[n] = e[n] /\ SubSeq(d, 1, n) = SubSeq(e, 1, n) /\ SubSeq(d, 1, n - 1) = SubSeq(e, 1, n - 1)
          BY <3>5, <5>1
        <5> QED BY <5>2, <5>3 DEF May
      <4> QED BY <4>2, <4>3
    <3> HIDE DEF May, W
    <3> QED BY <1>3, <3>1, <3>6, <3>7
  <2> HIDE DEF W
  <2> QED BY <1>1, <2>1, <2>2, ReachedIsLeast DEF Closed
<1>5. ASSUME NEW d \in W PROVE d \in R
  <2>1. d \in DOMAIN Tree /\ Len(scan) <= Len(d) /\ SubSeq(d, 1, Len(scan)) = scan
    BY <1>2, <1>3, PrefixIs
  <2>2. Len(d) \in Nat /\ Len(scan) \in Nat
    BY <1>2, <2>1
  <2> DEFINE K == {k \in Nat : Len(scan) + k <= Len(d) => SubSeq(d, 1, Len(scan) + k) \in R}
  <2>3. {scan} \subseteq R /\ Closed(R, Entering)
    BY <1>1, ReachedIs
  <2> HIDE DEF R
  <2>4. 0 \in K
    <3>1. Len(scan) + 0 = Len(scan)
      BY <2>2
    <3> QED BY <2>1, <2>3, <3>1
  <2>5. ASSUME NEW k \in Nat, k \in K PROVE k + 1 \in K
    <3> SUFFICES ASSUME Len(scan) + (k + 1) <= Len(d)
                 PROVE  SubSeq(d, 1, Len(scan) + (k + 1)) \in R
      OBVIOUS
    <3> DEFINE m == Len(scan) + k
               n == Len(scan) + (k + 1)
               a == SubSeq(d, 1, m)
               b == SubSeq(d, 1, n)
    <3>1. m \in 0..Len(d) /\ n \in 0..Len(d) /\ n = m + 1 /\ m \in 0..n /\ n \in 1..n /\ n - 1 = m
          /\ n \in (Len(scan) + 1)..Len(d)
      BY <2>2
    <3>2. a \in R
      BY <2>2, <2>5
    <3>3. a \in DOMAIN Tree /\ b \in DOMAIN Tree
      BY <1>2, <2>1, <3>1
    <3>4. May(d, n)
      BY <1>3, <3>1
    <3> HIDE DEF m, n
    <3>5. /\ a \in Paths /\ Len(a) = m /\ b \in Paths /\ Len(b) = n
          /\ SubSeq(b, 1, m) = a /\ b[n] = d[n]
      BY <1>2, <2>1, <3>1, CutIs
    <3>6. Enters(a, b)
      <4>1. IsPrefix(a, b) /\ Len(b) = Len(a) + 1
        <5> HIDE DEF a, b
        <5> QED BY <3>1, <3>5, PrefixIs
      <4>2. Tree[a].readable /\ ~ Tree[b].link /\ Last(b) \notin Hidden \cup ScanSkippedDirs
        <5>1. Last(b) = d[n]
          BY <3>5 DEF Last
        <5> QED BY <3>1, <3>4, <5>1
      <4> HIDE DEF a, b
      <4> QED BY <4>1, <4>2 DEF Enters
    <3> HIDE DEF a, b
    <3>7. <<a, b>> \in Entering
      BY <3>3, <3>6 DEF Entering
    <3>8. b \in R
      BY <2>3, <3>2, <3>7 DEF Closed
    <3> QED BY <3>8 DEF b, n
  <2>6. Nat \subseteq K
    <3> HIDE DEF K
    <3> QED BY <2>4, <2>5, Induction
  <2>7. SubSeq(d, 1, Len(scan) + (Len(d) - Len(scan))) \in R
    <3> DEFINE k == Len(d) - Len(scan)
    <3>1. k \in K /\ Len(scan) + k <= Len(d)
      <4>1. k \in Nat
        BY <2>1, <2>2
      <4> QED BY <2>2, <2>6, <4>1
    <3> QED BY <3>1
  <2>8. Len(scan) + (Len(d) - Len(scan)) = Len(d) /\ SubSeq(d, 1, Len(d)) = d
    BY <1>2, <2>1, <2>2, SubSeqFull DEF Paths
  <2> QED BY <2>7, <2>8
<1> QED BY <1>4, <1>5

\* The lock that is found in a directory is one, and lies there.
LEMMA LockIsThere ==
  ASSUME NEW tree, NEW d \in DOMAIN Tree, tree[d].named = Tree[d].named, HasLock(tree, d)
  PROVE  /\ LockfileIn(tree, d) # None
         /\ LockfileIn(tree, d).dir = d
<1>1. PICK n \in KindsIn(tree, d) :
        LET kind == LockfileKinds[n]
        IN  LockfileIn(tree, d) =
              Lockfile(d, kind, IF kind \in tree[d].files THEN None ELSE Head(NamedIn(tree, d)))
  BY LockIs, Zenon
<1> DEFINE kind == LockfileKinds[n]
           name == IF kind \in tree[d].files THEN None ELSE Head(NamedIn(tree, d))
<1>2. kind \in Values(LockfileKinds)
  BY Zenon DEF KindsIn, Values
<1>3. name \in {None} \cup Values(Tree[d].named)
  <2>1. CASE kind \in tree[d].files
    BY <2>1
  <2>2. CASE kind \notin tree[d].files
    <3>1. NamedIn(tree, d) # <<>>
      BY <2>2, Zenon DEF KindsIn
    <3>2. NamedIn(tree, d) = Tree[d].named
      BY <3>1 DEF NamedIn
    <3>3. Tree[d].named \in Seq(STRING)
      BY TreeAssumption
    <3>4. 1 \in DOMAIN Tree[d].named /\ Head(Tree[d].named) = Tree[d].named[1]
      <4> DEFINE s == Tree[d].named
      <4>1. s \in Seq(STRING) /\ s # <<>>
        BY <3>1, <3>2, <3>3
      <4> HIDE DEF s
      <4>2. 1 \in DOMAIN s /\ Head(s) = s[1]
        BY <4>1
      <4> QED BY <4>2 DEF s
    <3>5. name = Tree[d].named[1]
      BY <2>2, <3>2, <3>4
    <3> HIDE DEF name
    <3> QED BY <3>4, <3>5, Zenon DEF Values
  <2> QED BY <2>1, <2>2
<1>4. Lockfile(d, kind, name) # None
  <2> HIDE DEF kind, name
  <2> QED BY <1>2, <1>3, NothingAssumption
<1>5. LockfileIn(tree, d) = Lockfile(d, kind, name)
  BY <1>1
<1> HIDE DEF kind, name
<1> QED BY <1>4, <1>5 DEF Lockfile

\* The locks of a scan are those of the directories it gets to, one of each.
LEMMA ScannedAre ==
  ASSUME NEW scan \in DOMAIN Tree, NEW depth, depth # None => depth \in Nat
  PROVE  LET locks == ScanTree(Tree, scan, depth)
         IN  /\ {l.dir : l \in locks} =
                  {d \in Walked(Tree, scan, None) :
                     HasLock(Tree, d) /\ (depth # None => Len(d) - Len(scan) <= depth)}
             /\ Cardinality({l.dir : l \in locks}) = Cardinality(locks)
             /\ \A l \in locks : l.dir \in Walked(Tree, scan, None) /\ l = LockfileIn(Tree, l.dir)
<1> DEFINE locks == ScanTree(Tree, scan, depth)
           dirs == {d \in Walked(Tree, scan, None) :
                      HasLock(Tree, d) /\ (depth # None => Len(d) - Len(scan) <= depth)}
<1>1. \A d \in DOMAIN Tree : Len(d) \in Nat
  BY TreeAssumption, LenProperties
<1>2. Walked(Tree, scan, depth)
        = {d \in Walked(Tree, scan, None) : depth # None => Len(d) - Len(scan) <= depth}
  <2>1. \A d \in DOMAIN Tree : (depth # None => Len(d) <= Len(scan) + depth)
                                 <=> (depth # None => Len(d) - Len(scan) <= depth)
    BY <1>1
  <2> QED BY <2>1, Zenon DEF Walked
<1>3. dirs \subseteq DOMAIN Tree
  BY Zenon DEF Walked
<1>4. locks = {LockfileIn(Tree, d) : d \in dirs}
  <2>1. \A d \in Walked(Tree, scan, depth) :
          /\ ~ HasLock(Tree, d) => LockfileIn(Tree, d) = None
          /\ HasLock(Tree, d) => LockfileIn(Tree, d) # None
    <3>1. Walked(Tree, scan, depth) \subseteq DOMAIN Tree
      BY Zenon DEF Walked
    <3>2. \A d \in DOMAIN Tree : HasLock(Tree, d) => LockfileIn(Tree, d) # None
      BY LockIsThere, Zenon
    <3>3. \A d : ~ HasLock(Tree, d) => LockfileIn(Tree, d) = None
      BY LockIs, Zenon
    <3> QED BY <3>1, <3>2, <3>3, Zenon
  <2>2. dirs = {d \in Walked(Tree, scan, depth) : HasLock(Tree, d)}
    <3>1. \A d : d \in dirs <=> d \in Walked(Tree, scan, depth) /\ HasLock(Tree, d)
      BY <1>2, Zenon
    <3> HIDE DEF dirs
    <3> QED BY <3>1, Zenon
  <2> HIDE DEF dirs
  <2>3. \A l : l \in locks <=> \E d \in dirs : l = LockfileIn(Tree, d)
    BY <2>1, <2>2, Zenon DEF ScanTree
  <2> HIDE DEF locks
  <2> QED BY <2>3, Zenon
<1>5. \A d \in dirs : LockfileIn(Tree, d).dir = d
  BY <1>3, LockIsThere, Zenon
<1>6. IsFiniteSet(dirs)
  BY <1>3, TreeAssumption, FS_Subset
<1> HIDE DEF locks, dirs
<1>7. {l.dir : l \in locks} = dirs
  BY <1>4, <1>5
<1>8. \A l \in locks : l.dir \in dirs /\ l = LockfileIn(Tree, l.dir)
  BY <1>4, <1>5
<1>9. Cardinality(locks) = Cardinality(dirs)
  <2> DEFINE f == [d \in dirs |-> LockfileIn(Tree, d)]
  <2>1. f \in Bijection(dirs, locks)
    BY <1>4, <1>5 DEF Bijection, Injection, Surjection, IsInjective
  <2> HIDE DEF f
  <2>2. ExistsBijection(dirs, locks)
    BY <2>1, Zenon DEF ExistsBijection
  <2> QED BY <1>6, <2>2, FS_Bijection
<1>10. dirs \subseteq Walked(Tree, scan, None)
  BY DEF dirs
<1>11. /\ {l.dir : l \in locks} = dirs
       /\ Cardinality({l.dir : l \in locks}) = Cardinality(locks)
       /\ \A l \in locks : l.dir \in Walked(Tree, scan, None) /\ l = LockfileIn(Tree, l.dir)
  BY <1>7, <1>8, <1>9, <1>10
<1> QED BY <1>11 DEF locks, dirs

\* Of two joined names that are one, the shorter end is the end of the longer.
LEMMA EndsWith ==
  ASSUME NEW a \in Paths, NEW b \in Paths, NEW s \in Paths, NEW t \in Paths, a \o s = b \o t,
         Len(s) <= Len(t)
  PROVE  \E n \in 1..(Len(t) + 1) : SubSeq(t, n, Len(t)) = s
<1> DEFINE n == Len(t) - Len(s) + 1
           u == SubSeq(t, n, Len(t))
<1>1. Len(a) \in Nat /\ Len(b) \in Nat /\ Len(s) \in Nat /\ Len(t) \in Nat
  BY LenProperties DEF Paths
<1>2. n \in 1..(Len(t) + 1) /\ n \in Int /\ Len(t) \in Int
  BY <1>1
<1>3. n \in 1..(Len(t) + 1)
  BY <1>2
<1>4. /\ u \in Paths /\ Len(u) = Len(t) - n + 1
      /\ \A i \in 1..(Len(t) - n + 1) : u[i] = t[n + i - 1]
  <2> HIDE DEF n
  <2> QED BY <1>3, RestIs
<1>5. Len(u) = Len(s)
  <2> HIDE DEF u
  <2> QED BY <1>1, <1>4
<1>6. Len(a) + Len(s) = Len(b) + Len(t)
  <2>1. Len(a \o s) = Len(a) + Len(s) /\ Len(b \o t) = Len(b) + Len(t)
    BY ConcatProperties DEF Paths
  <2> QED BY <2>1
<1>7. ASSUME NEW i \in 1..Len(s) PROVE s[i] = u[i]
  <2>1. Len(a) + i \in 1..(Len(a) + Len(s)) /\ Len(a) + i \in 1..(Len(b) + Len(t))
    BY <1>1, <1>6
  <2>2. (a \o s)[Len(a) + i] = s[i]
    <3>1. (a \o s)[Len(a) + i] = IF Len(a) + i <= Len(a) THEN a[Len(a) + i] ELSE s[Len(a) + i - Len(a)]
      BY <2>1, ConcatProperties DEF Paths
    <3>2. ~ (Len(a) + i <= Len(a)) /\ Len(a) + i - Len(a) = i
      BY <1>1
    <3> QED BY <3>1, <3>2
  <2>3. (b \o t)[Len(a) + i] = t[Len(a) + i - Len(b)]
    <3>1. (b \o t)[Len(a) + i] = IF Len(a) + i <= Len(b) THEN b[Len(a) + i] ELSE t[Len(a) + i - Len(b)]
      BY <2>1, ConcatProperties DEF Paths
    <3>2. ~ (Len(a) + i <= Len(b))
      BY <1>1, <1>6
    <3> QED BY <3>1, <3>2
  <2>4. Len(a) + i - Len(b) = n + i - 1 /\ i \in 1..(Len(t) - n + 1)
    <3>1. \A A, B, S, T \in Nat : \A k \in 1..S :
            A + S = B + T => /\ A + k - B = (T - S + 1) + k - 1
                             /\ k \in 1..(T - (T - S + 1) + 1)
      OBVIOUS
    <3> QED BY <1>1, <1>6, <3>1
  <2> HIDE DEF u, n
  <2>5. u[i] = t[n + i - 1]
    BY <1>4, <2>4
  <2> QED BY <2>2, <2>3, <2>4, <2>5
<1> HIDE DEF u
<1>8. s = u
  BY <1>4, <1>5, <1>7, SeqEqual DEF Paths
<1> HIDE DEF n
<1> QED BY <1>2, <1>8 DEF u

\* Of names that are joined, none ending in another's last part, each is joined of one pair.
LEMMA JoinsApart ==
  ASSUME NEW e \in Paths, NEW f \in Paths, NEW p \in Paths, NEW q \in Paths, e \o p = f \o q,
         \A n \in 1..(Len(q) + 1) : SubSeq(q, n, Len(q)) = p => p = q,
         \A n \in 1..(Len(p) + 1) : SubSeq(p, n, Len(p)) = q => p = q
  PROVE  e = f /\ p = q
<1>1. Len(p) \in Nat /\ Len(q) \in Nat
  BY LenProperties DEF Paths
<1> DEFINE Ends(s, t) == \E n \in 1..(Len(t) + 1) : SubSeq(t, n, Len(t)) = s
<1>2. \A a \in Paths : \A b \in Paths : \A s \in Paths : \A t \in Paths :
        a \o s = b \o t => (Len(s) <= Len(t) => Ends(s, t))
  BY EndsWith, Zenon
<1> HIDE DEF Ends
<1>3. e \o p = f \o q => (Len(p) <= Len(q) => Ends(p, q))
  BY <1>2
<1>4. f \o q = e \o p => (Len(q) <= Len(p) => Ends(q, p))
  BY <1>2
<1>5. p = q
  <2>1. CASE Len(p) <= Len(q)
    <3>1. \E n \in 1..(Len(q) + 1) : SubSeq(q, n, Len(q)) = p
      BY <1>3, <2>1, Zenon DEF Ends
    <3> QED BY <3>1, Zenon
  <2>2. CASE Len(q) <= Len(p)
    <3>1. \E n \in 1..(Len(p) + 1) : SubSeq(p, n, Len(p)) = q
      <4>1. f \o q = e \o p
        OBVIOUS
      <4> QED BY <1>4, <2>2, <4>1, Zenon DEF Ends
    <3> QED BY <3>1, Zenon
  <2> QED BY <1>1, <2>1, <2>2
<1>6. e = f
  <2>1. e \o p = f \o p
    BY <1>5
  <2>2. \A s, t, v \in Seq(STRING) : s \o v = t \o v => s = t
    BY ConcatSimplifications
  <2>3. e \in Seq(STRING) /\ f \in Seq(STRING) /\ p \in Seq(STRING)
    BY DEF Paths
  <2> HIDE DEF Paths
  <2> QED BY <2>1, <2>2, <2>3, Zenon
<1> QED BY <1>5, <1>6

\* The nearest of the directories above one is among them.
LEMMA NearestIs ==
  ASSUME NEW start \in Paths, NEW S, S \subseteq Ancestors(start), S # {}
  PROVE  Nearest(S) \in S /\ \A d \in S : Len(d) <= Len(Nearest(S))
<1> DEFINE m == Len(start)
           Up(d) == m - Len(d) + 1
           N == {Up(d) : d \in S}
<1>1. m \in Nat
  BY LenProperties DEF Paths
<1>2. \A d \in S : Len(d) \in 0..m
  BY CutIs DEF Ancestors
<1>3. \A d \in S : Up(d) \in 1..(m + 1)
  <2> HIDE DEF m
  <2> QED BY <1>1, <1>2
<1>4. PICK i \in N : \A j \in N : i <= j
  <2>1. N \subseteq 1..(m + 1) /\ N # {}
    <3> HIDE DEF Up
    <3> QED BY <1>3
  <2>2. m + 1 \in Nat
    BY <1>1
  <2> HIDE DEF N, m
  <2> QED BY <2>1, <2>2, LeastOf
<1>5. PICK d \in S : i = Up(d)
  OBVIOUS
<1>6. \A e \in S : Len(e) <= Len(d)
  <2> SUFFICES ASSUME NEW e \in S PROVE Len(e) <= Len(d)
    OBVIOUS
  <2>1. Up(d) <= Up(e)
    BY <1>4, <1>5
  <2> HIDE DEF m
  <2> QED BY <1>1, <1>2, <2>1
<1> QED BY <1>6, Zenon DEF Nearest

\* The lock that is found upward is that of the nearest directory that has one.
LEMMA UpwardIs ==
  ASSUME NEW tree, NEW start \in DOMAIN Tree,
         \A d \in Ancestors(start) : tree[d].named = Tree[d].named
  PROVE  LET lock == FindUpward(tree, start)
         IN  /\ lock = None <=> \A d \in Ancestors(start) : ~ HasLock(tree, d)
             /\ lock # None =>
                  /\ lock.dir \in Ancestors(start) /\ HasLock(tree, lock.dir)
                  /\ lock = LockfileIn(tree, lock.dir)
                  /\ \A d \in Ancestors(start) : HasLock(tree, d) => Len(d) <= Len(lock.dir)
<1> DEFINE lock == FindUpward(tree, start)
           holding == {d \in Ancestors(start) : LockfileIn(tree, d) # None}
<1>1. start \in Paths /\ Ancestors(start) \subseteq DOMAIN Tree
  BY DirsArePaths
<1>2. \A d \in Ancestors(start) : LockfileIn(tree, d) # None <=> HasLock(tree, d)
  <2> SUFFICES ASSUME NEW d \in Ancestors(start) PROVE LockfileIn(tree, d) # None <=> HasLock(tree, d)
    OBVIOUS
  <2>1. CASE HasLock(tree, d)
    BY <1>1, <2>1, LockIsThere
  <2>2. CASE ~ HasLock(tree, d)
    BY <2>2, LockIs
  <2> QED BY <2>1, <2>2
<1>3. \A d : d \in holding <=> d \in Ancestors(start) /\ HasLock(tree, d)
  BY <1>2
<1>4. lock = IF holding = {} THEN None ELSE LockfileIn(tree, Nearest(holding))
  BY Zenon DEF FindUpward
<1>5. holding \subseteq Ancestors(start)
  OBVIOUS
<1> HIDE DEF lock, holding
<1>6. CASE holding = {}
  BY <1>3, <1>4, <1>6 DEF lock
<1>7. CASE holding # {}
  <2> DEFINE d == Nearest(holding)
  <2>1. d \in holding /\ \A e \in holding : Len(e) <= Len(d)
    BY <1>1, <1>5, <1>7, NearestIs
  <2> HIDE DEF d
  <2>2. LockfileIn(tree, d) # None /\ LockfileIn(tree, d).dir = d
    BY <1>1, <1>3, <2>1, LockIsThere
  <2>3. lock = LockfileIn(tree, d)
    BY <1>4, <1>7 DEF d
  <2>4. /\ lock # None
        /\ lock.dir \in Ancestors(start) /\ HasLock(tree, lock.dir)
        /\ lock = LockfileIn(tree, lock.dir)
        /\ \A e \in Ancestors(start) : HasLock(tree, e) => Len(e) <= Len(lock.dir)
    BY <1>3, <2>1, <2>2, <2>3
  <2> QED BY <2>4 DEF lock
<1> QED BY <1>6, <1>7

\* The environments of a lock, as TreeAssumption has them.
AreEnvironments(environments) ==
  /\ DOMAIN environments \subseteq Paths
  /\ \A e, f \in DOMAIN environments : \A p \in environments[e], q \in environments[f] :
       p \in Paths /\ \A n \in 1..(Len(q) + 1) : SubSeq(q, n, Len(q)) = p => p = q

\* A document is named for what it is of, and standard output is no such name.
LEMMA NamesApart ==
  /\ \A s \in Paths, t \in Paths : FileName(s) = FileName(t) => s = t
  /\ \A s \in Paths : \A d : FileIn(d, s) # FileAt(Stdout)
<1> DEFINE Words == STRING \cup {"sbom"}
<1>1. <<"sbom">> \in Seq(Words)
  <2>1. "sbom" \in Words
    OBVIOUS
  <2> HIDE DEF Words
  <2> QED BY <2>1
<1>4. \A s \in Paths : s \in Seq(Words)
  <2>1. STRING \subseteq Words
    OBVIOUS
  <2> HIDE DEF Words
  <2> QED BY <2>1, SeqMonotonic DEF Paths
<1> HIDE DEF Words
<1>2. ASSUME NEW s \in Paths, NEW t \in Paths, FileName(s) = FileName(t) PROVE s = t
  <2>1. \A u, v, w \in Seq(Words) : u \o v = u \o w => v = w
    BY ConcatSimplifications
  <2> DEFINE h == <<"sbom">>
  <2>2. h \o s = h \o t
    BY <1>2 DEF FileName
  <2>3. h \in Seq(Words) /\ s \in Seq(Words) /\ t \in Seq(Words)
    BY <1>1, <1>4
  <2> HIDE DEF h
  <2> QED BY <2>1, <2>2, <2>3, Zenon
<1>3. ASSUME NEW s \in Paths, NEW d PROVE FileIn(d, s) # FileAt(Stdout)
  <2>1. (<<"sbom">> \o s)[1] = "sbom"
    <3> DEFINE h == <<"sbom">>
    <3>1. h \in Seq(Words) /\ Len(h) = 1 /\ h[1] = "sbom"
      BY <1>1
    <3>4. s \in Seq(Words) /\ Len(s) \in Nat
      BY <1>4, LenProperties
    <3> HIDE DEF h
    <3>2. (h \o s)[1] = IF 1 <= Len(h) THEN h[1] ELSE s[1 - Len(h)]
      <4>1. 1 \in 1..(Len(h) + Len(s))
        BY <3>1, <3>4
      <4> QED BY <3>1, <3>4, <4>1, ConcatProperties
    <3> QED BY <3>1, <3>2 DEF h
  <2>2. Last(Stdout) = "-"
    BY DEF Last, Stdout
  <2>3. FileAt(Stdout).name[1] = "-"
    BY <2>2 DEF FileAt
  <2>4. FileIn(d, s).name[1] = "sbom"
    BY <2>1 DEF FileIn, FileName
  <2> QED BY <2>3, <2>4
<1> QED BY <1>2, <1>3

Batch(args) == args.allEnvironments \/ args.allPlatforms

\* The documents of a pixi.lock go to files of their own, one for every environment
\* and platform that is asked for.
LEMMA ResolvedIs ==
  ASSUME NEW args, NEW environments, NEW lockfile, NEW dir,
         args.allEnvironments \in BOOLEAN, args.allPlatforms \in BOOLEAN,
         AreEnvironments(environments), ~ Unresolvable(args, environments)
  PROVE  LET targets == ResolveTargets(args, environments, lockfile, dir)
         IN  /\ \A x, y \in targets : x.output = y.output => x = y
             /\ (Batch(args) \/ dir # None) => \A x \in targets : x.output # FileAt(Stdout)
             /\ ~ Batch(args) => \E t : targets = {t}
             /\ (args.allEnvironments /\ args.allPlatforms) =>
                  {<<t.environment, t.platform>> : t \in targets}
                    = UNION {{e} \X environments[e] : e \in DOMAIN environments}
             /\ dir # None => \A x \in targets : x.output.dir = dir
<1> DEFINE chosen == IF args.allEnvironments THEN DOMAIN environments ELSE {args.environment}
           Platforms(e) == IF args.allPlatforms THEN environments[e] ELSE {args.platform}
           Labels(e, p) == (IF args.allEnvironments THEN e ELSE <<>>)
                             \o (IF args.allPlatforms THEN p ELSE <<>>)
           Output(e, p) ==
             CASE dir # None -> FileIn(dir, IF Batch(args) THEN Labels(e, p) ELSE <<>>)
               [] dir = None /\ Batch(args) -> ResolveBatchOutput(args, lockfile.dir, Labels(e, p))
               [] OTHER -> ResolveOutput(args, lockfile.dir)
           Of(e, p) == Target(e, p, Output(e, p))
           targets == ResolveTargets(args, environments, lockfile, dir)
           IsPair(e, p) == e \in chosen /\ p \in Platforms(e)
           into == IF dir # None THEN dir ELSE IF args.output # None THEN args.output ELSE lockfile.dir
<1>1. targets = UNION {{Of(e, p) : p \in Platforms(e)} : e \in chosen}
  BY Zenon DEF ResolveTargets, Batch
<1>2. \A t : t \in targets <=> \E e, p : IsPair(e, p) /\ t = Of(e, p)
  <2>1. \A t : t \in targets <=> \E e \in chosen : \E p \in Platforms(e) : t = Of(e, p)
    <3> DEFINE At(e) == {Of(e, p) : p \in Platforms(e)}
    <3>1. \A t, e : t \in At(e) <=> \E p \in Platforms(e) : t = Of(e, p)
      <4> HIDE DEF Platforms, Of
      <4> QED OBVIOUS
    <3>2. targets = UNION {At(e) : e \in chosen}
      BY <1>1, Zenon
    <3> HIDE DEF targets, chosen, Platforms, Of, At
    <3>3. \A t : t \in targets <=> \E e \in chosen : t \in At(e)
      BY <3>2
    <3> QED BY <3>1, <3>3
  <2> HIDE DEF targets, chosen, Platforms, Of
  <2>2. \A e, p : IsPair(e, p) <=> e \in chosen /\ p \in Platforms(e)
    OBVIOUS
  <2> HIDE DEF IsPair
  <2> QED BY <2>1, <2>2
<1>3. \A e, p : Of(e, p).environment = e /\ Of(e, p).platform = p /\ Of(e, p).output = Output(e, p)
  <2> HIDE DEF Output
  <2> QED BY DEF Target
<1>4. ASSUME NEW e, NEW p, IsPair(e, p)
      PROVE  /\ args.allEnvironments \/ args.allPlatforms => e \in DOMAIN environments
             /\ args.allPlatforms => p \in environments[e]
             /\ args.allEnvironments => e \in Paths
             /\ args.allPlatforms => p \in Paths
             /\ Batch(args) => Labels(e, p) \in Paths
  <2>1. args.allPlatforms /\ ~ args.allEnvironments => args.environment \in DOMAIN environments
    BY DEF Unresolvable
  <2>2. args.allEnvironments \/ args.allPlatforms => e \in DOMAIN environments
    BY <1>4, <2>1
  <2>3. args.allPlatforms => p \in environments[e]
    BY <1>4
  <2>4. args.allEnvironments => e \in Paths
    BY <2>2 DEF AreEnvironments
  <2>5. args.allPlatforms => p \in Paths
    BY <2>2, <2>3 DEF AreEnvironments
  <2>6. Labels(e, p) \in Paths
    <3>1. <<>> \in Seq(STRING)
      BY EmptySeq
    <3> DEFINE a == IF args.allEnvironments THEN e ELSE <<>>
               b == IF args.allPlatforms THEN p ELSE <<>>
    <3>2. a \in Seq(STRING) /\ b \in Seq(STRING)
      BY <2>4, <2>5, <3>1 DEF Paths
    <3> HIDE DEF a, b
    <3>3. a \o b \in Seq(STRING)
      BY <3>2, ConcatProperties
    <3> QED BY <3>3 DEF a, b, Paths
  <2> QED BY <2>2, <2>3, <2>4, <2>5, <2>6
<1>5. ASSUME NEW e, NEW p, NEW f, NEW q, IsPair(e, p), IsPair(f, q), Batch(args), Labels(e, p) = Labels(f, q)
      PROVE  e = f /\ p = q
  <2>1. \A s \in Paths : s \o <<>> = s /\ <<>> \o s = s
    BY ConcatEmptySeq DEF Paths
  <2>2. CASE args.allEnvironments /\ args.allPlatforms
    <3>1. /\ e \in Paths /\ p \in Paths /\ f \in Paths /\ q \in Paths
          /\ e \in DOMAIN environments /\ f \in DOMAIN environments
          /\ p \in environments[e] /\ q \in environments[f]
      BY <1>4, <1>5, <2>2
    <3>2. /\ \A n \in 1..(Len(q) + 1) : SubSeq(q, n, Len(q)) = p => p = q
          /\ \A n \in 1..(Len(p) + 1) : SubSeq(p, n, Len(p)) = q => p = q
      <4>1. \A n \in 1..(Len(q) + 1) : SubSeq(q, n, Len(q)) = p => p = q
        BY <3>1 DEF AreEnvironments
      <4>2. \A n \in 1..(Len(p) + 1) : SubSeq(p, n, Len(p)) = q => q = p
        BY <3>1 DEF AreEnvironments
      <4> QED BY <4>1, <4>2
    <3>3. e \o p = f \o q
      BY <1>5, <2>2
    <3> QED BY <3>1, <3>2, <3>3, JoinsApart
  <2>3. CASE args.allEnvironments /\ ~ args.allPlatforms
    <3>1. e \in Paths /\ f \in Paths /\ p = q
      BY <1>4, <1>5, <2>3
    <3>2. e \o <<>> = f \o <<>>
      BY <1>5, <2>3
    <3> QED BY <2>1, <3>1, <3>2
  <2>4. CASE ~ args.allEnvironments /\ args.allPlatforms
    <3>1. p \in Paths /\ q \in Paths /\ e = f
      BY <1>4, <1>5, <2>4
    <3>2. <<>> \o p = <<>> \o q
      BY <1>5, <2>4
    <3> QED BY <2>1, <3>1, <3>2
  <2> QED BY <1>5, <2>2, <2>3, <2>4 DEF Batch
<1>6. Batch(args) => \A e, p : Output(e, p) = FileIn(into, Labels(e, p))
  <2> HIDE DEF Labels
  <2> QED BY DEF ResolveBatchOutput
<1>7. (~ Batch(args) /\ dir # None) => \A e, p : Output(e, p) = FileIn(into, <<>>)
  <2> HIDE DEF Labels
  <2> QED OBVIOUS
<1>8. ~ Batch(args) => \A e, p : IsPair(e, p) <=> e = args.environment /\ p = args.platform
  BY DEF Batch
<1>9. (args.allEnvironments /\ args.allPlatforms) =>
        \A e, p : IsPair(e, p) <=> e \in DOMAIN environments /\ p \in environments[e]
  OBVIOUS
<1>10. Batch(args) \in BOOLEAN
  BY DEF Batch
<1> HIDE DEF chosen, Platforms, Labels, Output, Of, targets, IsPair, into
<1>11. \A x, y \in targets : x.output = y.output => x = y
  <2> SUFFICES ASSUME NEW x \in targets, NEW y \in targets, x.output = y.output
               PROVE  x = y
    OBVIOUS
  <2>1. PICK e, p : IsPair(e, p) /\ x = Of(e, p)
    BY <1>2
  <2>2. PICK f, q : IsPair(f, q) /\ y = Of(f, q)
    BY <1>2
  <2>3. CASE Batch(args)
    <3>1. FileIn(into, Labels(e, p)) = FileIn(into, Labels(f, q))
      BY <1>3, <1>6, <2>1, <2>2, <2>3
    <3>2. FileName(Labels(e, p)) = FileName(Labels(f, q))
      BY <3>1 DEF FileIn
    <3>3. Labels(e, p) = Labels(f, q)
      BY <1>4, <2>1, <2>2, <2>3, <3>2, NamesApart
    <3> QED BY <1>5, <2>1, <2>2, <2>3, <3>3
  <2>4. CASE ~ Batch(args)
    BY <1>8, <2>1, <2>2, <2>4
  <2> QED BY <2>3, <2>4
<1>12. (Batch(args) \/ dir # None) => \A x \in targets : x.output # FileAt(Stdout)
  <2> SUFFICES ASSUME Batch(args) \/ dir # None, NEW x \in targets
               PROVE  x.output # FileAt(Stdout)
    OBVIOUS
  <2>1. PICK e, p : IsPair(e, p) /\ x = Of(e, p)
    BY <1>2
  <2>2. <<>> \in Paths
    BY EmptySeq DEF Paths
  <2>3. \E s \in Paths : x.output = FileIn(into, s)
    <3>1. CASE Batch(args)
      BY <1>3, <1>4, <1>6, <2>1, <3>1
    <3>2. CASE ~ Batch(args)
      BY <1>3, <1>7, <2>1, <2>2, <3>2
    <3> QED BY <3>1, <3>2
  <2> QED BY <2>3, NamesApart
<1>13. ~ Batch(args) => \E t : targets = {t}
  <2> SUFFICES ASSUME ~ Batch(args) PROVE targets = {Of(args.environment, args.platform)}
    OBVIOUS
  <2>1. \A t : t \in targets <=> t = Of(args.environment, args.platform)
    BY <1>2, <1>8
  <2> QED BY <2>1
<1>14. (args.allEnvironments /\ args.allPlatforms) =>
         {<<t.environment, t.platform>> : t \in targets}
           = UNION {{e} \X environments[e] : e \in DOMAIN environments}
  <2> SUFFICES ASSUME args.allEnvironments /\ args.allPlatforms
               PROVE  {<<t.environment, t.platform>> : t \in targets}
                        = UNION {{e} \X environments[e] : e \in DOMAIN environments}
    OBVIOUS
  <2>1. \A e, p : IsPair(e, p) <=> e \in DOMAIN environments /\ p \in environments[e]
    BY <1>9
  <2>2. \A t \in targets : \E e \in DOMAIN environments : \E p \in environments[e] :
           <<t.environment, t.platform>> = <<e, p>>
    BY <1>2, <1>3, <2>1
  <2>3. \A e \in DOMAIN environments : \A p \in environments[e] :
           \E t \in targets : <<t.environment, t.platform>> = <<e, p>>
    <3> SUFFICES ASSUME NEW e \in DOMAIN environments, NEW p \in environments[e]
                 PROVE  \E t \in targets : <<t.environment, t.platform>> = <<e, p>>
      OBVIOUS
    <3>1. Of(e, p) \in targets
      BY <1>2, <2>1
    <3>2. <<Of(e, p).environment, Of(e, p).platform>> = <<e, p>>
      BY <1>3
    <3> QED BY <3>1, <3>2
  <2> QED BY <2>2, <2>3
<1>15. dir # None => \A x \in targets : x.output.dir = dir
  <2> SUFFICES ASSUME dir # None, NEW x \in targets PROVE x.output.dir = dir
    OBVIOUS
  <2>1. PICK e, p : IsPair(e, p) /\ x = Of(e, p)
    BY <1>2
  <2>2. \E s : x.output = FileIn(into, s)
    BY <1>3, <1>6, <1>7, <1>10, <2>1
  <2> QED BY <2>2 DEF FileIn, into
<1> QED BY <1>11, <1>12, <1>13, <1>14, <1>15 DEF targets

\* Everything that is written, [lock, target].
Every(workspaces) == UNION {{w.lockfile} \X w.targets : w \in workspaces}

\* What DocumentsGoApart says of the files, and of the environments.
GoApart(workspaces) ==
  /\ \A x, y \in Every(workspaces) : x[2].output = y[2].output => x = y
  /\ (\E x \in Every(workspaces) : x[2].output = FileAt(Stdout)) => Cardinality(Every(workspaces)) = 1

Pairs(l) == UNION {{e} \X Tree[l.dir].environments[e] : e \in DOMAIN Tree[l.dir].environments}
EachIsWritten(args, workspaces) ==
  (args.allEnvironments /\ args.allPlatforms /\ ~ args.merge) =>
    \A w \in workspaces : w.lockfile.kind = "pixi.lock" =>
      {<<t.environment, t.platform>> : t \in w.targets} = Pairs(w.lockfile)

\* The targets of a lock in d that no flag forbids, whether it is scanned or not.
LEMMA EnvironmentsAre ==
  ASSUME NEW d \in DOMAIN Tree
  PROVE  AreEnvironments(Tree[d].environments)
BY TreeAssumption DEF AreEnvironments, Paths

LEMMA SingleGoesApart ==
  ASSUME NEW lockfile, NEW t
  PROVE  LET every == Every({Workspace(lockfile, {t})})
         IN  Cardinality(every) = 1 /\ \A x, y \in every : x = y
<1>1. Every({Workspace(lockfile, {t})}) = {<<lockfile, t>>}
  BY DEF Every, Workspace
<1> QED BY <1>1, FS_Singleton

\* Where the documents of a directory of a scan go is the directory, or the one that
\* mirrors it; of two directories, two.
Into(args, d) ==
  IF args.output # None THEN args.output \o SubSeq(d, Len(args.scan) + 1, Len(d)) ELSE d

LEMMA IntoIs ==
  ASSUME NEW args \in Arguments, args.scan \in DOMAIN Tree
  PROVE  /\ \A d \in Walked(Tree, args.scan, None) : Into(args, d) # None
         /\ \A d, e \in Walked(Tree, args.scan, None) : Into(args, d) = Into(args, e) => d = e
<1> DEFINE scan == args.scan
           Rest(d) == SubSeq(d, Len(scan) + 1, Len(d))
<1>1. ASSUME NEW d \in Walked(Tree, scan, None)
      PROVE  /\ d \in Paths /\ Rest(d) \in Paths /\ d = scan \o Rest(d)
  <2>1. d \in DOMAIN Tree /\ IsPrefix(scan, d)
    BY <1>1, Zenon DEF Walked
  <2>2. d \in Paths /\ Len(d) \in Nat /\ scan \in Paths /\ Len(scan) \in Nat
    BY <2>1, DirsArePaths
  <2>3. Len(scan) <= Len(d) /\ SubSeq(d, 1, Len(scan)) = scan
    BY <2>1, <2>2, PrefixIs
  <2> DEFINE k == Len(scan)
  <2>4. k + 1 \in 1..(Len(d) + 1)
    BY <2>2, <2>3
  <2>5. Rest(d) \in Paths
    BY <2>2, <2>4, RestIs
  <2>6. SubSeq(d, 1, k) \o SubSeq(d, k + 1, Len(d)) = SubSeq(d, 1, Len(d))
    <3>1. 1 \in 1..(Len(d) + 1) /\ k \in (1 - 1)..Len(d) /\ Len(d) \in k..Len(d)
      BY <2>2, <2>3
    <3>2. d \in Seq(STRING)
      BY <2>2 DEF Paths
    <3> HIDE DEF k
    <3> QED BY <3>1, <3>2, ConcatAdjacentSubSeq
  <2>7. SubSeq(d, 1, Len(d)) = d
    BY <2>2, SubSeqFull DEF Paths
  <2> QED BY <2>2, <2>3, <2>5, <2>6, <2>7
<1>2. args.output # None => args.output \in Paths
  BY ArgumentsAssumption DEF Paths
<1>3. ASSUME NEW d \in Walked(Tree, scan, None) PROVE Into(args, d) \in Paths
  <2>1. args.output # None => args.output \o Rest(d) \in Paths
    BY <1>1, <1>2, ConcatProperties DEF Paths
  <2> HIDE DEF scan
  <2> QED BY <1>1, <2>1 DEF Into, scan
<1>4. None \notin Paths
  BY NothingAssumption DEF Paths
<1>5. ASSUME NEW d \in Walked(Tree, scan, None), NEW e \in Walked(Tree, scan, None), Into(args, d) = Into(args, e)
      PROVE  d = e
  <2>1. CASE args.output = None
    BY <1>5, <2>1 DEF Into
  <2>2. CASE args.output # None
    <3>1. args.output \o Rest(d) = args.output \o Rest(e)
      BY <1>5, <2>2 DEF Into
    <3>2. Rest(d) \in Paths /\ Rest(e) \in Paths /\ args.output \in Paths
      BY <1>1, <1>2, <2>2
    <3>3. \A u, v, w \in Paths : u \o v = u \o w => v = w
      BY ConcatSimplifications DEF Paths
    <3>4. Rest(d) = Rest(e)
      <4> HIDE DEF Rest
      <4> QED BY <3>1, <3>2, <3>3, Zenon
    <3>5. d = scan \o Rest(d) /\ e = scan \o Rest(e)
      BY <1>1
    <3> HIDE DEF Rest
    <3> QED BY <3>4, <3>5, Zenon
  <2> QED BY <2>1, <2>2
<1> QED BY <1>3, <1>4, <1>5

\* The documents of one lock of a scan.
LEMMA ScannedGoApart ==
  ASSUME NEW args \in Arguments, args.scan \in DOMAIN Tree, NEW l, l.dir \in Walked(Tree, args.scan, None),
         l.kind = "pixi.lock" => ~ Unresolvable(args, Tree[l.dir].environments)
  PROVE  LET w == ScannedWorkspace(Tree, args, l)
         IN  /\ w.lockfile = l
             /\ \A x, y \in w.targets : x.output = y.output => x = y
             /\ \A x \in w.targets : x.output # FileAt(Stdout) /\ x.output.dir = Into(args, l.dir)
             /\ (args.allEnvironments /\ args.allPlatforms /\ l.kind = "pixi.lock") =>
                  {<<t.environment, t.platform>> : t \in w.targets} = Pairs(l)
<1> DEFINE w == ScannedWorkspace(Tree, args, l)
           into == Into(args, l.dir)
           environments == Tree[l.dir].environments
           one == Target(EnvironmentName(l), args.platform, FileIn(into, <<>>))
           several == ResolveTargets(args, environments, l, into)
<1>1. w = Workspace(l, IF l.kind = "pixi.lock" THEN several ELSE {one})
  BY Zenon DEF ScannedWorkspace, ScannedInto, Into
<1>2. w.lockfile = l /\ w.targets = IF l.kind = "pixi.lock" THEN several ELSE {one}
  <2> HIDE DEF several, one, w
  <2> QED BY <1>1 DEF Workspace
<1>3. into # None
  BY IntoIs
<1>4. CASE l.kind = "pixi.lock"
  <2>1. AreEnvironments(environments)
    <3>1. l.dir \in DOMAIN Tree
      BY Zenon DEF Walked
    <3> QED BY <3>1, EnvironmentsAre
  <2>2. args.allEnvironments \in BOOLEAN /\ args.allPlatforms \in BOOLEAN
    BY ArgumentsAssumption
  <2> HIDE DEF into, environments
  <2>3. /\ \A x, y \in several : x.output = y.output => x = y
        /\ \A x \in several : x.output # FileAt(Stdout) /\ x.output.dir = into
        /\ (args.allEnvironments /\ args.allPlatforms) =>
             {<<t.environment, t.platform>> : t \in several}
               = UNION {{e} \X environments[e] : e \in DOMAIN environments}
    <3>1. ~ Unresolvable(args, environments)
      BY <1>4 DEF environments
    <3> QED BY <1>3, <2>1, <2>2, <3>1, ResolvedIs
  <2>4. Pairs(l) = UNION {{e} \X environments[e] : e \in DOMAIN environments}
    BY Zenon DEF Pairs, environments
  <2> HIDE DEF several, w, one
  <2>5. w.targets = several
    BY <1>2, <1>4
  <2> QED BY <1>2, <2>3, <2>4, <2>5 DEF w, into
<1>5. CASE l.kind # "pixi.lock"
  <2>1. w.targets = {one}
    BY <1>2, <1>5
  <2>2. one.output = FileIn(into, <<>>)
    BY DEF Target
  <2>3. FileIn(into, <<>>) # FileAt(Stdout)
    <3>1. <<>> \in Paths
      BY EmptySeq DEF Paths
    <3> QED BY <3>1, NamesApart
  <2>4. FileIn(into, <<>>).dir = into
    BY DEF FileIn
  <2> HIDE DEF w, one
  <2> QED BY <1>2, <1>5, <2>1, <2>2, <2>3, <2>4 DEF w, into
<1> QED BY <1>4, <1>5

\* What is found by a scan.
LEMMA AllAre ==
  ASSUME NEW args \in Arguments, args.scan # None, FindAll(Tree, args).error = None
  PROVE  LET found == FindAll(Tree, args)
         IN  /\ GoApart(found.workspaces) /\ EachIsWritten(args, found.workspaces)
             /\ args.scan \in DOMAIN Tree /\ found.locks = ScanTree(Tree, args.scan, args.depth)
             /\ ~ args.merge =>
                  \A x \in Every(found.workspaces) : x[2].output.dir = Into(args, x[1].dir)
<1> DEFINE found == FindAll(Tree, args)
           locks == IF args.scan \in DOMAIN Tree THEN ScanTree(Tree, args.scan, args.depth) ELSE {}
           target == Target(Default, args.platform, ResolveOutput(args, args.scan))
           lock == Lockfile(args.scan, "pixi.lock", None)
           whole == Workspace(lock, {target})
           workspaces == IF args.merge THEN {whole} ELSE {ScannedWorkspace(Tree, args, l) : l \in locks}
           unresolvable == \E l \in locks : l.kind = "pixi.lock" /\ Unresolvable(args, Tree[l.dir].environments)
           all == [error |-> None, locks |-> locks, hint |-> None, workspaces |-> workspaces]
<1>1. found = CASE ~ args.merge /\ args.output = Stdout -> Failure("usage")
                [] (args.merge \/ args.output # Stdout) /\ args.scan \notin DOMAIN Tree -> Failure("not a directory")
                [] (args.merge \/ args.output # Stdout) /\ args.scan \in DOMAIN Tree /\ locks = {} -> Failure("none found")
                [] unresolvable -> Failure("usage")
                [] OTHER -> all
  BY Zenon DEF FindAll
<1>2. \A error : Failure(error).error = error
  BY DEF Failure
<1>3. None \notin {"usage", "not a directory", "none found"}
  BY NothingAssumption
<1> HIDE DEF unresolvable, all, found, locks
<1>4. found = all /\ ~ unresolvable /\ args.scan \in DOMAIN Tree
  <2>1. found.error = None
    BY DEF found
  <2> QED BY <1>1, <1>2, <1>3, <2>1
<1>5. found.locks = locks /\ found.workspaces = workspaces /\ locks = ScanTree(Tree, args.scan, args.depth)
  <2> HIDE DEF workspaces
  <2> QED BY <1>4 DEF all, locks
<1>6. CASE args.merge
  <2>1. workspaces = {Workspace(lock, {target})}
    BY <1>6
  <2> HIDE DEF workspaces, target, lock
  <2>2. Cardinality(Every(workspaces)) = 1 /\ \A x, y \in Every(workspaces) : x = y
    BY <2>1, SingleGoesApart
  <2>3. GoApart(found.workspaces) /\ EachIsWritten(args, found.workspaces)
    BY <1>5, <1>6, <2>2 DEF GoApart, EachIsWritten
  <2> QED BY <1>4, <1>5, <1>6, <2>3 DEF found
<1>7. CASE ~ args.merge
  <2>1. args.depth # None => args.depth \in Nat
    BY ArgumentsAssumption
  <2>2. \A l \in locks : l.dir \in Walked(Tree, args.scan, None) /\ l = LockfileIn(Tree, l.dir)
    BY <1>4, <1>5, <2>1, ScannedAre
  <2> DEFINE Of(l) == ScannedWorkspace(Tree, args, l)
  <2>3. workspaces = {Of(l) : l \in locks}
    BY <1>7
  <2>4. \A l \in locks : l.kind = "pixi.lock" => ~ Unresolvable(args, Tree[l.dir].environments)
    BY <1>4 DEF unresolvable
  <2>5. ASSUME NEW l \in locks
        PROVE  /\ Of(l).lockfile = l
               /\ \A x, y \in Of(l).targets : x.output = y.output => x = y
               /\ \A x \in Of(l).targets : x.output # FileAt(Stdout) /\ x.output.dir = Into(args, l.dir)
               /\ (args.allEnvironments /\ args.allPlatforms /\ l.kind = "pixi.lock") =>
                    {<<t.environment, t.platform>> : t \in Of(l).targets} = Pairs(l)
    BY <1>4, <2>2, <2>4, ScannedGoApart
  <2> HIDE DEF Of, workspaces
  <2>6. \A x : x \in Every(workspaces) <=> \E l \in locks : \E t \in Of(l).targets : x = <<l, t>>
    <3>1. \A x : x \in Every(workspaces) <=> \E l \in locks : x \in {Of(l).lockfile} \X Of(l).targets
      BY <2>3 DEF Every
    <3> QED BY <2>5, <3>1
  <2>7. ASSUME NEW x \in Every(workspaces), NEW y \in Every(workspaces), x[2].output = y[2].output
        PROVE  x = y
    <3>1. PICK l \in locks : \E t \in Of(l).targets : x = <<l, t>>
      BY <2>6
    <3>2. PICK m \in locks : \E t \in Of(m).targets : y = <<m, t>>
      BY <2>6
    <3>3. x[1] = l /\ y[1] = m /\ x[2] \in Of(l).targets /\ y[2] \in Of(m).targets
      BY <3>1, <3>2
    <3>4. Into(args, l.dir) = Into(args, m.dir)
      BY <2>5, <2>7, <3>3
    <3>5. l.dir = m.dir
      BY <1>4, <2>2, <3>4, IntoIs
    <3>6. l = m
      BY <2>2, <3>5
    <3>7. x[2] = y[2]
      BY <2>5, <2>7, <3>3, <3>6
    <3> QED BY <3>1, <3>2, <3>6, <3>7
  <2>8. \A x \in Every(workspaces) : x[2].output # FileAt(Stdout) /\ x[2].output.dir = Into(args, x[1].dir)
    BY <2>5, <2>6
  <2>9. GoApart(workspaces)
    BY <2>7, <2>8, Zenon DEF GoApart
  <2>10. EachIsWritten(args, workspaces)
    BY <2>3, <2>5 DEF EachIsWritten
  <2> QED BY <1>4, <1>5, <2>8, <2>9, <2>10 DEF found
<1> QED BY <1>6, <1>7

\* What is found of one lock.
LEMMA OneIs ==
  ASSUME NEW args \in Arguments, FindOne(Tree, args).error = None
  PROVE  LET found == FindOne(Tree, args)
         IN  /\ GoApart(found.workspaces) /\ EachIsWritten(args, found.workspaces)
             /\ (args.lockfile = None /\ ~ args.document) =>
                  /\ FindUpward(Tree, args.cwd) # None
                  /\ found.locks = {FindUpward(Tree, args.cwd)}
<1> DEFINE found == FindOne(Tree, args)
           Exists(l) == IF l.named = None THEN l.kind \in Tree[l.dir].files ELSE l.named \in Values(Tree[l.dir].named)
           lock == CASE args.document -> Lockfile(args.cwd, "document", None)
                     [] ~ args.document /\ args.lockfile # None -> args.lockfile
                     [] OTHER -> FindUpward(Tree, args.cwd)
           refused == IF args.document THEN args.allEnvironments \/ args.allPlatforms
                      ELSE IF lock.kind = "pixi.lock" THEN Unresolvable(args, Tree[lock.dir].environments)
                      ELSE ~ FlagsDo(args, lock)
           targets == TargetsOf(Tree, args, lock)
           one == [error |-> None, locks |-> {lock}, hint |-> None, workspaces |-> {Workspace(lock, targets)}]
<1>1. found = CASE lock = None -> [Failure("not found") EXCEPT !.hint = Hint(Tree, args.cwd)]
                [] lock # None /\ ~ args.document /\ ~ Exists(lock) -> Failure("missing")
                [] lock # None /\ (args.document \/ Exists(lock)) /\ refused -> Failure("usage")
                [] OTHER -> one
  BY Zenon DEF FindOne
<1>2. /\ \A error : Failure(error).error = error
      /\ \A error, hint : [Failure(error) EXCEPT !.hint = hint].error = error
  BY DEF Failure
<1>3. None \notin {"usage", "not found", "missing"}
  BY NothingAssumption
<1>4. lock.dir \in DOMAIN Tree \/ lock = None
  <2>1. args.cwd \in DOMAIN Tree /\ ((args.lockfile # None /\ ~ args.document) => args.lockfile.dir \in DOMAIN Tree)
    BY ArgumentsAssumption
  <2>2. CASE args.document
    BY <2>1, <2>2 DEF Lockfile
  <2>3. CASE ~ args.document /\ args.lockfile # None
    BY <2>1, <2>3
  <2>4. CASE ~ args.document /\ args.lockfile = None
    <3>1. lock = FindUpward(Tree, args.cwd)
      BY <2>4
    <3>2. lock # None => lock.dir \in Ancestors(args.cwd)
      <4> HIDE DEF lock
      <4> QED BY <2>1, <3>1, UpwardIs
    <3> QED BY <2>1, <3>2, DirsArePaths
  <2> QED BY <2>2, <2>3, <2>4
<1>5. args.document => lock.kind = "document"
  BY DEF Lockfile
<1>6. (args.lockfile = None /\ ~ args.document) => lock = FindUpward(Tree, args.cwd)
  OBVIOUS
<1> HIDE DEF lock, found, one, Exists
<1>7. found = one /\ lock # None /\ ~ refused
  <2>1. found.error = None
    BY DEF found
  <2> HIDE DEF refused
  <2> QED BY <1>1, <1>2, <1>3, <2>1
<1>8. found.locks = {lock} /\ found.workspaces = {Workspace(lock, targets)}
  <2> HIDE DEF targets
  <2> QED BY <1>7 DEF one
<1>9. Every({Workspace(lock, targets)}) = {lock} \X targets
  <2> HIDE DEF targets
  <2> QED BY DEF Every, Workspace
<1>10. args.allEnvironments \in BOOLEAN /\ args.allPlatforms \in BOOLEAN
  BY ArgumentsAssumption
<1>11. lock.dir \in DOMAIN Tree
  BY <1>4, <1>7
\* Whatever has one target has it for itself.
<1>12. ASSUME NEW t, targets = {t} PROVE GoApart({Workspace(lock, targets)})
  <2> HIDE DEF targets
  <2> QED BY <1>12, SingleGoesApart DEF GoApart
<1>13. ASSUME \A x, y \in targets : x.output = y.output => x = y,
              \A x \in targets : x.output # FileAt(Stdout)
       PROVE  GoApart({Workspace(lock, targets)})
  <2> HIDE DEF targets
  <2> QED BY <1>9, <1>13 DEF GoApart
<1>14. CASE lock.kind = "pixi.lock"
  <2> DEFINE environments == Tree[lock.dir].environments
             several == ResolveTargets(args, environments, lock, None)
  <2>1. targets = several
    BY <1>14 DEF TargetsOf
  <2>2. ~ Unresolvable(args, environments)
    BY <1>5, <1>7, <1>14
  <2>3. AreEnvironments(environments)
    BY <1>11, EnvironmentsAre
  <2>4. Pairs(lock) = UNION {{e} \X environments[e] : e \in DOMAIN environments}
    BY Zenon DEF Pairs
  <2> HIDE DEF environments
  <2>5. /\ \A x, y \in several : x.output = y.output => x = y
        /\ Batch(args) => \A x \in several : x.output # FileAt(Stdout)
        /\ ~ Batch(args) => \E t : several = {t}
        /\ (args.allEnvironments /\ args.allPlatforms) =>
             {<<t.environment, t.platform>> : t \in several} = Pairs(lock)
    <3>1. /\ \A x, y \in several : x.output = y.output => x = y
          /\ (Batch(args) \/ None # None) => \A x \in several : x.output # FileAt(Stdout)
          /\ ~ Batch(args) => \E t : several = {t}
          /\ (args.allEnvironments /\ args.allPlatforms) =>
               {<<t.environment, t.platform>> : t \in several}
                 = UNION {{e} \X environments[e] : e \in DOMAIN environments}
      BY <1>10, <2>2, <2>3, ResolvedIs
    <3> HIDE DEF several
    <3> QED BY <2>4, <3>1
  <2> HIDE DEF several, targets
  <2>6. GoApart({Workspace(lock, targets)})
    BY <1>12, <1>13, <2>1, <2>5
  <2>7. EachIsWritten(args, {Workspace(lock, targets)})
    BY <2>1, <2>5 DEF EachIsWritten, Workspace
  <2> QED BY <1>6, <1>7, <1>8, <2>6, <2>7 DEF found
<1>15. CASE lock.kind # "pixi.lock"
  <2>1. EachIsWritten(args, {Workspace(lock, targets)})
    <3> HIDE DEF targets
    <3> QED BY <1>15 DEF EachIsWritten, Workspace
  <2>2. CASE lock.kind = "conda-lock.yml" /\ args.allPlatforms
    <3> DEFINE platforms == Tree[lock.dir].platforms
               into == IF args.output # None THEN args.output ELSE lock.dir
               Of(p) == Target(Default, p, FileIn(into, p))
    <3>1. targets = {Of(p) : p \in platforms}
      BY <1>15, <2>2, Zenon DEF TargetsOf, ResolveBatchOutput
    <3>2. platforms \subseteq Paths
      BY <1>11, TreeAssumption DEF Paths
    <3>3. \A p : Of(p).output = FileIn(into, p)
      BY DEF Target
    <3>4. \A p, q : FileIn(into, p) = FileIn(into, q) => FileName(p) = FileName(q)
      BY DEF FileIn
    <3> HIDE DEF Of, targets, platforms, into
    <3>5. \A x, y \in targets : x.output = y.output => x = y
      <4> SUFFICES ASSUME NEW p \in platforms, NEW q \in platforms, Of(p).output = Of(q).output
                   PROVE  Of(p) = Of(q)
        BY <3>1
      <4>1. FileName(p) = FileName(q)
        BY <3>3, <3>4
      <4>2. p = q
        BY <3>2, <4>1, NamesApart
      <4> QED BY <4>2
    <3>6. \A x \in targets : x.output # FileAt(Stdout)
      BY <3>1, <3>2, <3>3, NamesApart
    <3> QED BY <1>6, <1>7, <1>8, <1>13, <2>1, <3>5, <3>6 DEF found
  <2>3. CASE ~ (lock.kind = "conda-lock.yml" /\ args.allPlatforms)
    <3>1. \E t : targets = {t}
      BY <1>15, <2>3, Zenon DEF TargetsOf
    <3> HIDE DEF targets
    <3> QED BY <1>6, <1>7, <1>8, <1>12, <2>1, <3>1 DEF found
  <2> QED BY <2>2, <2>3
<1> QED BY <1>14, <1>15

\* With the lock that a run without one is told to write, it finds that one.
LEMMA HintIsTrue ==
  ASSUME NEW args \in Arguments, Find(Tree, args).hint # None,
         NEW kind \in Values(LockfileKinds)
  PROVE  LET hint == Find(Tree, args).hint
             with == [Tree EXCEPT ![hint.dir].files = @ \cup {kind}]
         IN  FindUpward(with, args.cwd) = Lockfile(hint.dir, kind, None)
<1> DEFINE found == Find(Tree, args)
           hint == Hint(Tree, args.cwd)
           with == [Tree EXCEPT ![hint.dir].files = @ \cup {kind}]
<1>1. args.cwd \in DOMAIN Tree
  BY ArgumentsAssumption
<1>2. /\ \A error : Failure(error).hint = None
      /\ \A error, h : [Failure(error) EXCEPT !.hint = h].hint = h
  BY DEF Failure
<1>3. args.scan = None
  <2> SUFFICES ASSUME args.scan # None PROVE FALSE
    OBVIOUS
  <2>1. found = FindAll(Tree, args)
    BY DEF Find
  <2> DEFINE locks == IF args.scan \in DOMAIN Tree THEN ScanTree(Tree, args.scan, args.depth) ELSE {}
             whole == Workspace(Lockfile(args.scan, "pixi.lock", None),
                                {Target(Default, args.platform, ResolveOutput(args, args.scan))})
             workspaces == IF args.merge THEN {whole} ELSE {ScannedWorkspace(Tree, args, l) : l \in locks}
             unresolvable == \E l \in locks : l.kind = "pixi.lock" /\ Unresolvable(args, Tree[l.dir].environments)
             all == [error |-> None, locks |-> locks, hint |-> None, workspaces |-> workspaces]
  <2>2. FindAll(Tree, args) =
          CASE ~ args.merge /\ args.output = Stdout -> Failure("usage")
            [] (args.merge \/ args.output # Stdout) /\ args.scan \notin DOMAIN Tree -> Failure("not a directory")
            [] (args.merge \/ args.output # Stdout) /\ args.scan \in DOMAIN Tree /\ locks = {} -> Failure("none found")
            [] unresolvable -> Failure("usage")
            [] OTHER -> all
    BY Zenon DEF FindAll
  <2>3. all.hint = None
    <3> HIDE DEF locks, workspaces
    <3> QED OBVIOUS
  <2> HIDE DEF all, locks, unresolvable
  <2>4. FindAll(Tree, args).hint = None
    BY <1>2, <2>2, <2>3
  <2> QED BY <2>1, <2>4
<1>4. FindUpward(Tree, args.cwd) = None /\ found.hint = hint
  <2>1. found = FindOne(Tree, args)
    BY <1>3 DEF Find
  <2> DEFINE Exists(l) == IF l.named = None THEN l.kind \in Tree[l.dir].files ELSE l.named \in Values(Tree[l.dir].named)
             lock == CASE args.document -> Lockfile(args.cwd, "document", None)
                       [] ~ args.document /\ args.lockfile # None -> args.lockfile
                       [] OTHER -> FindUpward(Tree, args.cwd)
             refused == IF args.document THEN args.allEnvironments \/ args.allPlatforms
                        ELSE IF lock.kind = "pixi.lock" THEN Unresolvable(args, Tree[lock.dir].environments)
                        ELSE ~ FlagsDo(args, lock)
             one == [error |-> None, locks |-> {lock}, hint |-> None,
                     workspaces |-> {Workspace(lock, TargetsOf(Tree, args, lock))}]
  <2>2. FindOne(Tree, args) =
          CASE lock = None -> [Failure("not found") EXCEPT !.hint = Hint(Tree, args.cwd)]
            [] lock # None /\ ~ args.document /\ ~ Exists(lock) -> Failure("missing")
            [] lock # None /\ (args.document \/ Exists(lock)) /\ refused -> Failure("usage")
            [] OTHER -> one
    BY Zenon DEF FindOne
  <2>3. Lockfile(args.cwd, "document", None) # None
    BY <1>1, NothingAssumption
  <2>4. lock = None => FindUpward(Tree, args.cwd) = None
    BY <2>3
  <2>5. one.hint = None
    <3> HIDE DEF lock
    <3> QED OBVIOUS
  <2> HIDE DEF one, refused, Exists, lock, found
  <2>6. found.hint # None
    BY DEF found
  <2>7. lock = None
    BY <1>2, <2>1, <2>2, <2>5, <2>6
  <2> QED BY <1>2, <2>1, <2>2, <2>4, <2>7
<1>5. hint.dir \in Ancestors(args.cwd)
  <2> DEFINE Known(d) == SelectSeq(Manifests, LAMBDA m : /\ m \in DOMAIN Tree[d].manifests
                                                         /\ Advice(m, Tree[d].manifests[m]) # None)
             holding == {d \in Ancestors(args.cwd) : Known(d) # <<>>}
             write == Advice(Head(Known(Nearest(holding))), Tree[Nearest(holding)].manifests[Head(Known(Nearest(holding)))])
  <2>1. hint = IF holding = {} THEN None ELSE [dir |-> Nearest(holding), write |-> write]
    BY Zenon DEF Hint
  <2>2. holding \subseteq Ancestors(args.cwd)
    <3> HIDE DEF Known
    <3> QED OBVIOUS
  <2> HIDE DEF holding, write, Known, hint
  <2>3. hint # None
    BY <1>4
  <2>4. holding # {} /\ hint.dir = Nearest(holding)
    BY <2>1, <2>3
  <2>5. Nearest(holding) \in holding
    BY <1>1, <2>2, <2>4, DirsArePaths, NearestIs
  <2> QED BY <2>2, <2>4, <2>5
<1>6. Ancestors(args.cwd) \subseteq DOMAIN Tree
  BY <1>1, DirsArePaths
<1> DEFINE h == hint.dir
<1> HIDE DEF hint
<1>7. h \in DOMAIN Tree /\ h \in Ancestors(args.cwd)
  BY <1>5, <1>6
<1> HIDE DEF h
<1>8. with = [Tree EXCEPT ![h].files = @ \cup {kind}]
  BY DEF h
<1> HIDE DEF with
<1>9. /\ \A d \in DOMAIN Tree : with[d].named = Tree[d].named /\ with[d].readable = Tree[d].readable
      /\ \A d \in DOMAIN Tree : d # h => with[d].files = Tree[d].files
      /\ with[h].files = Tree[h].files \cup {kind}
  <2>1. {"files", "named", "readable"} \subseteq DOMAIN Tree[h]
    BY <1>7, TreeAssumption
  <2>2. with[h] = [Tree[h] EXCEPT !.files = Tree[h].files \cup {kind}]
    BY <1>7, <1>8
  <2>3. \A d \in DOMAIN Tree : d # h => with[d] = Tree[d]
    BY <1>8
  <2> QED BY <2>1, <2>2, <2>3
<1>10. \A d \in Ancestors(args.cwd) : ~ HasLock(Tree, d)
  BY <1>1, <1>4, UpwardIs
<1>11. \A d \in Ancestors(args.cwd) : HasLock(with, d) => d = h
  BY <1>6, <1>9, <1>10 DEF HasLock
<1>12. HasLock(with, h)
  BY <1>9 DEF HasLock
<1> DEFINE lock == FindUpward(with, args.cwd)
<1>13. lock = LockfileIn(with, h)
  <2>1. \A d \in Ancestors(args.cwd) : with[d].named = Tree[d].named
    BY <1>6, <1>9
  <2>2. lock # None
    BY <1>1, <1>7, <1>12, <2>1, UpwardIs
  <2>3. lock.dir \in Ancestors(args.cwd) /\ HasLock(with, lock.dir) /\ lock = LockfileIn(with, lock.dir)
    BY <1>1, <2>1, <2>2, UpwardIs
  <2> HIDE DEF lock
  <2> QED BY <1>11, <2>3
<1>14. PICK n \in KindsIn(with, h) :
         LET k == LockfileKinds[n]
         IN  LockfileIn(with, h) = Lockfile(h, k, IF k \in with[h].files THEN None ELSE Head(NamedIn(with, h)))
  BY <1>12, LockIs, Zenon
<1>15. LockfileKinds[n] = kind
  <2>1. NamedIn(with, h) = <<>>
    BY <1>7, <1>9, <1>10 DEF NamedIn, HasLock
  <2>2. n \in DOMAIN LockfileKinds /\ LockfileKinds[n] \in with[h].files
    BY <2>1, Zenon DEF KindsIn
  <2>3. LockfileKinds[n] \in Values(LockfileKinds)
    BY <2>2, Zenon DEF Values
  <2>4. Tree[h].files \cap Values(LockfileKinds) = {}
    BY <1>7, <1>10 DEF HasLock
  <2> QED BY <1>9, <2>2, <2>3, <2>4
<1>16. lock = Lockfile(h, kind, None)
  <2>1. kind \in with[h].files
    BY <1>9
  <2> HIDE DEF lock
  <2> QED BY <1>13, <1>14, <1>15, <2>1
<1> QED BY <1>4, <1>16 DEF h, with, lock, hint

\* The search is over before anything is read, and its result is that of Find.
SearchInv ==
  /\ {"stage", "args", "found"} = DOMAIN search
  /\ search.stage \in {"asked", "found", "refused"} => search.args \in Arguments
  /\ search.stage \in {"found", "refused"} => search.found = Find(Tree, search.args)
  /\ search.stage = "found" => search.found.error = None

LEMMA SearchInvKept == SearchInv /\ [ScanNext]_svars => SearchInv'
<1> SUFFICES ASSUME SearchInv, [ScanNext]_svars
             PROVE  SearchInv'
  OBVIOUS
<1>1. CASE LookForLocks
  <2> DEFINE found == Find(Tree, search.args)
  <2>1. /\ search.stage = "asked"
        /\ search' = [search EXCEPT !.stage = IF found.error = None THEN "found" ELSE "refused", !.found = found]
    BY <1>1 DEF LookForLocks
  <2> HIDE DEF found
  <2>2. /\ DOMAIN search' = DOMAIN search /\ search'.args = search.args /\ search'.found = found
        /\ search'.stage = IF found.error = None THEN "found" ELSE "refused"
    BY <2>1 DEF SearchInv
  <2>3. search.args \in Arguments
    BY <2>1 DEF SearchInv
  <2> QED BY <2>2, <2>3 DEF SearchInv, found
<1>2. CASE OpenLock
  <2>1. search' = [stage |-> "over", args |-> None, found |-> None]
    BY <1>2 DEF OpenLock
  <2> QED BY <2>1 DEF SearchInv
<1>3. CASE UNCHANGED search
  BY <1>3 DEF SearchInv
<1> QED BY <1>1, <1>2, <1>3 DEF ScanNext, svars

\* Every document of a run has a file of its own and standard output is for one alone; a
\* scan reads one lock of each directory it may enter, a run without the nearest; and the
\* lock that a run which finds none is told to write would be found (docs/cli.md:1665).
THEOREM SearchHolds == ScanSpec => []DocumentsGoApart
<1>1. ScanInit => SearchInv
  BY DEF ScanInit, SearchInv
<1>2. SearchInv => DocumentsGoApart
  <2> SUFFICES ASSUME SearchInv PROVE DocumentsGoApart
    OBVIOUS
  <2> DEFINE args == search.args
             found == search.found
  <2>1. ASSUME search.stage = "found"
        PROVE  /\ GoApart(found.workspaces) /\ EachIsWritten(args, found.workspaces)
               /\ args.scan # None =>
                    /\ {l.dir : l \in found.locks} =
                         {d \in Reached({args.scan}, Entering) :
                            HasLock(Tree, d) /\ (args.depth # None => Len(d) - Len(args.scan) <= args.depth)}
                    /\ Cardinality({l.dir : l \in found.locks}) = Cardinality(found.locks)
                    /\ ~ args.merge => \A x \in Every(found.workspaces) : x[2].output.dir = Into(args, x[1].dir)
               /\ (args.scan = None /\ args.lockfile = None /\ ~ args.document) =>
                    \A l \in found.locks : \A d \in Ancestors(args.cwd) : HasLock(Tree, d) => Len(d) <= Len(l.dir)
    <3>1. args \in Arguments /\ found = Find(Tree, args) /\ found.error = None
      BY <2>1 DEF SearchInv
    <3> HIDE DEF args, found
    <3>2. CASE args.scan # None
      <4>1. found = FindAll(Tree, args)
        BY <3>1, <3>2 DEF Find
      <4>2. /\ GoApart(found.workspaces) /\ EachIsWritten(args, found.workspaces)
            /\ args.scan \in DOMAIN Tree /\ found.locks = ScanTree(Tree, args.scan, args.depth)
            /\ ~ args.merge => \A x \in Every(found.workspaces) : x[2].output.dir = Into(args, x[1].dir)
        BY <3>1, <3>2, <4>1, AllAre
      <4>3. args.depth # None => args.depth \in Nat
        BY <3>1, ArgumentsAssumption
      <4>4. /\ {l.dir : l \in found.locks} =
                 {d \in Walked(Tree, args.scan, None) :
                    HasLock(Tree, d) /\ (args.depth # None => Len(d) - Len(args.scan) <= args.depth)}
            /\ Cardinality({l.dir : l \in found.locks}) = Cardinality(found.locks)
        BY <4>2, <4>3, ScannedAre
      <4>5. Reached({args.scan}, Entering) = Walked(Tree, args.scan, None)
        BY <4>2, WalkedIs
      <4> QED BY <3>2, <4>2, <4>4, <4>5
    <3>3. CASE args.scan = None
      <4>1. found = FindOne(Tree, args)
        BY <3>1, <3>3 DEF Find
      <4>2. /\ GoApart(found.workspaces) /\ EachIsWritten(args, found.workspaces)
            /\ (args.lockfile = None /\ ~ args.document) =>
                 FindUpward(Tree, args.cwd) # None /\ found.locks = {FindUpward(Tree, args.cwd)}
        BY <3>1, <4>1, OneIs
      <4>3. args.cwd \in DOMAIN Tree
        BY <3>1, ArgumentsAssumption
      <4>4. FindUpward(Tree, args.cwd) # None =>
              \A d \in Ancestors(args.cwd) : HasLock(Tree, d) => Len(d) <= Len(FindUpward(Tree, args.cwd).dir)
        BY <4>3, UpwardIs
      <4> QED BY <3>3, <4>2, <4>4
    <3> QED BY <3>2, <3>3
  <2>2. ASSUME search.stage = "refused", found.hint # None,
               NEW kind \in found.hint.write \cap Values(LockfileKinds)
        PROVE  LET with == [Tree EXCEPT ![found.hint.dir].files = @ \cup {kind}]
               IN  FindUpward(with, args.cwd) = Lockfile(found.hint.dir, kind, None)
    <3>1. args \in Arguments /\ found = Find(Tree, args)
      BY <2>2 DEF SearchInv
    <3> HIDE DEF args, found
    <3> QED BY <2>2, <3>1, HintIsTrue
  <2> QED BY <2>1, <2>2, Zenon
          DEF DocumentsGoApart, GoApart, EachIsWritten, Every, Pairs, Entering, Enters, HasLock, Into
<1> QED BY <1>1, <1>2, SearchInvKept, PTL DEF ScanSpec
===============================================================================

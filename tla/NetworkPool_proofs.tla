-------------------------- MODULE NetworkPool_proofs --------------------------
(***************************************************************************)
(* What holds of the requests of every run, whatever the configuration, the *)
(* documents, the threads the system refuses and the answers of upstreams:  *)
(* no more are in flight than the configuration allows, none is sent more   *)
(* often than MAX_ATTEMPTS, and none sleeps longer than MAX_BACKOFF.        *)
(***************************************************************************)
EXTENDS NetworkPool, FiniteSetTheorems, TLAPS

-----------------------------------------------------------------------------
(* The operators. *)

\* The limit on requests in flight is never zero.
LEMMA NetworkIsPositive == \A n \in Nat : Network(n) \in Nat \ {0}
  BY NetworkPoolAssumption DEF Network, Lesser

\* A pool is asked for with at least one thread, and no more than are configured.
LEMMA CappedIsBounded ==
  \A n \in Nat \ {0} : \A w \in Nat \cup {Unset} : Capped(n, w) \in 1..n
  BY NetworkPoolAssumption DEF Capped, Lesser, Greater

\* A pool never gets more threads than were asked for, although rayon takes zero
\* for as many as there are cores and the system may refuse some of them.
LEMMA PoolIsBounded ==
  ASSUME NEW n \in Nat \ {0}, granted \in Nat
  PROVE  PoolSize(n) \in 0..n
<1> DEFINE sizes == <<n, Lesser(DefaultNetwork, n), 1>>
           granting == {i \in 1..3 : Built(sizes[i]) <= granted}
<1>1. \A i \in 1..3 : sizes[i] \in 1..n
  BY NetworkPoolAssumption DEF Lesser
<1>2. \A i \in 1..3 : Built(sizes[i]) \in 1..n
  BY <1>1 DEF Built
<1>3. CASE granting = {}
  BY <1>3 DEF PoolSize
<1>4. CASE granting # {}
  <2> HIDE DEF sizes
  <2>1. granting \subseteq 1..3
    OBVIOUS
  <2> HIDE DEF granting
  <2>2. \E i \in granting : \A k \in granting : i <= k
    <3>1. 1 \in granting \/ 2 \in granting \/ 3 \in granting
      <4>1. \A i \in 1..3 : i = 1 \/ i = 2 \/ i = 3
        OBVIOUS
      <4> QED BY <1>4, <2>1, <4>1
    <3>2. CASE 1 \in granting
      BY <2>1, <3>2
    <3>3. CASE 1 \notin granting /\ 2 \in granting
      BY <2>1, <3>3
    <3>4. CASE 1 \notin granting /\ 2 \notin granting
      BY <2>1, <3>1, <3>4
    <3> QED BY <3>2, <3>3, <3>4
  <2>3. (CHOOSE i \in granting : \A k \in granting : i <= k) \in 1..3
    BY <2>1, <2>2
  <2> QED BY <1>2, <1>4, <2>3 DEF PoolSize, sizes, granting
<1> QED BY <1>3, <1>4

\* The powers of two a backoff may be multiplied by.
LEMMA SmallPowers == \A k \in 0..7 : 2 ^ k \in Nat
<1> SUFFICES ASSUME NEW k \in 0..7 PROVE 2 ^ k \in Nat
  OBVIOUS
<1>1. k \in {0, 1, 2, 3, 4, 5, 6, 7}
  OBVIOUS
<1>2. 2 ^ k \in {2^0, 2^1, 2^2, 2^3, 2^4, 2^5, 2^6, 2^7}
  BY <1>1, Zenon
<1>3. \A n \in {2^0, 2^1, 2^2, 2^3, 2^4, 2^5, 2^6, 2^7} : n \in Nat
  OBVIOUS
<1> QED BY <1>2, <1>3

\* A pause is a number of milliseconds.
LEMMA PausesAreNumbers == \A n \in Nat : Pauses(n) \subseteq Nat
<1> SUFFICES ASSUME NEW n \in Nat PROVE Pauses(n) \subseteq Nat
  OBVIOUS
<1>1. \A jitter \in Nat : Backoff(n, jitter) \in Nat
  <2> DEFINE k == Greater(1, Lesser(n, 8)) - 1
             base == Lesser(FirstBackoff * 2 ^ k, MaxBackoff)
  <2>1. k \in 0..7
    BY DEF Greater, Lesser
  <2> HIDE DEF k
  <2>2. 2 ^ k \in Nat
    BY <2>1, SmallPowers
  <2>3. base \in Nat
    BY <2>2, NetworkPoolAssumption DEF Lesser
  <2>4. Greater(1, base \div 4) \in Nat \ {0}
    BY <2>3 DEF Greater
  <2> HIDE DEF base
  <2>5. \A jitter \in Nat : base + (jitter % Greater(1, base \div 4)) \in Nat
    BY <2>3, <2>4
  <2> QED BY <2>5 DEF Backoff, base, k
<1>2. Greater(1, Backoff(n, 0) \div 4) - 1 \in Nat
  BY <1>1 DEF Greater
<1> QED BY <1>1, <1>2 DEF Pauses
-----------------------------------------------------------------------------
(* Types. *)

TypeOK ==
  /\ documents \in Seq(Nat)
  /\ shared \in BOOLEAN
  /\ configured \in Nat \ {0}
  /\ granted \in Nat
  /\ doc \in 0..Len(documents)
  /\ work \in Nat \cup {Unset}
  /\ pool \in Nat \cup {Unset}
  /\ queue \subseteq Nat /\ busy \subseteq Jobs /\ asleep \subseteq Jobs
  /\ attempt \in [Jobs -> Nat]
  /\ spent \in [Jobs -> Nat]
  /\ DOMAIN result \subseteq Jobs
  /\ \A j \in DOMAIN result : result[j] \in {"settled", "busy"}

\* Handing out a batch of jobs keeps the types.
LEMMA MapTypes ==
  ASSUME TypeOK, NEW n \in Nat, Map(n), work' \in Nat \cup {Unset}
  PROVE  /\ pool' \in Nat \cup {Unset} /\ queue' \subseteq Nat
         /\ attempt' \in [Jobs -> Nat] /\ spent' \in [Jobs -> Nat]
         /\ DOMAIN result' \subseteq Jobs
         /\ \A j \in DOMAIN result' : result'[j] \in {"settled", "busy"}
<1>1. CASE n = 0
  BY <1>1 DEF TypeOK, Map
<1>2. CASE n # 0
  <2>1. PoolSize(Capped(configured, work')) \in Nat
    <3>1. Capped(configured, work') \in Nat \ {0}
      BY CappedIsBounded DEF TypeOK
    <3> QED BY <3>1, PoolIsBounded DEF TypeOK
  <2> QED BY <1>2, <2>1 DEF TypeOK, Map
<1> QED BY <1>1, <1>2

\* Every variable keeps its type.
THEOREM TypeCorrect == Spec => []TypeOK
<1>1. Init => TypeOK
  BY NetworkIsPositive, NetworkPoolAssumption DEF Init, TypeOK
<1>2. ASSUME TypeOK, [Next]_vars PROVE TypeOK'
  <2>1. CASE SharedLookup
    <3>1. PICK n \in Jobs : (\A d \in DOMAIN documents : documents[d] <= n) /\ Map(n)
      BY <2>1 DEF SharedLookup
    <3>2. n \in Nat
      BY DEF Jobs
    <3>3. work' \in Nat \cup {Unset}
      BY <2>1, <1>2 DEF SharedLookup, TypeOK
    <3>4. /\ pool' \in Nat \cup {Unset} /\ queue' \subseteq Nat
          /\ attempt' \in [Jobs -> Nat] /\ spent' \in [Jobs -> Nat]
          /\ DOMAIN result' \subseteq Jobs
          /\ \A j \in DOMAIN result' : result'[j] \in {"settled", "busy"}
      BY <3>1, <3>2, <3>3, <1>2, MapTypes
    <3> QED BY <2>1, <3>3, <3>4, <1>2 DEF SharedLookup, TypeOK, run, Jobs
  <2>2. CASE NextDocument
    <3>1. documents[doc'] \in Nat /\ doc' \in 0..Len(documents)
      BY <2>2, <1>2 DEF NextDocument, TypeOK
    <3>2. work' \in Nat \cup {Unset}
      BY <2>2, <3>1, <1>2 DEF NextDocument, TypeOK
    <3>3. /\ pool' \in Nat \cup {Unset} /\ queue' \subseteq Nat
          /\ attempt' \in [Jobs -> Nat] /\ spent' \in [Jobs -> Nat]
          /\ DOMAIN result' \subseteq Jobs
          /\ \A j \in DOMAIN result' : result'[j] \in {"settled", "busy"}
      BY <2>2, <3>1, <3>2, <1>2, MapTypes DEF NextDocument
    <3> QED BY <2>2, <3>1, <3>2, <3>3, <1>2 DEF NextDocument, TypeOK, run, Jobs
  <2>3. ASSUME NEW j \in Jobs, JobStep(j) PROVE TypeOK'
    <3>0. Jobs' = Jobs
      BY <2>3 DEF JobStep, Take, Settles, Wakes, Busy, Returns, run, Jobs
    <3>1. CASE Take(j)
      BY <3>0, <3>1, <1>2 DEF Take, TypeOK, run
    <3>2. ASSUME NEW outcome \in {"settled", "busy"}, Returns(j, outcome) PROVE TypeOK'
      BY <3>0, <3>2, <1>2 DEF Returns, TypeOK, run
    <3>3. CASE Settles(j)
      BY <3>2, <3>3 DEF Settles
    <3>4. ASSUME NEW pause \in Pauses(attempt[j]), Busy(j, pause) PROVE TypeOK'
      <4>1. pause \in Nat
        BY <1>2, PausesAreNumbers DEF TypeOK
      <4>2. CASE MayRetry(j, pause)
        <5>1. spent[j] + pause \in Nat
          BY <4>1, <1>2 DEF TypeOK
        <5>2. spent' \in [Jobs -> Nat]
          BY <3>4, <4>2, <5>1, <1>2 DEF Busy, TypeOK
        <5> QED BY <3>0, <3>4, <4>2, <5>2, <1>2 DEF Busy, TypeOK, run
      <4>3. CASE ~MayRetry(j, pause)
        BY <3>2, <3>4, <4>3 DEF Busy
      <4> QED BY <4>2, <4>3
    <3>5. CASE Wakes(j)
      BY <3>0, <3>5, <1>2 DEF Wakes, TypeOK, run
    <3> QED BY <2>3, <3>1, <3>3, <3>4, <3>5 DEF JobStep
  <2>4. CASE UNCHANGED vars
    BY <2>4, <1>2 DEF vars, run, TypeOK, Jobs
  <2> QED BY <1>2, <2>1, <2>2, <2>3, <2>4 DEF Next
<1> QED BY <1>1, <1>2, PTL DEF Spec

-----------------------------------------------------------------------------
(* The limits. *)

\* A pool is within the configuration; no job is in two places; a thread that
\* sleeps has an attempt left, which it makes when it wakes.
LimitsInv ==
  /\ pool # Unset => pool <= configured
  /\ queue \cap (busy \cup asleep) = {}
  /\ IsFiniteSet(busy \cup asleep)
  /\ Cardinality(busy \cup asleep) <= Threads
  /\ \A j \in Jobs :
       /\ attempt[j] <= MaxAttempts /\ spent[j] <= MaxBackoff
       /\ j \in asleep => attempt[j] < MaxAttempts
\* A fresh batch has no request in flight and no attempt made.
LEMMA MapKeepsLimits ==
  ASSUME TypeOK, LimitsInv, Free, NEW n \in Nat, Map(n), work' \in Nat \cup {Unset},
         UNCHANGED <<run, busy, asleep>>
  PROVE  LimitsInv'
<1>1. busy = {} /\ asleep = {} /\ busy' = {} /\ asleep' = {} /\ Jobs' = Jobs /\ configured' = configured
  BY DEF Free, run, Jobs
<1>2. pool' # Unset => pool' <= configured
  <2>1. CASE n = 0
    BY <2>1 DEF Map, LimitsInv
  <2>2. CASE n # 0
    <3>1. Capped(configured, work') \in 1..configured
      BY CappedIsBounded DEF TypeOK
    <3>2. PoolSize(Capped(configured, work')) \in 0..Capped(configured, work')
      BY <3>1, PoolIsBounded DEF TypeOK
    <3>3. PoolSize(Capped(configured, work')) <= configured
      BY <3>1, <3>2 DEF TypeOK
    <3> QED BY <2>2, <3>3 DEF Map, LimitsInv
  <2> QED BY <2>1, <2>2
<1>3. Cardinality({}) = 0 /\ IsFiniteSet({})
  BY FS_EmptySet
<1>4. 0 <= Threads'
  <2>1. pool' \in Nat \cup {Unset}
    BY MapTypes
  <2> QED BY <2>1 DEF Threads, Greater
<1>5. \A j \in Jobs : attempt'[j] <= MaxAttempts /\ spent'[j] <= MaxBackoff
  <2>1. CASE n = 0
    BY <2>1 DEF Map, LimitsInv
  <2>2. CASE n # 0
    BY <2>2, NetworkPoolAssumption DEF Map
  <2> QED BY <2>1, <2>2
<1> QED BY <1>1, <1>2, <1>3, <1>4, <1>5 DEF LimitsInv

\* The limits hold at every step.
THEOREM LimitsHold == Spec => []LimitsInv
<1>1. Init => LimitsInv
  BY FS_EmptySet, NetworkPoolAssumption DEF Init, LimitsInv, Threads
<1>2. ASSUME TypeOK, LimitsInv, [Next]_vars PROVE LimitsInv'
  <2>1. CASE SharedLookup
    <3>1. PICK n \in Jobs : (\A d \in DOMAIN documents : documents[d] <= n) /\ Map(n)
      BY <2>1 DEF SharedLookup
    <3>2. n \in Nat /\ work' \in Nat \cup {Unset}
      BY <2>1, <1>2 DEF Jobs, SharedLookup, TypeOK
    <3> QED BY <2>1, <3>1, <3>2, <1>2, MapKeepsLimits DEF SharedLookup
  <2>2. CASE NextDocument
    <3>1. documents[doc'] \in Nat /\ work' \in Nat \cup {Unset}
      BY <2>2, <1>2 DEF NextDocument, TypeOK
    <3> QED BY <2>2, <3>1, <1>2, MapKeepsLimits DEF NextDocument
  <2>3. ASSUME NEW j \in Jobs, JobStep(j) PROVE LimitsInv'
    <3>0. Jobs' = Jobs /\ Threads' = Threads /\ UNCHANGED <<configured, pool>>
      BY <2>3 DEF JobStep, Take, Settles, Wakes, Busy, Returns, run, Jobs, Threads
    <3>1. CASE Take(j)
      <4>1. busy' \cup asleep' = (busy \cup asleep) \cup {j} /\ j \notin busy \cup asleep
        BY <3>1, <1>2 DEF Take, LimitsInv
      <4>2. /\ IsFiniteSet(busy' \cup asleep')
            /\ Cardinality(busy' \cup asleep') = Cardinality(busy \cup asleep) + 1
        BY <4>1, <1>2, FS_AddElement DEF LimitsInv
      <4>3. Cardinality(busy \cup asleep) \in Nat /\ Threads \in Nat
        BY <1>2, FS_CardinalityType DEF LimitsInv, TypeOK, Threads, Greater
      <4>4. Cardinality(busy' \cup asleep') <= Threads
        BY <3>1, <4>2, <4>3 DEF Take
      <4>5. queue' \cap (busy' \cup asleep') = {}
        BY <3>1, <4>1, <1>2 DEF Take, LimitsInv
      <4>6. \A i \in Jobs : /\ attempt'[i] <= MaxAttempts /\ spent'[i] <= MaxBackoff
                            /\ i \in asleep' => attempt'[i] < MaxAttempts
        BY <3>1, <4>1, <1>2, NetworkPoolAssumption DEF Take, LimitsInv, TypeOK
      <4> QED BY <3>0, <4>2, <4>4, <4>5, <4>6, <1>2 DEF LimitsInv
    <3>2. ASSUME NEW outcome, j \in busy, Returns(j, outcome) PROVE LimitsInv'
      <4>1. /\ busy' \cup asleep' \subseteq busy \cup asleep
            /\ UNCHANGED <<queue, asleep, attempt, spent>>
        BY <3>2 DEF Returns
      <4>2. /\ IsFiniteSet(busy' \cup asleep')
            /\ Cardinality(busy' \cup asleep') <= Cardinality(busy \cup asleep)
        BY <4>1, <1>2, FS_Subset DEF LimitsInv
      <4>3. /\ Cardinality(busy \cup asleep) \in Nat /\ Cardinality(busy' \cup asleep') \in Nat
            /\ Threads \in Nat
        BY <4>2, <1>2, FS_CardinalityType DEF LimitsInv, TypeOK, Threads, Greater
      <4>4. Cardinality(busy' \cup asleep') <= Threads
        BY <4>2, <4>3, <1>2 DEF LimitsInv
      <4> QED BY <3>0, <4>1, <4>2, <4>4, <1>2 DEF LimitsInv
    <3>3. CASE Settles(j)
      BY <3>2, <3>3 DEF Settles
    <3>4. ASSUME NEW pause \in Pauses(attempt[j]), Busy(j, pause) PROVE LimitsInv'
      <4>1. CASE MayRetry(j, pause)
        <5>1. busy' \cup asleep' = busy \cup asleep /\ UNCHANGED queue
          BY <3>4, <4>1 DEF Busy
        <5>2. \A i \in Jobs : /\ attempt'[i] <= MaxAttempts /\ spent'[i] <= MaxBackoff
                              /\ i \in asleep' => attempt'[i] < MaxAttempts
          BY <3>4, <4>1, <1>2 DEF Busy, MayRetry, LimitsInv, TypeOK
        <5> QED BY <3>0, <5>1, <5>2, <1>2 DEF LimitsInv
      <4>2. CASE ~MayRetry(j, pause)
        BY <3>2, <3>4, <4>2 DEF Busy
      <4> QED BY <4>1, <4>2
    <3>5. CASE Wakes(j)
      <4>1. busy' \cup asleep' = busy \cup asleep /\ UNCHANGED queue
        BY <3>5 DEF Wakes
      <4>2. \A i \in Jobs : /\ attempt'[i] <= MaxAttempts /\ spent'[i] <= MaxBackoff
                            /\ i \in asleep' => attempt'[i] < MaxAttempts
        BY <3>5, <1>2, NetworkPoolAssumption DEF Wakes, LimitsInv, TypeOK
      <4> QED BY <3>0, <4>1, <4>2, <1>2 DEF LimitsInv
    <3> QED BY <2>3, <3>1, <3>3, <3>4, <3>5 DEF JobStep
  <2>4. CASE UNCHANGED vars
    BY <2>4, <1>2 DEF vars, run, LimitsInv, Jobs, Threads
  <2> QED BY <1>2, <2>1, <2>2, <2>3, <2>4 DEF Next
<1> QED BY <1>1, <1>2, TypeCorrect, PTL DEF Spec

\* No more requests are in flight than are configured, and none is sent more often
\* or sleeps longer than the constants of http.rs say.
THEOREM NeverMore == Spec => []NeverMoreThanConfigured
<1>1. TypeOK /\ LimitsInv => NeverMoreThanConfigured
  <2> SUFFICES ASSUME TypeOK, LimitsInv PROVE NeverMoreThanConfigured
    OBVIOUS
  <2>1. Cardinality(busy \cup asleep) \in Nat
    BY FS_CardinalityType DEF LimitsInv
  <2>2. Threads \in Nat /\ Threads <= configured
    BY DEF Threads, Greater, TypeOK, LimitsInv
  <2> QED BY <2>1, <2>2 DEF TypeOK, LimitsInv, NeverMoreThanConfigured
<1> QED BY <1>1, TypeCorrect, LimitsHold, PTL
===============================================================================

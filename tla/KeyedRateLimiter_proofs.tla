------------------------- MODULE KeyedRateLimiter_proofs -------------------------
(***************************************************************************)
(* The keyed rate limiter's bound and memory, for every number of callers  *)
(* and every size of a generation.                                         *)
(***************************************************************************)
EXTENDS KeyedRateLimiter, FiniteSetTheorems, TLAPS

\* The inductive invariant.  A key that is only in the previous generation has seen the
\* whole current one, so the roll-over that forgets it comes after maxKeys others and one
\* more.
IInv ==
    /\ TypeOK
    /\ Cardinality(current) <= maxKeys
    /\ Cardinality(previous) <= maxKeys
    /\ \A k \in asked :
         \/ k \in current
         \/ k \in previous /\ current \subseteq seen[k]
         \/ Cardinality(seen[k]) > maxKeys
    /\ \A k \in Keys : tokens[k] = 0 => k \in asked

\* Finite: the sets of keys are finite, so their cardinalities are numbers.
LEMMA Finite == ASSUME NEW S, S \subseteq Keys PROVE IsFiniteSet(S) /\ Cardinality(S) \in Nat
BY LimiterAssumption, FS_Subset, FS_CardinalityType

\* InitIInv: an empty limiter satisfies the invariant.
LEMMA InitIInv == Init => IInv
<1> SUFFICES ASSUME Init PROVE IInv
  OBVIOUS
<1>1. Cardinality(current) = 0 /\ Cardinality(previous) = 0
  BY FS_EmptySet, Zenon DEF Init
<1>2. allowed \in BOOLEAN
  BY Zenon DEF Init
<1> QED BY <1>1, <1>2, LimiterAssumption DEF Init, IInv, TypeOK

\* AllowIInv: a request of any caller keeps the invariant.
LEMMA AllowIInv == ASSUME IInv, NEW key \in Keys, Allow(key) PROVE IInv'
<1> USE LimiterAssumption
<1>1. TypeOK'
  <2>1. bucket(key) \in 0 .. Burst
    BY DEF IInv, TypeOK, bucket
  <2>2. tokens' \in [Keys -> 0 .. Burst]
    BY <2>1 DEF IInv, TypeOK, Allow
  <2>3. seen' \in [Keys -> SUBSET Keys]
    BY DEF IInv, TypeOK, Allow
  <2>4. current' \subseteq Keys /\ previous' \subseteq Keys /\ asked' \subseteq Keys /\ allowed' \in BOOLEAN
    BY DEF IInv, TypeOK, Allow
  <2> QED BY <2>2, <2>3, <2>4 DEF TypeOK
<1>2. Cardinality(current) \in Nat /\ IsFiniteSet(current)
  BY Finite DEF IInv, TypeOK
<1>3. Cardinality(current') <= maxKeys /\ Cardinality(previous') <= maxKeys
  <2>1. CASE rollsOver(key)
    <3>1. current' = {key} /\ previous' = current
      BY <2>1 DEF Allow
    <3>2. Cardinality({key}) = 1
      BY FS_Singleton
    <3> QED BY <3>1, <3>2 DEF IInv
  <2>2. CASE ~rollsOver(key) /\ key \in current
    <3>1. current' = current /\ previous' = previous
      BY <2>2 DEF Allow
    <3> QED BY <3>1 DEF IInv
  <2>3. CASE ~rollsOver(key) /\ key \notin current
    <3>1. Cardinality(current) < maxKeys
      BY <2>3, <1>2 DEF rollsOver
    <3>2. Cardinality(current \cup {key}) = Cardinality(current) + 1
      BY <2>3, <1>2, FS_AddElement
    <3>3. current' = current \cup {key} /\ previous' = previous
      BY <2>3 DEF Allow
    <3> QED BY <1>2, <3>1, <3>2, <3>3 DEF IInv
  <2> QED BY <2>1, <2>2, <2>3
<1>4. ASSUME NEW k \in asked'
      PROVE  \/ k \in current'
             \/ k \in previous' /\ current' \subseteq seen'[k]
             \/ Cardinality(seen'[k]) > maxKeys
  <2>1. CASE k = key
    BY <2>1 DEF Allow
  <2>2. CASE k # key
    <3>1. k \in asked /\ k \in Keys /\ seen'[k] = seen[k] \cup {key}
      BY <2>2, <1>4 DEF Allow, IInv, TypeOK
    <3>2. CASE Cardinality(seen[k]) > maxKeys
      <4>1. seen[k] \subseteq Keys /\ seen'[k] \subseteq Keys
        BY <3>1, <1>1 DEF IInv, TypeOK
      <4>2. Cardinality(seen[k]) <= Cardinality(seen'[k])
        BY <3>1, <4>1, Finite, FS_Subset
      <4> QED BY <3>2, <4>1, <4>2, Finite
    <3>3. CASE k \in current
      <4>1. CASE rollsOver(key)
        BY <3>1, <3>3, <4>1 DEF Allow
      <4>2. CASE ~rollsOver(key)
        BY <3>3, <4>2 DEF Allow
      <4> QED BY <4>1, <4>2
    <3>4. CASE k \in previous /\ current \subseteq seen[k] /\ k \notin current
      <4>1. CASE rollsOver(key)
        <5>1. key \notin current /\ Cardinality(current) >= maxKeys
          BY <4>1 DEF rollsOver
        <5>2. Cardinality(current \cup {key}) = Cardinality(current) + 1
          BY <5>1, <1>2, FS_AddElement
        <5>3. current \cup {key} \subseteq seen'[k] /\ seen'[k] \subseteq Keys
          BY <3>1, <3>4, <1>1 DEF TypeOK
        <5>4. Cardinality(current \cup {key}) <= Cardinality(seen'[k])
          BY <5>3, Finite, FS_Subset
        <5> QED BY <1>2, <5>1, <5>2, <5>3, <5>4, Finite
      <4>2. CASE ~rollsOver(key)
        BY <3>1, <3>4, <4>2 DEF Allow
      <4> QED BY <4>1, <4>2
    <3> QED BY <3>1, <3>2, <3>3, <3>4 DEF IInv
  <2> QED BY <2>1, <2>2
<1>5. \A k \in Keys : tokens'[k] = 0 => k \in asked'
  BY DEF IInv, TypeOK, Allow
<1> QED BY <1>1, <1>3, <1>4, <1>5 DEF IInv

\* NextIInv: every step keeps the invariant.
LEMMA NextIInv == IInv /\ [Next]_vars => IInv'
<1> SUFFICES ASSUME IInv, [Next]_vars PROVE IInv'
  OBVIOUS
<1>1. CASE Tick
  BY <1>1, LimiterAssumption DEF Tick, IInv, TypeOK
<1>2. CASE UNCHANGED vars
  BY <1>2 DEF vars, IInv, TypeOK
<1> QED BY <1>1, <1>2, AllowIInv DEF Next

\* TypeCorrect: the limiter's variables keep their types.
THEOREM TypeCorrect == Spec => []TypeOK
<1>1. IInv => TypeOK
  BY DEF IInv
<1> QED BY <1>1, InitIInv, NextIInv, PTL DEF Spec

\* BoundHolds: however many callers there are, the limiter keeps two generations of
\* maxKeys buckets at most.
THEOREM BoundHolds == Spec => []MapIsBounded
<1>1. IInv => MapIsBounded
  <2> SUFFICES ASSUME IInv PROVE MapIsBounded
    OBVIOUS
  <2>1. /\ IsFiniteSet(current) /\ Cardinality(current) \in Nat
        /\ IsFiniteSet(previous) /\ Cardinality(previous) \in Nat
        /\ IsFiniteSet(current \cap previous) /\ Cardinality(current \cap previous) \in Nat
    BY Finite DEF IInv, TypeOK
  <2>2. Cardinality(current \cup previous)
          = Cardinality(current) + Cardinality(previous) - Cardinality(current \cap previous)
    BY <2>1, FS_Union
  <2> QED BY <2>1, <2>2, LimiterAssumption DEF IInv, MapIsBounded
<1> QED BY <1>1, InitIInv, NextIInv, PTL DEF Spec

\* DebtKept: a caller's bucket survives until more than maxKeys others have asked since
\* its last request.
THEOREM DebtKept == Spec => []DebtIsKept
<1>1. IInv => DebtIsKept
  <2> SUFFICES ASSUME IInv, NEW k \in asked, Cardinality(seen[k]) <= maxKeys
               PROVE  k \in current \cup previous
    BY DEF DebtIsKept
  <2>1. Cardinality(seen[k]) \in Nat
    BY Finite DEF IInv, TypeOK
  <2> QED BY <2>1, LimiterAssumption DEF IInv
<1> QED BY <1>1, InitIInv, NextIInv, PTL DEF Spec

\* RateKept: a caller without a token is refused unless more than maxKeys others have
\* asked since its last request.
THEOREM RateKept == Spec => RateHolds
<1> DEFINE Refuses == \A k \in Keys : Allow(k) /\ tokens[k] = 0 /\ Cardinality(seen[k]) <= maxKeys => ~allowed'
<1>1. IInv /\ [Next]_vars => [Refuses]_vars
  <2> SUFFICES ASSUME IInv, NEW k \in Keys, Allow(k), tokens[k] = 0, Cardinality(seen[k]) <= maxKeys
               PROVE  ~allowed'
    OBVIOUS
  <2>1. Cardinality(seen[k]) \in Nat /\ k \in asked
    BY Finite DEF IInv, TypeOK
  <2>2. k \in current \cup previous
    BY <2>1, LimiterAssumption DEF IInv
  <2>3. ~(bucket(k) > 0)
    BY <2>2 DEF bucket
  <2>4. allowed' = (bucket(k) > 0)
    BY DEF Allow
  <2> QED BY <2>3, <2>4, Zenon
<1> QED BY <1>1, InitIInv, NextIInv, PTL DEF Spec, RateHolds
=============================================================================

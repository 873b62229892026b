------------------------- MODULE RefreshHistory_proofs -------------------------
(***************************************************************************)
(* The cached verdict is the one its history defines, for every failure    *)
(* threshold and every length of history.                                  *)
(***************************************************************************)
EXTENDS RefreshHistory, TLAPS

\* What nextReadiness returns, field by field.
LEMMA NextReadinessFields ==
    ASSUME NEW previous, NEW ok \in BOOLEAN, NEW t \in Nat,
           previous # NoState => previous.failures \in Nat /\ previous.ok \in BOOLEAN
    PROVE  LET s == NextReadiness(previous, ok, t)
           IN  /\ s \in Cache
               /\ ok => s.ok /\ s.failures = 0
               /\ ~ok /\ previous = NoState => ~s.ok /\ s.failures = 1
               /\ ~ok /\ previous # NoState =>
                    /\ s.failures = previous.failures + 1
                    /\ s.ok <=> previous.ok /\ previous.failures + 1 < t
<1>1. CASE ok
  BY <1>1 DEF NextReadiness, Evaluated, Cache
<1>2. CASE ~ok /\ previous = NoState
  BY <1>2 DEF NextReadiness, Evaluated, Cache
<1>3. CASE ~ok /\ previous # NoState
  <2>1. CASE previous.ok /\ previous.failures + 1 < t
    <3>1. NextReadiness(previous, ok, t) = Evaluated(TRUE, previous.failures + 1)
      BY <1>3, <2>1 DEF NextReadiness
    <3> QED BY <1>3, <2>1, <3>1 DEF Evaluated, Cache
  <2>2. CASE ~(previous.ok /\ previous.failures + 1 < t)
    <3>1. NextReadiness(previous, ok, t) = Evaluated(FALSE, previous.failures + 1)
      BY <1>3, <2>2 DEF NextReadiness
    <3> QED BY <1>3, <2>2, <3>1 DEF Evaluated, Cache
  <2> QED BY <2>1, <2>2
<1> QED BY <1>1, <1>2, <1>3

\* The type of the history is kept by every Refresh.
THEOREM TypeCorrect == Spec => []TypeOK
<1>1. Init => TypeOK
  BY DEF Init, TypeOK
<1>2. TypeOK /\ [Next]_vars => TypeOK'
  <2> SUFFICES ASSUME TypeOK, [Next]_vars PROVE TypeOK'
    OBVIOUS
  <2>1. ASSUME NEW ok \in BOOLEAN, Refresh(ok) PROVE TypeOK'
    <3>1. threshold \in Nat
      BY RefreshHistoryConstants DEF TypeOK
    <3>2. state # NoState => state.failures \in Nat /\ state.ok \in BOOLEAN
      BY DEF TypeOK, Cache
    <3>3. state' = NextReadiness(state, ok, threshold)
      BY <2>1 DEF Refresh
    <3>4. state' \in Cache
      BY <3>1, <3>2, <3>3, NextReadinessFields
    <3> QED BY <2>1, <3>4 DEF Refresh, TypeOK
  <2>2. CASE UNCHANGED vars
    BY <2>2 DEF vars, TypeOK
  <2> QED BY <2>1, <2>2 DEF Next
<1> QED BY <1>1, <1>2, PTL DEF Spec

\* The cached streak is the trailing run of failures of the history.
THEOREM StreakIsTrailingRun == Spec => []StreakInv
<1>1. Init => StreakInv
  BY DEF Init, StreakInv
<1>2. TypeOK /\ StreakInv /\ [Next]_vars => StreakInv'
  <2> SUFFICES ASSUME TypeOK, StreakInv, [Next]_vars PROVE StreakInv'
    OBVIOUS
  <2>1. ASSUME NEW ok \in BOOLEAN, Refresh(ok) PROVE StreakInv'
    <3> DEFINE len == Len(observed)
    <3>1. observed \in Seq(BOOLEAN) /\ threshold \in Nat \ {0} /\ len \in Nat
      BY RefreshHistoryConstants DEF TypeOK
    <3>2. /\ observed' # <<>>
          /\ Len(observed') = len + 1
          /\ observed'[len + 1] = ok
          /\ \A i \in 1..len : observed'[i] = observed[i]
          /\ threshold' = threshold
      BY <2>1, <3>1 DEF Refresh
    <3>3. state # NoState => state.failures \in Nat /\ state.ok \in BOOLEAN
      BY DEF TypeOK, Cache
    <3>4. state' = NextReadiness(state, ok, threshold)
      BY <2>1 DEF Refresh
    <3>5. /\ state' \in Cache
          /\ ok => state'.ok /\ state'.failures = 0
          /\ ~ok /\ state = NoState => ~state'.ok /\ state'.failures = 1
          /\ ~ok /\ state # NoState =>
               /\ state'.failures = state.failures + 1
               /\ state'.ok <=> state.ok /\ state.failures + 1 < threshold
      <4>1. threshold \in Nat
        BY <3>1
      <4> QED BY <3>3, <3>4, <4>1, NextReadinessFields, Zenon
    <3>6. state'.kind = "evaluated"
      BY <3>5 DEF Cache
    <3>7. SUFFICES \E m \in 0..(len + 1) :
             /\ state'.failures = m
             /\ state'.ok <=> m < len + 1 /\ m < threshold
             /\ \A i \in 1..(len + 1) : i > len + 1 - m => ~observed'[i]
             /\ m < len + 1 => observed'[len + 1 - m]
      BY <3>2, <3>6 DEF StreakInv
    <3>8. CASE ok
      <4>1. 0 \in 0..(len + 1) /\ 0 < len + 1 /\ 0 < threshold /\ len + 1 - 0 = len + 1
        BY <3>1
      <4>2. \A i \in 1..(len + 1) : ~(i > len + 1 - 0)
        BY <3>1
      <4> QED BY <3>2, <3>5, <3>8, <4>1, <4>2
    <3>9. CASE ~ok /\ observed = <<>>
      <4>1. state = NoState /\ len = 0
        BY <3>9 DEF StreakInv
      <4> QED BY <3>2, <3>5, <3>9, <4>1
    <3>10. CASE ~ok /\ observed # <<>>
      <4>1. PICK n \in 0..len :
              /\ state.kind = "evaluated" /\ state.failures = n
              /\ state.ok <=> n < len /\ n < threshold
              /\ \A i \in 1..len : i > len - n => ~observed[i]
              /\ n < len => observed[len - n]
        BY <3>10 DEF StreakInv
      <4>2. state # NoState
        BY <4>1 DEF NoState
      <4>3. n + 1 \in 0..(len + 1)
        BY <3>1
      <4>4. state'.failures = n + 1
        BY <3>5, <3>10, <4>1, <4>2
      <4>5. state'.ok <=> n + 1 < len + 1 /\ n + 1 < threshold
        BY <3>1, <3>5, <3>10, <4>1, <4>2
      <4>6. \A i \in 1..(len + 1) : i > len + 1 - (n + 1) => ~observed'[i]
        BY <3>1, <3>2, <3>10, <4>1
      <4>7. n + 1 < len + 1 => observed'[len + 1 - (n + 1)]
        BY <3>1, <3>2, <4>1
      <4> QED BY <4>3, <4>4, <4>5, <4>6, <4>7
    <3> QED BY <3>8, <3>9, <3>10
  <2>2. CASE UNCHANGED vars
    BY <2>2 DEF vars, StreakInv
  <2> QED BY <2>1, <2>2 DEF Next
<1> QED BY <1>1, <1>2, TypeCorrect, PTL DEF Spec

\* The verdict Cached serves is healthy exactly when one of the last threshold
\* evaluations succeeded.
THEOREM VerdictCorrect == Spec => []VerdictMatchesHistory
<1>1. TypeOK /\ StreakInv => VerdictMatchesHistory
  <2> SUFFICES ASSUME TypeOK, StreakInv, state # NoState
               PROVE  state.ok <=> \E i \in 1..Len(observed) :
                                      observed[i] /\ Len(observed) - i < threshold
    BY DEF VerdictMatchesHistory
  <2>1. observed \in Seq(BOOLEAN) /\ threshold \in Nat /\ Len(observed) \in Nat
    BY RefreshHistoryConstants DEF TypeOK
  <2>2. PICK n \in 0..Len(observed) :
          /\ state.ok <=> n < Len(observed) /\ n < threshold
          /\ \A i \in 1..Len(observed) : i > Len(observed) - n => ~observed[i]
          /\ n < Len(observed) => observed[Len(observed) - n]
    BY DEF StreakInv
  <2>3. ASSUME n < Len(observed) /\ n < threshold
        PROVE  \E i \in 1..Len(observed) : observed[i] /\ Len(observed) - i < threshold
    <3>1. Len(observed) - n \in 1..Len(observed)
      BY <2>1, <2>3
    <3>2. Len(observed) - (Len(observed) - n) < threshold
      BY <2>1, <2>3
    <3> QED BY <2>2, <2>3, <3>1, <3>2
  <2>4. ASSUME NEW i \in 1..Len(observed), observed[i], Len(observed) - i < threshold
        PROVE  n < Len(observed) /\ n < threshold
    BY <2>1, <2>2, <2>4
  <2> QED BY <2>2, <2>3, <2>4
<1> QED BY <1>1, TypeCorrect, StreakIsTrailingRun, PTL
=============================================================================

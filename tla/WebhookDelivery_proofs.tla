-------------------------- MODULE WebhookDelivery_proofs --------------------------
(***************************************************************************)
(* What is proved of webhook deliveries for every backoff, deadline,       *)
(* number of addresses, Retry-After value and number of attempts.          *)
(***************************************************************************)
EXTENDS WebhookDelivery, Integers, TLAPS

\* NextRetryBounds: webhookNextRetry answers a later time, one that is not beyond the
\* delivery's deadline unless the deadline has passed, and not before the receiver's
\* Retry-After unless the deadline comes first.
THEOREM NextRetryBounds ==
    ASSUME NEW created \in Nat, NEW backoff \in Nat \ {0}, NEW hint1 \in Nat \cup {NoTime}, NEW now1 \in Nat
    PROVE  LET t == webhookNextRetry(created, backoff, hint1, now1)
           IN  /\ t > now1
               /\ ~webhookDeliveryExpired(created, now1) => t <= created + MaxElapsed
               /\ webhookDeliveryExpired(created, now1) => t = now1 + 1
               /\ hint1 # NoTime /\ ~webhookDeliveryExpired(created, now1)
                    => t >= hint1 \/ t = created + MaxElapsed
<1>1. CASE hint1 = NoTime
  BY <1>1, RetryAssumption DEF webhookNextRetry, withinDeadline, dueWithHint, least, webhookDeliveryExpired
<1>2. CASE hint1 \in Nat
  BY <1>2, RetryAssumption DEF webhookNextRetry, withinDeadline, dueWithHint, least, webhookDeliveryExpired
<1> QED BY <1>1, <1>2

\* CeilingHolds: whatever the due time, the deadline caps it while it is in the future.
LEMMA CeilingHolds ==
    ASSUME NEW d, NEW n \in Nat
    PROVE  withinDeadline(d, 0 + MaxElapsed, n) <= MaxElapsed \/ n >= MaxElapsed
BY RetryAssumption DEF withinDeadline, least

\* BackoffIsInt: a backoff is an integer.
LEMMA BackoffIsInt == ASSUME NEW n, NEW b \in webhookBackoff(n) PROVE b \in Int
<1>1. PICK d \in Int : b = least(d, MaxBackoff)
  BY DEF webhookBackoff, jittered
<1> QED BY <1>1, RetryAssumption DEF least

\* Times: a stored Retry-After.
Times == Nat \cup {NoTime}

\* FloorHolds: the next attempt is not before the stored Retry-After, or it is not before
\* the deadline.
LEMMA FloorHolds ==
    ASSUME NEW b \in Int, NEW h \in Times, NEW n \in Nat
    PROVE  LET t == webhookNextRetry(0, b, h, n)
           IN  t \in Int /\ (h = NoTime \/ t >= h \/ t >= MaxElapsed)
<1>1. CASE h = NoTime
  BY <1>1, RetryAssumption DEF webhookNextRetry, withinDeadline, dueWithHint, least
<1>2. CASE h \in Nat
  BY <1>2, RetryAssumption DEF webhookNextRetry, withinDeadline, dueWithHint, least
<1> QED BY <1>1, <1>2 DEF Times

\* RetryAfterIsTime: what parseRetryAfter makes of a header is a delay or nothing.
LEMMA RetryAfterIsTime == ASSUME NEW n \in Nat, NEW t \in retryAfters(n) PROVE t \in Times
<1>1. ASSUME NEW h \in Hints PROVE secondsHint(h) \in Times
  BY <1>1, RetryAssumption DEF secondsHint, least, Times
<1>2. ASSUME NEW h \in Hints, NEW skew \in {0, 1} PROVE dateHint(n + h, n + skew) \in Times
  BY <1>2, RetryAssumption DEF dateHint, least, Times
<1> QED BY <1>1, <1>2 DEF retryAfters, Times

-----------------------------------------------------------------------------
\* The types the argument needs.
Typed ==
    /\ now \in Nat /\ attempt \in Nat /\ due \in Int /\ began \in Nat /\ hint \in Times
    /\ step \in {"none", "begin", "send", "report"}

\* What Work has found out and River has not stored: a result that says what happened, and
\* the same metadata in the process as in what is to be stored.
ReturnedTrue ==
    step = "report" =>
      /\ returned.result \in {"nil", "cancel", "error"}
      /\ returned.result = "nil" => acked
      /\ returned.view \in Times /\ returned.set = returned.view

\* An attempt that is still looking for an address has written nothing, and no write is of a
\* later attempt than the current one.
WritesInv ==
    /\ \A w \in writes : w[1] \in Nat /\ w[1] <= attempt
    /\ step \in {"begin", "send"} => \A w \in writes : w[1] # attempt
    /\ OneAddressPerAttempt

\* What River has stored: the schedule keeps to the stored Retry-After and to the deadline.
JobInv ==
    /\ step # "none" => job = "running"
    /\ CompletedIsAcked
    /\ DueByDeadline
    /\ job = "available" => hint = NoTime \/ due >= hint \/ due >= MaxElapsed

\* The inductive invariant.
IInv == Typed /\ ReturnedTrue /\ WritesInv /\ JobInv

\* InitIInv: a delivery starts without attempts, writes or an answer.
LEMMA InitIInv == Init => IInv
BY RetryAssumption DEF Init, IInv, Typed, Times, ReturnedTrue, WritesInv, JobInv,
   OneAddressPerAttempt, CompletedIsAcked, DueByDeadline

\* WriteOnce: an execution that was sending adds at most its own address to the writes, and
\* stops looking for another.
LEMMA WriteOnce ==
    ASSUME Typed, WritesInv, attempt' = attempt, step' \notin {"begin", "send"},
           UNCHANGED writes \/ (step = "send" /\ Wrote)
    PROVE  WritesInv'
<1>1. CASE UNCHANGED writes
  BY <1>1 DEF WritesInv, OneAddressPerAttempt
<1>2. CASE step = "send" /\ Wrote
  BY <1>2 DEF Typed, WritesInv, OneAddressPerAttempt, Wrote
<1> QED BY <1>1, <1>2

\* ReturnIInv: what Work returns waits to be stored, whatever it found out.
LEMMA ReturnIInv ==
    ASSUME IInv, step # "none",
           NEW result \in {"nil", "cancel", "error"}, NEW m, Return(result, m),
           m.view \in Times, m.set = m.view,
           result = "nil" => acked', acked => acked',
           UNCHANGED writes \/ (step = "send" /\ Wrote)
    PROVE  IInv'
<1>1. Typed'
  BY DEF Return, Forget, jobVars, IInv, Typed
<1>2. ReturnedTrue'
  BY DEF Return, ReturnedTrue
<1>3. WritesInv'
  BY WriteOnce DEF Return, jobVars, IInv
<1>4. JobInv'
  BY DEF Return, jobVars, IInv, JobInv, CompletedIsAcked, DueByDeadline
<1> QED BY <1>1, <1>2, <1>3, <1>4 DEF IInv

\* StoreIInv: River stores how an execution ended and schedules the next attempt.
LEMMA StoreIInv ==
    ASSUME IInv, NEW result \in {"nil", "cancel", "error"}, NEW h \in Times, Store(result, h, h),
           result = "nil" => acked
    PROVE  IInv'
<1>1. due' \in Int /\ (job' = "available" => /\ due' <= MaxElapsed \/ now' >= MaxElapsed
                                             /\ h = NoTime \/ due' >= h \/ due' >= MaxElapsed)
  <2>1. CASE job' # "available"
    BY <2>1 DEF Store, IInv, Typed
  <2>2. CASE job' = "available"
    <3>1. PICK b \in webhookBackoff(attempt) : due' = webhookNextRetry(0, b, h, now)
      BY <2>2 DEF Store
    <3>2. b \in Int /\ now \in Nat /\ now' = now
      BY BackoffIsInt DEF Store, IInv, Typed
    <3>3. due' \in Int /\ (h = NoTime \/ due' >= h \/ due' >= MaxElapsed)
      BY <3>1, <3>2, FloorHolds
    <3>4. due' <= MaxElapsed \/ now' >= MaxElapsed
      BY <3>1, <3>2, CeilingHolds DEF webhookNextRetry
    <3> QED BY <3>3, <3>4
  <2> QED BY <2>1, <2>2
<1>2. /\ hint' = h /\ step' = "none" /\ (job' = "completed" => acked')
      /\ UNCHANGED <<now, attempt, began, writes>>
  BY DEF Store
<1>3. Typed'
  BY <1>1, <1>2 DEF IInv, Typed
<1>4. WritesInv'
  BY <1>2, WriteOnce DEF IInv
<1>5. JobInv' /\ ReturnedTrue'
  BY <1>1, <1>2 DEF JobInv, CompletedIsAcked, DueByDeadline, ReturnedTrue
<1> QED BY <1>3, <1>4, <1>5 DEF IInv

\* NextIInv: every step keeps the invariant.
LEMMA NextIInv == IInv /\ [Next]_vars => IInv'
<1> SUFFICES ASSUME IInv, [Next]_vars PROVE IInv'
  OBVIOUS
<1>k. kept.view \in Times /\ kept.set = kept.view
  BY DEF kept, IInv, Typed
<1>1. CASE Tick
  <2>1. now' \in Nat /\ now' >= now /\ UNCHANGED <<jobVars, execVars, writes, acked>>
    BY <1>1, RetryAssumption DEF Tick, IInv, Typed
  <2>2. Typed' /\ ReturnedTrue' /\ WritesInv'
    BY <2>1 DEF IInv, Typed, ReturnedTrue, WritesInv, OneAddressPerAttempt, jobVars, execVars
  <2>3. JobInv'
    BY <2>1, RetryAssumption DEF IInv, Typed, JobInv, CompletedIsAcked, DueByDeadline, jobVars, execVars
  <2> QED BY <2>2, <2>3 DEF IInv
<1>2. CASE Fetch
  <2>1. Typed' /\ ReturnedTrue'
    BY <1>2 DEF Fetch, IInv, Typed, ReturnedTrue
  <2>2. WritesInv'
    BY <1>2 DEF Fetch, IInv, Typed, WritesInv, OneAddressPerAttempt
  <2>3. JobInv'
    BY <1>2 DEF Fetch, JobInv, CompletedIsAcked, DueByDeadline
  <2> QED BY <2>1, <2>2, <2>3 DEF IInv
<1>3. CASE Begin
  <2>1. CASE Return("cancel", kept)
    BY <1>3, <2>1, <1>k, ReturnIInv DEF Begin
  <2>2. CASE \E p \in prepareSend : Return(prepareFailure(p[1]), kept)
    <3> PICK p \in prepareSend : Return(prepareFailure(p[1]), kept)
      BY <2>2
    <3>1. prepareFailure(p[1]) \in {"cancel", "error"}
      BY DEF prepareFailure
    <3> QED BY <1>3, <1>k, <3>1, ReturnIInv DEF Begin
  <2>3. CASE step' = "send" /\ began' = now /\ UNCHANGED <<now, jobVars, returned>>
    <3>1. Typed' /\ ReturnedTrue'
      BY <2>3 DEF IInv, Typed, ReturnedTrue, jobVars
    <3>2. WritesInv' /\ JobInv'
      BY <1>3, <2>3 DEF Begin, IInv, WritesInv, JobInv, OneAddressPerAttempt, CompletedIsAcked, DueByDeadline, jobVars
    <3> QED BY <3>1, <3>2 DEF IInv
  <2> QED BY <1>3, <2>1, <2>2, <2>3 DEF Begin
<1>4. CASE Report
  BY <1>4, StoreIInv DEF Report, IInv, ReturnedTrue
<1>5. CASE Crash
  <2>1. /\ step' = "none" /\ began' = 0 /\ UNCHANGED <<now, jobVars, acked>>
        /\ UNCHANGED writes \/ (step = "send" /\ Wrote)
    BY <1>5 DEF Crash, Forget
  <2>2. Typed' /\ ReturnedTrue'
    BY <2>1 DEF IInv, Typed, ReturnedTrue, jobVars
  <2>3. WritesInv'
    BY <2>1, WriteOnce DEF IInv, jobVars
  <2>4. JobInv'
    BY <2>1 DEF IInv, JobInv, CompletedIsAcked, DueByDeadline, jobVars
  <2> QED BY <2>2, <2>3, <2>4 DEF IInv
<1>6. CASE Rescue
  BY <1>6, StoreIInv DEF Rescue, IInv, Typed
<1>7. ASSUME NEW certainty \in {"not sent", "may have sent"}, NEW permanent \in BOOLEAN,
             SendFails(certainty, permanent)
      PROVE  IInv'
  <2>1. CASE triesNext(certainty) /\ address < addresses
    <3>1. UNCHANGED <<now, jobVars, step, began, returned, writes, acked>>
      BY <1>7, <2>1 DEF SendFails, triesNext
    <3> QED BY <3>1 DEF IInv, Typed, ReturnedTrue, WritesInv, JobInv, OneAddressPerAttempt,
               CompletedIsAcked, DueByDeadline, jobVars
  <2>2. CASE ~(triesNext(certainty) /\ address < addresses)
    <3>1. Return(IF permanent THEN "cancel" ELSE "error", kept)
      BY <1>7, <2>2 DEF SendFails
    <3>2. step = "send" /\ acked' = acked /\ (UNCHANGED writes \/ (step = "send" /\ Wrote))
      BY <1>7 DEF SendFails
    <3>3. (IF permanent THEN "cancel" ELSE "error") \in {"cancel", "error"}
      OBVIOUS
    <3> QED BY <1>k, <3>1, <3>2, <3>3, ReturnIInv
  <2> QED BY <2>1, <2>2
<1>8. ASSUME NEW status \in {"2xx", "retryable", "other"}, NEW delay \in retryAfters(began), Respond(status, delay)
      PROVE  IInv'
  <2>1. classifyDelivery(status) \in {"nil", "cancel", "error"} /\ (classifyDelivery(status) = "nil" => status = "2xx")
    BY DEF classifyDelivery
  <2>2. step = "send" /\ Wrote /\ (status = "2xx" => acked') /\ (acked => acked')
    BY <1>8 DEF Respond
  <2>3. CASE Return(classifyDelivery(status), kept)
    BY <1>k, <2>1, <2>2, <2>3, ReturnIInv
  <2>4. CASE delay # NoTime /\ Return("error", rememberRetryAfter(began + delay))
    <3>1. began \in Nat /\ delay \in Nat
      BY <2>4, RetryAfterIsTime DEF IInv, Typed, Times
    <3>2. /\ rememberRetryAfter(began + delay).view \in Times
          /\ rememberRetryAfter(began + delay).set = rememberRetryAfter(began + delay).view
      BY <3>1 DEF rememberRetryAfter, Times
    <3> QED BY <2>2, <2>4, <3>2, ReturnIInv
  <2> QED BY <1>8, <2>3, <2>4 DEF Respond
<1>9. CASE UNCHANGED vars
  BY <1>9 DEF vars, jobVars, execVars, IInv, Typed, ReturnedTrue, WritesInv, JobInv,
     OneAddressPerAttempt, CompletedIsAcked, DueByDeadline
<1> QED BY <1>1, <1>2, <1>3, <1>4, <1>5, <1>6, <1>7, <1>8, <1>9 DEF Next, Done

\* AlwaysIInv: the invariant holds of every behaviour.
LEMMA AlwaysIInv == Spec => []IInv
BY InitIInv, NextIInv, PTL DEF Spec

\* DeliverySafety: in every behaviour of a delivery, an attempt reaches one address at
\* most, a completed delivery was acknowledged, and no sending attempt is scheduled beyond
\* the delivery's deadline, wherever processes end.
THEOREM DeliverySafety == Spec => [](OneAddressPerAttempt /\ CompletedIsAcked /\ DueByDeadline)
<1>1. IInv => OneAddressPerAttempt /\ CompletedIsAcked /\ DueByDeadline
  BY DEF IInv, WritesInv, JobInv
<1> QED BY <1>1, AlwaysIInv, PTL

\* StoredHintIsFloor: in every behaviour, no attempt starts before the Retry-After that is
\* stored with its job, save one that comes after the deadline and only cancels.
THEOREM StoredHintIsFloor == Spec => RetryAfterHonoured
<1>1. IInv => (Fetch => hint = NoTime \/ now >= hint \/ now >= MaxElapsed)
  <2> SUFFICES ASSUME IInv, Fetch PROVE hint = NoTime \/ now >= hint \/ now >= MaxElapsed
    OBVIOUS
  <2>1. now >= due /\ (hint = NoTime \/ due >= hint \/ due >= MaxElapsed)
    BY DEF Fetch, IInv, JobInv
  <2>2. now \in Nat /\ due \in Int /\ (hint = NoTime \/ hint \in Nat)
    BY DEF IInv, Typed, Times
  <2> QED BY <2>1, <2>2, RetryAssumption
<1> QED BY <1>1, AlwaysIInv, PTL DEF RetryAfterHonoured
=============================================================================

------------------------- MODULE OutboundToken_proofs -------------------------
(***************************************************************************)
(* CredentialIsSound for any number of callers, any clock and any lead     *)
(* time.  The invariant ties the mutex of the cache to the one call that   *)
(* acquires, and says what a call has passed before it gets there.         *)
(***************************************************************************)
EXTENDS OutboundToken, FiniteSetTheorems, TLAPS

\* A set whose members are all equal has at most one.
LEMMA AtMostOne ==
    ASSUME NEW S, \A a, b \in S : a = b
    PROVE  Cardinality(S) <= 1
<1>1. CASE S = {}
  BY <1>1, FS_EmptySet
<1>2. CASE S # {}
  <2>1. PICK a : S = {a}
    BY <1>2
  <2> QED BY <2>1, FS_Singleton
<1> QED BY <1>1, <1>2

\* A call that ends keeps what it was started with.
LEMMA ReturnFields ==
    ASSUME NEW r \in CallState, NEW res \in {"sent", "unavailable", "invalid configuration"}
    PROVE  /\ Return(r, res) \in CallState
           /\ Return(r, res).at = "done" /\ Return(r, res).res = res
           /\ Return(r, res).own <=> r.own
           /\ Return(r, res).secure <=> r.secure
           /\ Return(r, res).late <=> r.late
BY DEF Return, CallState

\* A call that is not under way has nothing to say.
LEMMA IdleFields ==
    ASSUME NEW r, r = Idle \/ r = [Idle EXCEPT !.at = "done"]
    PROVE  r \in CallState /\ r.at \in {"idle", "done"} /\ r.res = None /\ ~r.late
<1>1. CASE r = Idle
  BY <1>1 DEF Idle, CallState
<1>2. CASE r = [Idle EXCEPT !.at = "done"]
  <2>1. r = [at |-> "done", kind |-> "http", own |-> FALSE, secure |-> TRUE, expiry |-> None,
             late |-> FALSE, res |-> None]
    BY <1>2 DEF Idle
  <2> QED BY <2>1 DEF CallState
<1> QED BY <1>1, <1>2

\* One call moves on to the state r, and may take or leave the mutex.
LEMMA Update ==
    ASSUME TokenInv, NEW c \in Calls, NEW r \in CallState, call' = [call EXCEPT ![c] = r],
           UNCHANGED <<now, closed, asked>>, cache' \in Nat \cup {None},
           CallOk(c, r, lock', now, closed),
           \/ lock' = lock
           \/ lock = None /\ lock' = c
           \/ lock = c /\ lock' = None,
           None \notin Calls
    PROVE  TokenInv'
<1>1. ASSUME NEW d \in Calls, d # c PROVE CallOk(d, call'[d], lock', now', closed')
  <2>1. CallOk(d, call[d], lock, now, closed) /\ call'[d] = call[d]
    BY <1>1 DEF TokenInv
  <2>2. call[d].at \in {"acquire", "provider"} => lock' = d
    BY <1>1, <2>1 DEF CallOk
  <2> QED BY <2>1, <2>2 DEF CallOk
<1>2. call'[c] = r
  BY DEF TokenInv
<1> QED BY <1>1, <1>2 DEF TokenInv

\* A step of one call keeps the invariant.
LEMMA CallStep ==
    ASSUME EarlyExpiry \in Nat, MaxTime \in Nat, None \notin Calls, None # "sent",
           TokenInv, NEW c \in Calls,
           \/ \E kind \in {"http", "grpc"}, own, secure \in BOOLEAN : Start(c, kind, own, secure)
           \/ Step(c) \/ Again(c)
    PROVE  TokenInv'
<1> DEFINE failed == Return(call[c], "unavailable")
<1>0. /\ call[c] \in CallState /\ cache \in Nat \cup {None} /\ now \in Nat /\ closed \in BOOLEAN
      /\ CallOk(c, call[c], lock, now, closed)
  BY DEF TokenInv
<1>a. ASSUME NEW holder PROVE failed \in CallState /\ CallOk(c, failed, holder, now, closed)
  BY <1>0, ReturnFields DEF CallOk
<1>1. ASSUME NEW kind \in {"http", "grpc"}, NEW own \in BOOLEAN, NEW secure \in BOOLEAN,
             Start(c, kind, own, secure)
      PROVE  TokenInv'
  <2> DEFINE r == [Idle EXCEPT !.at = "ask", !.kind = kind, !.own = own, !.secure = secure]
  <2>1. r \in CallState /\ r.res = None /\ r.at = "ask" /\ r.own = own /\ r.secure = secure /\ ~r.late
    BY DEF Idle, CallState
  <2> DEFINE s == [r EXCEPT !.late = closed]
  <2>2. s \in CallState /\ s.res = None /\ s.at = "ask" /\ s.own = own /\ s.secure = secure
        /\ s.late = closed
    BY <1>0 DEF Idle, CallState
  <2> HIDE DEF r, s
  <2>3. \E q \in CallState : call' = [call EXCEPT ![c] = q] /\ CallOk(c, q, lock, now, closed)
    <3>1. CASE own
      <4>1. call' = [call EXCEPT ![c] = Return(r, "invalid configuration")]
        BY <1>1, <3>1 DEF Start, Set, competes, r
      <4> QED BY <4>1, <2>1, ReturnFields DEF CallOk
    <3>2. CASE ~own /\ ~secure
      <4>1. call' = [call EXCEPT ![c] = Return(r, "unavailable")]
        BY <1>1, <3>2 DEF Start, Set, competes, r
      <4> QED BY <4>1, <2>1, ReturnFields DEF CallOk
    <3>3. CASE ~own /\ secure
      <4>1. call' = [call EXCEPT ![c] = s]
        BY <1>1, <3>3 DEF Start, Set, competes, r, s
      <4> QED BY <4>1, <2>2, <3>3 DEF CallOk
    <3> QED BY <3>1, <3>2, <3>3
  <2> QED BY <1>0, <1>1, <2>3, Update DEF Start
<1>2. CASE Available(c)
  <2> DEFINE r == [call[c] EXCEPT !.at = "wait"]
  <2>1. ~closed => r \in CallState /\ CallOk(c, r, lock, now, closed)
    BY <1>0, <1>2 DEF Available, CallOk, CallState
  <2>2. call' = [call EXCEPT ![c] = IF closed THEN failed ELSE r]
    BY <1>2 DEF Available, Set
  <2> QED BY <1>0, <1>a, <1>2, <2>1, <2>2, Update DEF Available
<1>3. CASE Lock(c)
  <2> DEFINE sent == Return(call[c], "sent")
             s == [sent EXCEPT !.expiry = cache]
             r == [call[c] EXCEPT !.at = "acquire"]
  <2>1. sent \in CallState /\ sent.at = "done" /\ ~sent.own /\ sent.secure /\ ~sent.late
    BY <1>0, <1>3, ReturnFields DEF CallOk, Lock
  <2>2. s \in CallState /\ s.at = "done" /\ ~s.own /\ s.secure /\ ~s.late /\ s.expiry = cache
    <3> HIDE DEF sent
    <3> QED BY <1>0, <2>1 DEF CallState
  <2>3. valid(cache) => CallOk(c, s, lock, now, closed)
    <3> HIDE DEF s
    <3> QED BY <2>2 DEF CallOk, valid
  <2>4. r \in CallState /\ CallOk(c, r, c, now, closed)
    BY <1>0, <1>3 DEF Lock, CallOk, CallState
  <2> HIDE DEF s, r
  <2>5. \/ valid(cache) /\ call' = [call EXCEPT ![c] = s] /\ lock' = lock
        \/ call' = [call EXCEPT ![c] = r] /\ lock = None /\ lock' = c
    BY <1>3 DEF Lock, Set, s, r
  <2> QED BY <1>0, <1>3, <2>2, <2>3, <2>4, <2>5, Update DEF Lock
<1>4. CASE Ask(c)
  <2> DEFINE r == [call[c] EXCEPT !.at = "provider"]
  <2>1. r \in CallState /\ CallOk(c, r, lock, now, closed) /\ lock = c
    BY <1>0, <1>4 DEF Ask, CallOk, CallState
  <2> HIDE DEF r, failed
  <2>2. /\ \/ call' = [call EXCEPT ![c] = r] /\ lock' = lock
           \/ call' = [call EXCEPT ![c] = failed] /\ lock' = None
        /\ asked' = asked
    BY <1>4 DEF Ask, mayAsk, Set, r, failed
  <2> QED BY <1>0, <1>a, <1>4, <2>1, <2>2, Update DEF Ask
<1>5. ASSUME NEW wellFormed \in BOOLEAN, NEW expiry \in Expiries, Answer(c, wellFormed, expiry)
      PROVE  TokenInv'
  <2> DEFINE sent == Return(call[c], "sent")
             s == [sent EXCEPT !.expiry = expiry]
  <2>1. expiry \in Nat \cup {None} /\ lock = c /\ lock' = None
    BY <1>0, <1>5 DEF Expiries, Answer, CallOk
  <2>2. sent \in CallState /\ sent.at = "done" /\ ~sent.own /\ sent.secure /\ ~sent.late
    BY <1>0, <1>5, ReturnFields DEF CallOk, Answer
  <2>3. s \in CallState /\ s.at = "done" /\ ~s.own /\ s.secure /\ ~s.late /\ s.expiry = expiry
    <3> HIDE DEF sent
    <3> QED BY <2>1, <2>2 DEF CallState
  <2> HIDE DEF s, failed
  <2>4. sanitizeToken(wellFormed, expiry) => CallOk(c, s, None, now, closed)
    BY <1>0, <2>1, <2>3 DEF CallOk, sanitizeToken
  <2>5. \/ sanitizeToken(wellFormed, expiry) /\ cache' = expiry /\ call' = [call EXCEPT ![c] = s]
        \/ cache' = cache /\ call' = [call EXCEPT ![c] = failed]
    BY <1>5 DEF Answer, Set, s, failed
  <2> QED BY <1>0, <1>a, <1>5, <2>1, <2>3, <2>4, <2>5, Update DEF Answer
<1>6. CASE GiveUp(c)
  BY <1>0, <1>a, <1>6, Update DEF GiveUp, Set, CallOk
<1>7. CASE Again(c)
  <2>1. Idle \in CallState /\ CallOk(c, Idle, lock, now, closed)
    BY IdleFields DEF CallOk, Idle
  <2> QED BY <1>0, <1>7, <2>1, Update DEF Again, Set
<1> QED BY <1>1, <1>2, <1>3, <1>4, <1>5, <1>6, <1>7 DEF Step

\* Close and the clock keep the invariant: a credential that was sent is not looked at again.
LEMMA WorldStep ==
    ASSUME EarlyExpiry \in Nat, None # "sent", TokenInv, Close \/ CancelProcess \/ Tick
    PROVE  TokenInv'
<1>1. CASE Close
  BY <1>1 DEF Close, TokenInv, CallOk
<1>2. CASE CancelProcess
  BY <1>2 DEF CancelProcess, TokenInv, CallOk
<1>3. CASE Tick
  <2> DEFINE gone == [Idle EXCEPT !.at = "done"]
  <2>1. gone \in CallState /\ gone.at \in {"idle", "done"} /\ gone.res = None /\ ~gone.late /\ gone.at = "done"
    BY IdleFields DEF Idle
  <2> HIDE DEF gone
  <2>2. call' = [c \in Calls |-> IF call[c].at = "done" THEN gone ELSE call[c]]
    BY <1>3 DEF Tick, gone
  <2>3. ASSUME NEW c \in Calls PROVE call'[c] \in CallState /\ CallOk(c, call'[c], lock', now', closed')
    <3>1. CallOk(c, call[c], lock, now, closed) /\ call[c] \in CallState
      BY DEF TokenInv
    <3>2. lock' = lock /\ closed' = closed
      BY <1>3 DEF Tick
    <3>3. CASE call[c].at = "done"
      BY <2>1, <2>2, <3>3 DEF CallOk
    <3>4. CASE call[c].at # "done"
      BY <2>2, <3>1, <3>2, <3>4 DEF CallOk
    <3> QED BY <3>3, <3>4
  <2>4. call' \in [Calls -> CallState]
    BY <2>2, <2>3
  <2> QED BY <1>3, <2>3, <2>4 DEF Tick, TokenInv
<1> QED BY <1>1, <1>2, <1>3

\* One credential, the client's own, secure, early enough, not after Close; one acquisition at a
\* time, none once Close has canceled its context: HTTPClient.Do, GRPCClient, clientTokenSource.Token and Close.
THEOREM CredentialSound ==
    ASSUME EarlyExpiry \in Nat, MaxTime \in Nat, None \notin Calls, None # "sent"
    PROVE  Spec => []CredentialIsSound
<1>1. Init => TokenInv
  <2>1. Idle \in CallState /\ Idle.at = "idle" /\ Idle.res = None /\ ~Idle.late
    BY IdleFields DEF Idle
  <2> SUFFICES ASSUME Init PROVE TokenInv
    OBVIOUS
  <2>2. ASSUME NEW c \in Calls PROVE call[c] = Idle /\ CallOk(c, call[c], lock, now, closed)
    BY <2>1 DEF Init, CallOk
  <2> QED BY <2>1, <2>2 DEF Init, TokenInv
<1>2. TokenInv /\ [Next]_vars => TokenInv'
  <2> SUFFICES ASSUME TokenInv, [Next]_vars PROVE TokenInv'
    OBVIOUS
  <2>1. CASE UNCHANGED vars
    BY <2>1 DEF vars, TokenInv
  <2> QED BY <2>1, CallStep, WorldStep DEF Next
<1>3. TokenInv => CredentialIsSound
  <2> SUFFICES ASSUME TokenInv PROVE CredentialIsSound
    OBVIOUS
  <2> DEFINE S == {c \in Calls : call[c].at \in {"acquire", "provider"}}
  <2>1. \A a, b \in S : a = b
    BY DEF TokenInv, CallOk
  <2>2. Cardinality(S) <= 1
    BY <2>1, AtMostOne
  <2> QED BY <2>2 DEF TokenInv, CallOk, CredentialIsSound
<1> QED BY <1>1, <1>2, <1>3, PTL DEF Spec

=============================================================================

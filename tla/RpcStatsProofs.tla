--------------------------- MODULE RpcStatsProofs ---------------------------
(* Proofs about the request limits of RpcStats. *)
EXTENDS RpcStats, TLAPS

(* The remainder is the only one. *)
LEMMA ModUnique ==
  ASSUME NEW k \in Int, NEW r \in Int, 0 <= r, r < RATE_SECONDS
  PROVE  (RATE_SECONDS * k + r) % RATE_SECONDS = r
BY RateAssumption

(* pos and next are two different places of the ring (informant.rs:59-60).  *)
LEMMA RingPositions ==
  ASSUME NEW n \in Nat
  PROVE  LET p == n % RATE_SECONDS IN
           /\ p \in Positions
           /\ (p + 1) % RATE_SECONDS \in Positions
           /\ (p + 1) % RATE_SECONDS # p
           /\ (n + 1) % RATE_SECONDS = (p + 1) % RATE_SECONDS
<1> DEFINE p == n % RATE_SECONDS
<1>1. p \in Positions
  BY RateAssumption DEF Positions
<1>2. p + 1 < RATE_SECONDS => (p + 1) % RATE_SECONDS = p + 1
  BY <1>1, RateAssumption DEF Positions
<1>3. p + 1 = RATE_SECONDS => (p + 1) % RATE_SECONDS = 0
  BY <1>1, RateAssumption DEF Positions
<1>4. (n + 1) % RATE_SECONDS = (p + 1) % RATE_SECONDS
  <2> DEFINE q == n \div RATE_SECONDS
  <2>1. q \in Int /\ n = RATE_SECONDS * q + p
    BY RateAssumption
  <2>2. CASE p + 1 < RATE_SECONDS
    <3> HIDE DEF p, q
    <3>1. n + 1 = RATE_SECONDS * q + (p + 1)
      BY <2>1, <1>1, RateAssumption DEF Positions
    <3> QED BY <3>1, <2>1, <2>2, <1>1, <1>2, ModUnique DEF Positions
  <2>3. CASE p + 1 = RATE_SECONDS
    <3>1. n + 1 = RATE_SECONDS * (q + 1) + 0
      <4> HIDE DEF p, q
      <4> QED BY <2>1, <2>3, <1>1, RateAssumption DEF Positions
    <3> HIDE DEF p, q
    <3> QED BY <3>1, <2>1, <2>3, <1>3, RateAssumption, ModUnique
  <2> QED BY <2>2, <2>3, <1>1, RateAssumption DEF Positions
<1> QED
  BY <1>1, <1>2, <1>3, <1>4, RateAssumption DEF Positions

-----------------------------------------------------------------------------
(* The invariant holds when the server starts. *)
LEMMA InitIInv == Init => IInv
BY DEF Init, IInv, TypeOK, NoRequest

(* Steps that leave the calculators and the history alone. *)
LEMMA QuietIInv ==
  ASSUME IInv, UNCHANGED << sessions, history >>, TypeOK'
  PROVE  IInv'
BY Zenon DEF IInv, SampleInv, VerdictInv, history, Pos, NextPos

(* open_session: all samples are zero. *)
LEMMA OpenIInv ==
  ASSUME IInv, NEW s \in Sessions, OpenSession(s)
  PROVE  IInv'
<1> USE DEF OpenSession, NewSecond, callVars
<1>1. NewCalculator \in Calculators
  BY RateAssumption, LimitAssumption, BoundAssumption
  DEF NewCalculator, Calculators, Positions
<1>2. TypeOK'
  BY <1>1, Zenon DEF IInv, TypeOK
<1>3. ASSUME NEW x \in DOMAIN sessions'
      PROVE  (SampleInv(x) /\ VerdictInv(x))'
  <2>1. CASE x = s
    <3>1. /\ sessions'[s] = NewCalculator
          /\ counted'[s] = 0 /\ admitted'[s] = 0 /\ refused'[s] = 0
      BY Zenon DEF IInv, TypeOK
    <3>2. 0 % RATE_SECONDS \in Positions
      BY RingPositions, Zenon
    <3>3. NewCalculator.samples[Pos(NewCalculator)] = 0
      BY <3>2, Zenon DEF NewCalculator, Pos
    <3> QED
      BY <2>1, <3>1, <3>3, LimitAssumption DEF SampleInv, VerdictInv
  <2>2. CASE x # s
    <3>1. /\ x \in DOMAIN sessions /\ x \in Sessions /\ sessions'[x] = sessions[x]
          /\ counted'[x] = counted[x] /\ admitted'[x] = admitted[x]
          /\ refused'[x] = refused[x] /\ (x \in fresh' <=> x \in fresh)
      BY <2>2, <1>3, Zenon DEF IInv, TypeOK
    <3> QED
      BY <3>1, Zenon DEF IInv, SampleInv, VerdictInv, Pos, NextPos
  <2> QED BY <2>1, <2>2
<1> QED BY <1>2, <1>3 DEF IInv

(* close_session forgets a calculator and no other. *)
LEMMA CloseIInv ==
  ASSUME IInv, NEW s \in Sessions, CloseSession(s)
  PROVE  IInv'
<1> USE DEF CloseSession, callVars, history
<1>1. TypeOK'
  BY Zenon DEF IInv, TypeOK
<1>2. ASSUME NEW x \in DOMAIN sessions'
      PROVE  (SampleInv(x) /\ VerdictInv(x))'
  <2>1. x \in DOMAIN sessions /\ sessions'[x] = sessions[x]
    BY <1>2, Zenon
  <2> QED
    BY <2>1, Zenon DEF IInv, SampleInv, VerdictInv, Pos, NextPos
<1> QED BY <1>1, <1>2 DEF IInv

(* Steps that change one session only. *)
LEMMA LocalIInv ==
  ASSUME IInv, TypeOK', NEW s,
         DOMAIN sessions' = DOMAIN sessions,
         \A x \in DOMAIN sessions \ {s} :
           /\ sessions'[x] = sessions[x]
           /\ counted'[x] = counted[x] /\ admitted'[x] = admitted[x]
           /\ refused'[x] = refused[x] /\ (x \in fresh' <=> x \in fresh),
         (SampleInv(s) /\ VerdictInv(s))'
  PROVE  IInv'
<1>1. ASSUME NEW x \in DOMAIN sessions \ {s}
      PROVE  (SampleInv(x) /\ VerdictInv(x))'
  BY <1>1, Zenon DEF IInv, SampleInv, VerdictInv, Pos, NextPos
<1> QED BY <1>1 DEF IInv

(* A second passes: the sample of the next one was cleared if there was a   *)
(* request in this one.                                                     *)
LEMMA ElapseIInv ==
  ASSUME IInv, NEW s \in Sessions, Elapse(s)
  PROVE  IInv'
<1> DEFINE c == sessions[s]
<1> USE DEF Elapse, NewSecond, callVars
<1>1. c \in Calculators /\ c.elapsed \in Nat /\ c.elapsed + 1 \in 0 .. MaxElapsed
  BY BoundAssumption DEF IInv, TypeOK, Calculators
<1>2. /\ DOMAIN sessions' = DOMAIN sessions
      /\ sessions'[s] = [c EXCEPT !.elapsed = @ + 1]
      /\ \A x \in DOMAIN sessions \ {s} : sessions'[x] = sessions[x]
  BY Zenon
<1>3. sessions'[s] \in Calculators /\ sessions'[s].samples = c.samples
      /\ sessions'[s].elapsed = c.elapsed + 1
  BY <1>1, <1>2, Zenon DEF Calculators
<1>4. TypeOK'
  BY <1>2, <1>3, Zenon DEF IInv, TypeOK
<1>5. /\ counted'[s] = 0 /\ admitted'[s] = 0 /\ refused'[s] = 0
      /\ s \in fresh' => counted[s] > 0
  BY Zenon DEF IInv, TypeOK
<1>6. Pos(sessions'[s]) = NextPos(c) /\ Pos(sessions'[s]) \in Positions
  BY <1>1, <1>3, RingPositions, Zenon DEF Pos, NextPos
<1>7. c.samples[Pos(sessions'[s])] \in Nat
  BY <1>1, <1>6, LimitAssumption DEF Calculators
<1>8. SampleInv(s)'
  BY <1>3, <1>5, <1>6, <1>7 DEF IInv, SampleInv
<1>9. VerdictInv(s)'
  BY <1>5, LimitAssumption DEF VerdictInv
<1>10. \A x \in DOMAIN sessions \ {s} :
         /\ counted'[x] = counted[x] /\ admitted'[x] = admitted[x]
         /\ refused'[x] = refused[x] /\ (x \in fresh' <=> x \in fresh)
  BY Zenon DEF IInv, TypeOK
<1> QED
  BY <1>2, <1>4, <1>8, <1>9, <1>10, LocalIInv, Zenon

(* The first half of tick(): a new era begins with a cleared sample. *)
LEMMA BeginTickIInv ==
  ASSUME IInv, NEW t \in Threads, BeginTick(t)
  PROVE  IInv'
<1> USE DEF BeginTick, Goto, callVars
<1>1. PICK s \in DOMAIN sessions :
        IF sessions[s].elapsed >= RATE_SECONDS
        THEN /\ sessions' = [sessions EXCEPT ![s].elapsed = 0, ![s].samples[0] = 0]
             /\ NewSecond(s, TRUE)
        ELSE UNCHANGED << sessions, history >>
  BY Zenon
<1> DEFINE c == sessions[s]
<1>2. CASE c.elapsed >= RATE_SECONDS
  <2> USE <1>1, <1>2 DEF NewSecond
  <2>1. c \in Calculators /\ s \in Sessions
    BY Zenon DEF IInv, TypeOK
  <2>2. /\ DOMAIN sessions' = DOMAIN sessions
        /\ sessions'[s] = [c EXCEPT !.elapsed = 0, !.samples[0] = 0]
        /\ \A x \in DOMAIN sessions \ {s} : sessions'[x] = sessions[x]
    BY Zenon
  <2>3. 0 \in Positions /\ 0 % RATE_SECONDS = 0
    BY RateAssumption DEF Positions
  <2>4. /\ sessions'[s] \in Calculators
        /\ sessions'[s].elapsed = 0 /\ sessions'[s].samples[0] = 0
    BY <2>1, <2>2, <2>3, LimitAssumption, BoundAssumption DEF Calculators
  <2>5. TypeOK'
    BY <2>1, <2>2, <2>4 DEF IInv, TypeOK
  <2>6. counted'[s] = 0 /\ admitted'[s] = 0 /\ refused'[s] = 0
    BY <2>1 DEF IInv, TypeOK
  <2>7. (SampleInv(s) /\ VerdictInv(s))'
    BY <2>3, <2>4, <2>6, LimitAssumption DEF SampleInv, VerdictInv, Pos
  <2>8. \A x \in DOMAIN sessions \ {s} :
          /\ counted'[x] = counted[x] /\ admitted'[x] = admitted[x]
          /\ refused'[x] = refused[x] /\ (x \in fresh' <=> x \in fresh)
    BY DEF IInv, TypeOK
  <2> QED
    BY <2>2, <2>5, <2>7, <2>8, LocalIInv, Zenon
<1>3. CASE ~ (c.elapsed >= RATE_SECONDS)
  <2>1. UNCHANGED << sessions, history >>
    BY <1>1, <1>3, Zenon
  <2>2. TypeOK'
    BY <2>1, Zenon DEF IInv, TypeOK, history
  <2> QED BY <2>1, <2>2, QuietIInv
<1> QED BY <1>2, <1>3

(* The dispatcher refuses for the rate exactly above the limit. *)
LEMMA DispatchRefuses ==
  ASSUME NEW n, NEW r
  PROVE  Dispatch(n, r) = RateLimited <=> n > max_req_per_sec
BY Zenon DEF Dispatch, CheckBatch, BatchSize, RateLimited

(* The samples after a tick. *)
LEMMA TickedSamples ==
  ASSUME NEW samples \in [Positions -> 0 .. U16Max],
         NEW p \in Positions, NEW q \in Positions,
         q = (p + 1) % RATE_SECONDS, q # p
  PROVE  /\ Ticked(samples, p) \in [Positions -> 0 .. U16Max]
         /\ Ticked(samples, p)[p] = IF samples[p] < U16Max THEN samples[p] + 1 ELSE U16Max
         /\ Ticked(samples, p)[q] = 0
BY LimitAssumption DEF Ticked

(* The second half of tick(): the request is counted and admitted or not.   *)
LEMMA TickIInv ==
  ASSUME IInv, NEW t \in Threads, Tick(t)
  PROVE  IInv'
<1> DEFINE P(s) == sessions[s].elapsed % RATE_SECONDS
           New(s) == Ticked(sessions[s].samples, P(s))
           X(s) == Dispatch(New(s)[P(s)], req[t])
<1>1. PICK s \in DOMAIN sessions :
        /\ sessions' = [sessions EXCEPT ![s].samples = New(s)]
        /\ counted' = [counted EXCEPT ![s] = @ + 1]
        /\ admitted' = [admitted EXCEPT ![s] = IF X(s) = RateLimited THEN @ ELSE @ + 1]
        /\ refused' = [refused EXCEPT ![s] = IF X(s) = RateLimited THEN @ + 1 ELSE @]
        /\ pc' = [pc EXCEPT ![t] = "done"]
  BY Zenon DEF Tick, Respond, Goto
<1>2. opened' = opened /\ origin' = origin /\ req' = req /\ fresh' = fresh
  BY Zenon DEF Tick, callVars
<1> DEFINE c == sessions[s]
           n == New(s)[P(s)]
           q == (P(s) + 1) % RATE_SECONDS
<1>3. c \in Calculators /\ s \in Sessions /\ c.elapsed \in Nat
  BY BoundAssumption DEF IInv, TypeOK, Calculators
<1>4. P(s) \in Positions /\ q \in Positions /\ q # P(s)
  BY <1>3, RingPositions, Zenon
<1>5. /\ New(s) \in [Positions -> 0 .. U16Max]
      /\ n = IF c.samples[P(s)] < U16Max THEN c.samples[P(s)] + 1 ELSE U16Max
      /\ New(s)[q] = 0
  <2> HIDE DEF P
  <2> QED BY <1>3, <1>4, TickedSamples DEF Calculators
<1>6. X(s) = RateLimited <=> n > max_req_per_sec
  BY DispatchRefuses, Zenon
<1> HIDE DEF New, X, P
<1>7. /\ DOMAIN sessions' = DOMAIN sessions
      /\ sessions'[s] = [c EXCEPT !.samples = New(s)]
      /\ \A x \in DOMAIN sessions \ {s} : sessions'[x] = sessions[x]
  BY <1>1, Zenon
<1>8. /\ sessions'[s] \in Calculators
      /\ sessions'[s].elapsed = c.elapsed /\ sessions'[s].samples = New(s)
  BY <1>3, <1>5, <1>7, Zenon DEF Calculators
<1>9. /\ counted[s] \in Nat /\ admitted[s] \in Nat /\ refused[s] \in Nat
      /\ counted'[s] = counted[s] + 1
      /\ admitted'[s] = IF n > max_req_per_sec THEN admitted[s] ELSE admitted[s] + 1
      /\ refused'[s] = IF n > max_req_per_sec THEN refused[s] + 1 ELSE refused[s]
  BY <1>1, <1>3, <1>6, Zenon DEF IInv, TypeOK
<1>10. TypeOK'
  <2>0. /\ counted \in [Sessions -> Nat] /\ admitted \in [Sessions -> Nat]
        /\ refused \in [Sessions -> Nat]
    BY Zenon DEF IInv, TypeOK
  <2>1. counted'[s] \in Nat /\ admitted'[s] \in Nat /\ refused'[s] \in Nat
    BY <1>9
  <2>2. counted' \in [Sessions -> Nat]
    <3>1. counted' = [counted EXCEPT ![s] = counted[s] + 1]
      BY <1>1, Zenon
    <3>2. counted[s] + 1 \in Nat
      BY <1>9
    <3> QED BY <3>1, <3>2, <2>0
  <2>3. admitted' \in [Sessions -> Nat]
    <3>1. PICK k : admitted' = [admitted EXCEPT ![s] = k]
      BY <1>1, Zenon
    <3>2. k \in Nat
      BY <3>1, <2>0, <2>1, <1>3, Zenon
    <3> QED BY <3>1, <3>2, <2>0
  <2>4. refused' \in [Sessions -> Nat]
    <3>1. PICK k : refused' = [refused EXCEPT ![s] = k]
      BY <1>1, Zenon
    <3>2. k \in Nat
      BY <3>1, <2>0, <2>1, <1>3, Zenon
    <3> QED BY <3>1, <3>2, <2>0
  <2>5. pc' \in [Threads -> {"idle", "count", "tick", "done"}]
    BY <1>1, Zenon DEF IInv, TypeOK
  <2> QED BY <2>2, <2>3, <2>4, <2>5, <1>2, <1>7, <1>8 DEF IInv, TypeOK
<1>11. /\ c.samples[P(s)] \in 0 .. U16Max
       /\ c.samples[P(s)] >= counted[s] \/ c.samples[P(s)] = U16Max
       /\ s \in fresh => c.samples[P(s)] <= counted[s]
  BY <1>3, <1>4, Zenon DEF IInv, SampleInv, Pos, P, Calculators
<1>12. /\ n >= counted'[s] \/ n = U16Max
       /\ s \in fresh => n <= counted'[s]
  BY <1>5, <1>9, <1>11, LimitAssumption
<1>13. SampleInv(s)'
  BY <1>2, <1>5, <1>8, <1>12, Zenon DEF SampleInv, Pos, NextPos, P
<1>14. VerdictInv(s)'
  <2>1. VerdictInv(s)
    BY Zenon DEF IInv
  <2> HIDE DEF n
  <2>2. n \in Nat
    BY <1>5, <1>11, LimitAssumption DEF n
  <2>3. n <= max_req_per_sec => counted'[s] <= max_req_per_sec
    BY <2>2, <1>9, <1>12, LimitAssumption
  <2>4. admitted'[s] <= counted'[s] /\ admitted'[s] <= max_req_per_sec
    BY <2>1, <2>2, <2>3, <1>9, LimitAssumption DEF VerdictInv
  <2>5. s \in fresh /\ refused'[s] > 0 => counted'[s] > max_req_per_sec
    BY <2>1, <2>2, <1>9, <1>12, LimitAssumption DEF VerdictInv
  <2> QED
    BY <2>4, <2>5, <1>2, Zenon DEF VerdictInv
<1>15. \A x \in DOMAIN sessions \ {s} :
         /\ counted'[x] = counted[x] /\ admitted'[x] = admitted[x]
         /\ refused'[x] = refused[x] /\ (x \in fresh' <=> x \in fresh)
  BY <1>1, <1>2, Zenon DEF IInv, TypeOK
<1> QED
  BY <1>7, <1>10, <1>13, <1>14, <1>15, LocalIInv, Zenon

-----------------------------------------------------------------------------
(* Every step of the servers keeps the invariant. *)
LEMMA NextIInv == IInv /\ [Next]_vars => IInv'
<1> SUFFICES ASSUME IInv, [Next]_vars PROVE IInv'
  BY Zenon
<1>1. CASE UNCHANGED vars
  <2>1. TypeOK'
    BY <1>1, Zenon DEF IInv, TypeOK, vars, callVars, history
  <2> QED BY <1>1, <2>1, QuietIInv DEF vars
<1>2. ASSUME NEW s \in Sessions, OpenSession(s) \/ CloseSession(s) \/ Elapse(s)
      PROVE  IInv'
  BY <1>2, OpenIInv, CloseIInv, ElapseIInv, Zenon
<1>3. ASSUME NEW t \in Threads, NEW from \in Sessions \cup {Http},
             NEW r \in Requests, OnRequest(t, from, r)
      PROVE  IInv'
  <2>1. TypeOK'
    BY <1>3, Zenon DEF OnRequest, Respond, Goto, history, IInv, TypeOK
  <2> QED BY <1>3, <2>1, QuietIInv DEF OnRequest
<1>4. ASSUME NEW t \in Threads, CountUnknown(t) \/ Return(t)
      PROVE  IInv'
  <2>1. TypeOK'
    BY <1>4, Zenon DEF CountUnknown, Return, Respond, Goto, callVars, history, IInv, TypeOK
  <2> QED BY <1>4, <2>1, QuietIInv DEF CountUnknown, Return
<1>5. ASSUME NEW t \in Threads, BeginTick(t) \/ Tick(t)
      PROVE  IInv'
  BY <1>5, BeginTickIInv, TickIInv, Zenon
<1> QED BY <1>1, <1>2, <1>3, <1>4, <1>5 DEF Next

(* The invariant of the samples holds in every reachable state, for every   *)
(* length of the ring, width of a sample and limit (RateCalculator::tick).  *)
THEOREM SamplesInductive == Spec => []IInv
BY InitIInv, NextIInv, PTL DEF Spec

(* No session gets more than max_req_per_sec requests past the dispatcher   *)
(* in one second (WsDispatcher::on_request).                                *)
THEOREM WithinLimitAlways == Spec => []WithinLimit
<1>1. IInv => WithinLimit
  BY Zenon DEF IInv, VerdictInv, WithinLimit
<1> QED BY <1>1, SamplesInductive, PTL

(* A client that keeps making requests is refused only above the limit      *)
(* (RateCalculator::tick clears the sample it will count in next).          *)
THEOREM SteadyClientsServedAlways == Spec => []SteadyClientsServed
<1>1. IInv => SteadyClientsServed
  BY Zenon DEF IInv, VerdictInv, SteadyClientsServed
<1> QED BY <1>1, SamplesInductive, PTL

(* Samples stay within their width, and the table of sessions and what was  *)
(* counted keep their types (informant.rs:26-31, 84-89).                    *)
COROLLARY SamplesTyped == Spec => []TypeOK
<1>1. IInv => TypeOK
  BY Zenon DEF IInv
<1> QED BY <1>1, SamplesInductive, PTL

=============================================================================

------------------------------ MODULE RpcStats ------------------------------
(***************************************************************************)
(* The request limits of the JSON-RPC servers: RateCalculator and RpcStats *)
(* (src/src/informant.rs), the dispatcher of the WebSocket server that     *)
(* refuses a session's requests above a rate, and the middleware of both   *)
(* servers that refuses large batches (src/src/middleware.rs).             *)
(*                                                                         *)
(* A calculator sees the clock through era.elapsed().as_secs() only, so    *)
(* its time is the number of whole seconds since its era began; seconds    *)
(* may pass at any moment, also between the two reads in tick().           *)
(***************************************************************************)
EXTENDS Integers

CONSTANTS
  Threads,            \* threads that run on_request
  Sessions,           \* ids of WebSocket sessions
  Http,               \* the origin of a request that has no session
  Requests,           \* what clients send
  RATE_SECONDS,       \* 10 in the code
  U16Max,             \* 2^16 - 1 in the code
  max_req_per_sec,    \* 50 in WsConfiguration
  max_batch_size,     \* 10 in WsConfiguration and HttpConfiguration
  MaxElapsed,         \* bound: age of an era in seconds
  MaxCount            \* bound: requests of a session in one second

ASSUME RateAssumption == RATE_SECONDS \in Nat /\ RATE_SECONDS >= 2

ASSUME LimitAssumption ==
  /\ U16Max \in Nat /\ max_req_per_sec \in Nat /\ max_batch_size \in Nat
  /\ max_req_per_sec < U16Max

ASSUME BoundAssumption == MaxElapsed \in Nat /\ MaxCount \in Nat

ASSUME HttpAssumption == Http \notin Sessions

VARIABLES
  sessions,           \* RpcStats::sessions: id to RateCalculator
  opened,             \* ids the server has given out; it never reuses one
  pc, origin, req, res,         \* per thread
  counted, admitted, refused,   \* of each session's current second (history)
  fresh               \* sessions whose second begins an era or follows a request

callVars == << origin, req >>
history  == << counted, admitted, refused, fresh >>
vars     == << sessions, opened, pc, callVars, res, history >>

Positions == 0 .. (RATE_SECONDS - 1)

(* RateCalculator::default() *)
NewCalculator == [elapsed |-> 0, samples |-> [i \in Positions |-> 0]]

(* Requests are single calls and batches, of so many calls. *)
NoRequest == [batch |-> FALSE, calls |-> 0]

(* The two errors; a refused request has the same for each of its calls.    *)
BatchSize   == "batch size"
RateLimited == "rate limited"

(* Middleware::on_request, and process *)
CheckBatch(r) ==
  IF r.batch /\ r.calls > max_batch_size THEN BatchSize ELSE "processed"

(* WsDispatcher::on_request once the request has been counted *)
Dispatch(n, r) == IF n > max_req_per_sec THEN RateLimited ELSE CheckBatch(r)

-----------------------------------------------------------------------------
Init ==
  /\ sessions = << >> /\ opened = {}
  /\ pc = [t \in Threads |-> "idle"]
  /\ origin = [t \in Threads |-> Http]
  /\ req = [t \in Threads |-> NoRequest]
  /\ res = [t \in Threads |-> "none"]
  /\ counted = [s \in Sessions |-> 0]
  /\ admitted = [s \in Sessions |-> 0]
  /\ refused = [s \in Sessions |-> 0]
  /\ fresh = {}

(* A second of session s begins. *)
NewSecond(s, isFresh) ==
  /\ counted' = [counted EXCEPT ![s] = 0]
  /\ admitted' = [admitted EXCEPT ![s] = 0]
  /\ refused' = [refused EXCEPT ![s] = 0]
  /\ fresh' = IF isFresh THEN fresh \cup {s} ELSE fresh \ {s}

Goto(t, label) == pc' = [pc EXCEPT ![t] = label]

Respond(t, x) == Goto(t, "done") /\ res' = [res EXCEPT ![t] = x]

(* The thread holds sessions.read() and the write lock of s's calculator.   *)
Ticking(t, s) == pc[t] = "tick" /\ origin[t] = s

(* sessions.write() waits for every thread that is counting. *)
NobodyReads == \A t \in Threads : pc[t] # "tick"

(* WsStats::open_session *)
OpenSession(s) ==
  /\ s \notin opened /\ NobodyReads
  /\ opened' = opened \cup {s}
  /\ sessions' = [x \in DOMAIN sessions \cup {s} |->
                    IF x = s THEN NewCalculator ELSE sessions[x]]
  /\ NewSecond(s, TRUE)
  /\ UNCHANGED << pc, callVars, res >>

(* WsStats::close_session *)
CloseSession(s) ==
  /\ s \in DOMAIN sessions /\ NobodyReads
  /\ sessions' = [x \in DOMAIN sessions \ {s} |-> sessions[x]]
  /\ UNCHANGED << opened, pc, callVars, res, history >>

(* The clock. *)
Elapse(s) ==
  /\ s \in DOMAIN sessions
  /\ sessions[s].elapsed < MaxElapsed
  /\ sessions' = [sessions EXCEPT ![s].elapsed = @ + 1]
  /\ NewSecond(s, counted[s] > 0)
  /\ UNCHANGED << opened, pc, callVars, res >>

(* A request arrives on a connection: HTTP has the batch limit only. *)
OnRequest(t, from, r) ==
  /\ pc[t] = "idle"
  /\ from \in opened \cup {Http}
  /\ origin' = [origin EXCEPT ![t] = from]
  /\ req' = [req EXCEPT ![t] = r]
  /\ IF from = Http THEN Respond(t, CheckBatch(r))
                    ELSE Goto(t, "count") /\ UNCHANGED res
  /\ UNCHANGED << sessions, opened, history >>

(* count_request of a session that is gone: unwrap_or(0). *)
CountUnknown(t) ==
  /\ pc[t] = "count" /\ origin[t] \notin DOMAIN sessions
  /\ Respond(t, Dispatch(0, req[t]))
  /\ UNCHANGED << sessions, opened, callVars, history >>

(* Mutant: the first sample is kept when a new era begins. *)
BugBeginTick(t) ==
  /\ pc[t] = "count"
  /\ \E s \in DOMAIN sessions :
       /\ s = origin[t] /\ \A u \in Threads : ~ Ticking(u, s)
       /\ counted[s] < MaxCount
       /\ IF sessions[s].elapsed >= RATE_SECONDS
          THEN /\ sessions' = [sessions EXCEPT ![s].elapsed = 0]
               /\ NewSecond(s, TRUE)
          ELSE UNCHANGED << sessions, history >>
  /\ Goto(t, "tick")
  /\ UNCHANGED << opened, callVars, res >>

(* calc.write().tick(), the first read of the clock: an old era ends.       *)
BeginTick(t) ==
  /\ pc[t] = "count"
  /\ \E s \in DOMAIN sessions :
       /\ s = origin[t] /\ \A u \in Threads : ~ Ticking(u, s)
       /\ counted[s] < MaxCount
       /\ IF sessions[s].elapsed >= RATE_SECONDS
          THEN /\ sessions' = [sessions EXCEPT ![s].elapsed = 0, ![s].samples[0] = 0]
               /\ NewSecond(s, TRUE)
          ELSE UNCHANGED << sessions, history >>
  /\ Goto(t, "tick")
  /\ UNCHANGED << opened, callVars, res >>

(* Mutant: the count does not saturate. *)
BugTicked(samples, pos) ==
  [samples EXCEPT ![(pos + 1) % RATE_SECONDS] = 0, ![pos] = @ + 1]

(* samples after a tick at pos: the next one is cleared. *)
Ticked(samples, pos) ==
  [samples EXCEPT ![(pos + 1) % RATE_SECONDS] = 0,
                  ![pos] = IF @ < U16Max THEN @ + 1 ELSE U16Max]

(* Mutant: the sample that is cleared is the current one. *)
BugTick(t) ==
  /\ pc[t] = "tick"
  /\ \E s \in DOMAIN sessions :
       LET pos == sessions[s].elapsed % RATE_SECONDS
           new == [sessions[s].samples EXCEPT ![pos] = 1]
           x   == Dispatch(new[pos], req[t])
       IN /\ s = origin[t]
          /\ sessions' = [sessions EXCEPT ![s].samples = new]
          /\ counted' = [counted EXCEPT ![s] = @ + 1]
          /\ admitted' = [admitted EXCEPT ![s] = IF x = RateLimited THEN @ ELSE @ + 1]
          /\ refused' = [refused EXCEPT ![s] = IF x = RateLimited THEN @ + 1 ELSE @]
          /\ Respond(t, x)
  /\ UNCHANGED << opened, callVars, fresh >>

(* tick(), the second read of the clock: the request is counted in its      *)
(* second, the locks are dropped, and the dispatcher decides.               *)
Tick(t) ==
  /\ pc[t] = "tick"
  /\ \E s \in DOMAIN sessions :
       LET pos == sessions[s].elapsed % RATE_SECONDS
           new == Ticked(sessions[s].samples, pos)
           x   == Dispatch(new[pos], req[t])
       IN /\ s = origin[t]
          /\ sessions' = [sessions EXCEPT ![s].samples = new]
          /\ counted' = [counted EXCEPT ![s] = @ + 1]
          /\ admitted' = [admitted EXCEPT ![s] = IF x = RateLimited THEN @ ELSE @ + 1]
          /\ refused' = [refused EXCEPT ![s] = IF x = RateLimited THEN @ + 1 ELSE @]
          /\ Respond(t, x)
  /\ UNCHANGED << opened, callVars, fresh >>

Return(t) ==
  /\ pc[t] = "done"
  /\ Goto(t, "idle")
  /\ res' = [res EXCEPT ![t] = "none"]
  /\ req' = [req EXCEPT ![t] = NoRequest]
  /\ origin' = [origin EXCEPT ![t] = Http]
  /\ UNCHANGED << sessions, opened, history >>

Next ==
  \/ \E s \in Sessions : OpenSession(s) \/ CloseSession(s) \/ Elapse(s)
  \/ \E t \in Threads :
       \/ \E from \in Sessions \cup {Http}, r \in Requests : OnRequest(t, from, r)
       \/ CountUnknown(t) \/ BeginTick(t) \/ Tick(t) \/ Return(t)

Spec == Init /\ [][Next]_vars

-----------------------------------------------------------------------------
Calculators == [elapsed : 0 .. MaxElapsed, samples : [Positions -> 0 .. U16Max]]

(* Types: a sample never leaves its 16 bits, and pos and next stay inside   *)
(* the array (struct RateCalculator, informant.rs:28-31).                   *)
TypeOK ==
  /\ opened \subseteq Sessions
  /\ DOMAIN sessions \subseteq opened
  /\ \A s \in DOMAIN sessions : sessions[s] \in Calculators
  /\ pc \in [Threads -> {"idle", "count", "tick", "done"}]
  /\ origin \in [Threads -> Sessions \cup {Http}]
  /\ req \in [Threads -> Requests \cup {NoRequest}]
  /\ counted \in [Sessions -> Nat] /\ admitted \in [Sessions -> Nat]
  /\ refused \in [Sessions -> Nat]
  /\ fresh \subseteq Sessions

(* No session gets more than max_req_per_sec requests past the dispatcher   *)
(* in one second of its calculator, although samples are reused every       *)
(* RATE_SECONDS, saturate, and a second may pass between the two reads of   *)
(* the clock in tick() (middleware.rs:168, informant.rs:53-64).             *)
WithinLimit == \A s \in DOMAIN sessions : admitted[s] <= max_req_per_sec

(* A client that made a request in the preceding second, or whose second    *)
(* begins an era, is refused only above the limit: tick() has cleared the   *)
(* sample it is counted in (informant.rs:56, :61).                          *)
SteadyClientsServed ==
  \A s \in DOMAIN sessions :
    s \in fresh /\ refused[s] > 0 => counted[s] > max_req_per_sec

(* A request is refused only if the session made more than max_req_per_sec  *)
(* in this second ("Returns number of requests in current second",          *)
(* informant.rs:104).                                                       *)
RefusedOnlyAboveLimit ==
  \A s \in DOMAIN sessions : refused[s] > 0 => counted[s] > max_req_per_sec
-----------------------------------------------------------------------------
(***************************************************************************)
(* The inductive invariant.                                                *)
(***************************************************************************)
Pos(c) == c.elapsed % RATE_SECONDS
NextPos(c) == (Pos(c) + 1) % RATE_SECONDS

(* The sample of the current second never undercounts, it overcounts only   *)
(* when it was not cleared, and a request clears the sample of the second   *)
(* that follows.                                                            *)
SampleInv(s) ==
  LET c == sessions[s] IN
    /\ c.samples[Pos(c)] >= counted[s] \/ c.samples[Pos(c)] = U16Max
    /\ s \in fresh => c.samples[Pos(c)] <= counted[s]
    /\ counted[s] > 0 => c.samples[NextPos(c)] = 0

VerdictInv(s) ==
  /\ admitted[s] <= counted[s] /\ admitted[s] <= max_req_per_sec
  /\ s \in fresh /\ refused[s] > 0 => counted[s] > max_req_per_sec

IInv == TypeOK /\ \A s \in DOMAIN sessions : SampleInv(s) /\ VerdictInv(s)
=============================================================================

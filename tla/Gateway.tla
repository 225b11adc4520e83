------------------------------ MODULE Gateway -------------------------------
(***************************************************************************)
(* Start and shutdown of the node: execute, RunningGateway::shutdown and   *)
(* wait_for_drop of src/src/run.rs, run by the main thread of              *)
(* src/bin/main.rs, together with the Broker and the subscriptions of      *)
(* PubSub and the requests that are being executed meanwhile.              *)
(*                                                                         *)
(* What shutdown waits for is that the last Arc<Blockchain> is dropped:    *)
(* refs are the ones the main thread and the two servers own, Holders      *)
(* adds those of the tasks of the runtime.                                 *)
(***************************************************************************)
EXTENDS PubSub

CONSTANT MaxTimeout    \* wait_for_drop: when it gives up, in seconds

ASSUME TimeoutAssumption == MaxTimeout \in Nat

VARIABLES
  main,      \* the statement the main thread is at
  refs,      \* who owns a strong reference to the Blockchain, tasks aside
  request,   \* the server whose request is being executed, or "none"
  elapsed    \* wait_for_drop: seconds since it was called

mainVars == << main, refs, elapsed >>
gateVars == << vars, main, refs, request, elapsed >>

GatewayInit ==
  /\ Init
  /\ main = "start" /\ refs = {} /\ request = "none" /\ elapsed = 0

Exited == main \in {"clean", "unclean", "failed"}

(* The statement `at` is done; its successor is `next`. *)
Goto(at, next) == main = at /\ main' = next /\ UNCHANGED << request, elapsed >>

-----------------------------------------------------------------------------
(* execute: the runtime, the Blockchain, the Broker and its task, and the   *)
(* dependencies of the servers, which own the Blockchain twice more.        *)
Launch ==
  /\ Goto("start", "new_ws")
  /\ refs' = {"gateway", "deps"}
  /\ UNCHANGED vars

(* Runtime::new() fails before anything was made. *)
LaunchFails ==
  /\ Goto("start", "failed")
  /\ UNCHANGED << vars, refs >>

(* list_apis: every set the node is configured with is the public list. *)
ListApis == {"Web3", "Net", "Eth", "EthPubSub", "Oasis"}

(* extend_api, on a new handler: the clients of all APIs but Web3 and Net   *)
(* own the Blockchain, and the one for EthPubSub is made known to the       *)
(* Broker, whose list must not be in use.  Only a WebSocket connection can  *)
(* subscribe, so the listener of the HTTP handler has no subscribers and    *)
(* adding it leaves PubSub as it is.                                        *)
ExtendApi(server, dropped) ==
  /\ refs' = (refs \ dropped) \cup { server : api \in ListApis \ {"Web3", "Net"} }
  /\ IF "EthPubSub" \in ListApis /\ server = "ws" THEN AddListener
     ELSE broker \notin {"heads", "logs", "store"} /\ UNCHANGED vars

(* new_ws: the handler, once the address is parsed, and then start_ws,      *)
(* which owns the handler and drops it if it fails.                         *)
NewWs == Goto("new_ws", "start_ws") /\ ExtendApi("ws", {})

BadWsAddress == Goto("new_ws", "err") /\ UNCHANGED << vars, refs >>

StartWs == Goto("start_ws", "new_http") /\ UNCHANGED << vars, refs >>

WsFails == Goto("start_ws", "err") /\ refs' = refs \ {"ws"} /\ DropListener

(* new_http, with start_http: execute returns, and what it had for the      *)
(* servers is dropped.                                                      *)
NewHttp == Goto("new_http", "running") /\ ExtendApi("http", {"deps"})

-----------------------------------------------------------------------------
(* Main drops what it owns, the WebSocket server included: its handler goes *)
(* with it, unless a request is running in it.                              *)
DropOwned(owned) ==
  /\ refs' = refs \ owned
  /\ IF request # "ws" /\ listener = "live" THEN DropListener ELSE UNCHANGED vars

(* new_http fails and execute returns the error: its locals are dropped,    *)
(* the runtime last; dropping a runtime stops it and waits.                 *)
HttpFails == Goto("new_http", "err") /\ DropOwned({"ws", "deps", "gateway"})

(* Mutant: the runtime is waited for and not stopped. *)
BugDropRuntime == Goto("err", "err_wait") /\ refs' = {} /\ UNCHANGED vars

DropRuntime == Goto("err", "err_wait") /\ refs' = {} /\ ShutdownNow

Reaped == broker = "dead" /\ tasks = {} /\ sends = {} /\ request = "none"

ErrReturns == Goto("err_wait", "failed") /\ Reaped /\ UNCHANGED << vars, refs >>

(* The process is told to end: main calls shutdown, which stops the runtime.*)
Signal == Goto("running", "drop") /\ ShutdownNow /\ UNCHANGED refs

(* Setting up or waiting for the signals fails and main returns the error:  *)
(* the gateway is dropped without shutdown, its fields in their order, the  *)
(* runtime first, which stops it and waits, and then the servers.           *)
Abandon == Goto("running", "abandoned") /\ ShutdownNow /\ UNCHANGED refs

AbandonReturns ==
  Goto("abandoned", "failed") /\ Reaped /\ "http" \notin refs /\ DropOwned({"ws", "gateway"})

(* Mutant: the WebSocket server is not dropped. *)
BugDropAll == Goto("drop", "wait") /\ refs' = refs \ {"gateway"} /\ UNCHANGED vars

(* shutdown drops the servers and its own reference.  The event loop of the *)
(* HTTP server is a task of the runtime: dropping the handle adds nothing.  *)
DropAll == Goto("drop", "wait") /\ DropOwned({"ws", "gateway"})

(* The strong references: of main and the servers, of the Broker's Inner,   *)
(* of the tasks that fetch headers, and of the request being executed.  A   *)
(* task that fetches logs has the state of the chain and not the Blockchain.*)
Holders ==
  refs \cup { h \in {"broker", "task", "request"} :
                CASE h = "broker"  -> main # "start" /\ broker \notin {"dead", "aborted"}
                  [] h = "task"    -> \E k \in tasks : k.sub = {}
                  [] h = "request" -> request # "none" }

(* Mutant: no limit on the wait. *)
BugWaitForDrop ==
  /\ main = "wait"
  /\ main' = IF Holders = {} THEN "clean" ELSE "wait"
  /\ elapsed' = IF Holders = {} \/ elapsed = MaxTimeout THEN elapsed ELSE elapsed + 1
  /\ UNCHANGED << vars, refs, request >>

(* wait_for_drop: one turn of the loop, which ends in a sleep of a second.  *)
WaitForDrop ==
  /\ main = "wait"
  /\ main' = IF elapsed >= MaxTimeout THEN "unclean" ELSE IF Holders = {} THEN "clean" ELSE "wait"
  /\ elapsed' = IF main' = "wait" THEN elapsed + 1 ELSE elapsed
  /\ UNCHANGED << vars, refs, request >>

-----------------------------------------------------------------------------
(* A server's handler exists before the server starts. *)
Started(server) ==
  server \in refs /\ main # "start_ws"

(* A request, or a batch of them, reaches a server that has started. *)
BeginRequest(server) ==
  /\ request = "none" /\ runtime = "up" /\ Started(server)
  /\ request' = server
  /\ UNCHANGED << vars, mainVars >>

(* It may mine blocks, or panic while it does. *)
Execute ==
  /\ request # "none"
  /\ Mine \/ Poison
  /\ UNCHANGED << mainVars, request >>

(* Mutant: a request that outlives its server leaves the handler behind. *)
BugEndRequest ==
  /\ request # "none"
  /\ request' = "none"
  /\ UNCHANGED << vars, mainVars >>

EndRequest ==
  /\ request # "none"
  /\ request' = "none"
  /\ IF request = "ws" /\ "ws" \notin refs /\ listener = "live"
     THEN DropListener ELSE UNCHANGED vars
  /\ UNCHANGED mainVars

(* The clients of the WebSocket server.  One that goes away once the        *)
(* runtime is stopping looks like one whose notifications were dropped.     *)
Client(s) ==
  /\ runtime = "up" /\ Started("ws")
  /\ (\E k \in {"heads", "logs", "tx", "rejected"} : Subscribe(s, k)) \/ Unsubscribe(s) \/ Close(s)
  /\ UNCHANGED << mainVars, request >>

(* The runtime runs its tasks and, once it is stopping, drops them, the     *)
(* event loop of the HTTP server among them.                                *)
Runs(step) == main # "start" /\ step /\ UNCHANGED << mainVars, request >>

Reap ==
  /\ runtime = "stopping" /\ (tasks \cup sends # {} \/ "http" \in refs)
  /\ DropTasks \/ (tasks \cup sends = {} /\ UNCHANGED vars)
  /\ refs' = refs \ {"http"}
  /\ UNCHANGED << main, request, elapsed >>

Main ==
  \/ Launch \/ LaunchFails \/ NewWs \/ BadWsAddress \/ StartWs \/ WsFails
  \/ NewHttp \/ HttpFails \/ DropRuntime \/ ErrReturns
  \/ AbandonReturns \/ DropAll

Alive == ~ Exited /\ broker # "aborted"

GatewayNext ==
  /\ Alive
  /\ \/ Main \/ Signal \/ Abandon \/ WaitForDrop
     \/ \E server \in {"ws", "http"} : BeginRequest(server)
     \/ Execute \/ EndRequest
     \/ \E s \in Subs : Client(s)
     \/ Runs(Broker) \/ Runs(TimerError) \/ Runs(RunSome) \/ Runs(DeliverSome)
     \/ Runs(DropBroker) \/ Reap

GatewaySpec == GatewayInit /\ [][GatewayNext]_gateVars

(***************************************************************************)
(* Fairness: the main thread goes on until it waits, and the runtime polls *)
(* or drops its tasks.  Clients owe nothing, a request need not end, and   *)
(* the clock of wait_for_drop is left to the properties about it.          *)
(***************************************************************************)
GatewayFairSpec ==
  /\ GatewaySpec
  /\ WF_gateVars(Alive /\ Main)
  /\ WF_gateVars(Alive /\ Runs(Broker))
  /\ WF_gateVars(Alive /\ Runs(RunSome))
  /\ WF_gateVars(Alive /\ Runs(DeliverSome))
  /\ WF_gateVars(Alive /\ Runs(DropBroker))
  /\ WF_gateVars(Alive /\ Reap)

-----------------------------------------------------------------------------
(* Types; in particular the handler of the subscriptions is live exactly    *)
(* while the WebSocket server or a request in it owns it                    *)
(* (rpc_apis.rs:185-191).                                                   *)
GatewayTypeOK ==
  /\ main \in {"start", "new_ws", "start_ws", "new_http", "running", "abandoned",
               "drop", "wait", "err", "err_wait", "clean", "unclean", "failed"}
  /\ refs \subseteq {"gateway", "deps", "ws", "http"}
  /\ request \in {"none", "ws", "http"}
  /\ elapsed \in 0 .. MaxTimeout
  /\ listener = "live" <=> "ws" \in refs \/ request = "ws"

(* While shutdown waits, however long a second is, every owner but a        *)
(* request that is still being executed lets the Blockchain go: shutdown    *)
(* does not wait for a reference of its own (run.rs:127-139).               *)
ChainLetGo ==
  main = "wait" ~> Holders \subseteq {"request"} \/ ~ Alive

(* Shutdown returns, cleanly or not, even if a request never ends, as long  *)
(* as time passes (run.rs:151, 164).                                        *)
ShutdownReturns ==
  WF_gateVars(Alive /\ WaitForDrop) => (main = "drop" ~> ~ Alive)

(* A node that fails ends, with what its servers were doing, when requests  *)
(* do: when the second server cannot start (run.rs:88-92), and when the     *)
(* running gateway is dropped without shutdown (main.rs:154-160).           *)
FailureReturns ==
  WF_gateVars(Alive /\ EndRequest) => (main \in {"err", "abandoned"} ~> ~ Alive)
=============================================================================

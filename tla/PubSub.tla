------------------------------- MODULE PubSub -------------------------------
(***************************************************************************)
(* Subscriptions: the Broker task of src/src/pubsub.rs, which watches the  *)
(* chain at an interval, and the ChainNotificationHandler of               *)
(* src/src/impls/eth_pubsub.rs, which turns a range of new blocks into     *)
(* tasks that fetch headers and logs and send one notification each.  All  *)
(* of them are tasks of the tokio runtime, which may be shut down.         *)
(*                                                                         *)
(* The chain is seen through its height and its poisoned lock.  Every      *)
(* block has one log entry that matches every filter; the block's number   *)
(* stands for its header and for its log entry.                            *)
(***************************************************************************)
EXTENDS Naturals, FiniteSets

CONSTANTS
  Subs,        \* subscriptions clients may make, each at most once
  MaxBlock     \* bound: no block is mined above this number

ASSUME BoundsAssumption == MaxBlock \in Nat

BlockNumbers == 0 .. MaxBlock

VARIABLES
  height, poisoned,        \* the chain; whether its lock is poisoned
  runtime,                 \* the tokio runtime: "up" or "stopping"
  broker,                  \* where the Broker task is
  last_notified_block,     \* Inner.last_notified_block
  to,                      \* number of the latest block, as the Broker read it
  listener,                \* the handler: "absent", "live", or "dropped" (Weak is dead)
  kind,                    \* per subscription: the list it is on
  closed,                  \* subscriptions whose client has gone away
  tasks,                   \* spawned tasks that fetch headers or logs
  sends,                   \* spawned notifications
  delivered,               \* per subscription: what the client has received
  joined                   \* history: height when the subscription was made

chainVars  == << height, poisoned, runtime >>
brokerVars == << broker, last_notified_block, to >>
subVars    == << listener, kind, closed, joined >>
outVars    == << tasks, sends, delivered >>
vars       == << height, poisoned, runtime, broker, last_notified_block, to, listener,
                 kind, closed, tasks, sends, delivered, joined >>

Init ==
  /\ height = 0 /\ poisoned = FALSE /\ runtime = "up"
  /\ broker = "idle" /\ last_notified_block = 0 /\ to = 0
  /\ listener = "absent"
  /\ kind = [s \in Subs |-> "none"]
  /\ closed = {}
  /\ tasks = {} /\ sends = {}
  /\ delivered = [s \in Subs |-> {}]
  /\ joined = [s \in Subs |-> 0]

On(list) == { s \in Subs : kind[s] = list }

-----------------------------------------------------------------------------
(* mine_block, as seen from outside the lock; a panic in it poisons the     *)
(* lock, and every later read of the chain panics.                          *)
Mine ==
  /\ height < MaxBlock /\ ~ poisoned
  /\ height' = height + 1
  /\ UNCHANGED << poisoned, runtime, brokerVars, subVars, outVars >>

Poison ==
  /\ ~ poisoned
  /\ poisoned' = TRUE
  /\ UNCHANGED << height, runtime, brokerVars, subVars, outVars >>

(* add_listener, once the servers are set up.  The Broker holds the lock of *)
(* the list while it notifies.                                              *)
AddListener ==
  /\ listener = "absent" /\ broker \notin {"heads", "logs", "store"}
  /\ listener' = "live"
  /\ UNCHANGED << chainVars, brokerVars, kind, closed, joined, outVars >>

(* The server, and with it the EthPubSubClient, is dropped. *)
DropListener ==
  /\ listener = "live"
  /\ listener' = "dropped"
  /\ UNCHANGED << chainVars, brokerVars, kind, closed, joined, outVars >>

(* subscribe: onto one of the three lists, or rejected for its parameters.  *)
Subscribe(s, k) ==
  /\ listener = "live" /\ kind[s] = "none"
  /\ kind' = [kind EXCEPT ![s] = k]
  /\ joined' = [joined EXCEPT ![s] = height]
  /\ UNCHANGED << chainVars, brokerVars, listener, closed, outVars >>

Unsubscribe(s) ==
  /\ listener = "live" /\ kind[s] \in {"heads", "logs", "tx"}
  /\ kind' = [kind EXCEPT ![s] = "removed"]
  /\ UNCHANGED << chainVars, brokerVars, listener, closed, joined, outVars >>

(* The client goes away: its sink accepts nothing more.  It matters only if *)
(* something is or was sent to it.                                          *)
Close(s) ==
  /\ s \notin closed /\ kind[s] \in {"heads", "logs", "removed"}
  /\ closed' = closed \cup {s}
  /\ UNCHANGED << chainVars, brokerVars, listener, kind, joined, outVars >>

-----------------------------------------------------------------------------
(* The Broker's interval fires: get_latest_block(). *)
Tick ==
  /\ broker = "idle" /\ runtime = "up"
  /\ IF poisoned THEN broker' = "dead" /\ UNCHANGED to
                 ELSE broker' = "load" /\ to' = height
  /\ UNCHANGED << chainVars, last_notified_block, subVars, outVars >>

(* The timer fails: the process aborts. *)
TimerError ==
  /\ broker = "idle"
  /\ broker' = "aborted"
  /\ UNCHANGED << chainVars, last_notified_block, to, subVars, outVars >>

(* Mutant: a single new block is taken for none. *)
BugLoad ==
  /\ broker = "load"
  /\ broker' = IF to <= last_notified_block + 1 THEN "idle"
               ELSE IF listener = "live" THEN "heads" ELSE "store"
  /\ UNCHANGED << chainVars, last_notified_block, to, subVars, outVars >>

(* No new blocks: return early.  A listener that cannot be upgraded is      *)
(* skipped.                                                                 *)
Load ==
  /\ broker = "load"
  /\ broker' = IF to <= last_notified_block THEN "idle"
               ELSE IF listener = "live" THEN "heads" ELSE "store"
  /\ UNCHANGED << chainVars, last_notified_block, to, subVars, outVars >>

(* Mutant: the range starts at the last block notified. *)
BugFrom == last_notified_block

(* let from = last_notified_block + 1 *)
From == last_notified_block + 1

HeadsTask == [sub |-> {}, from |-> From, to |-> to]

LogsTask(s) == [sub |-> {s}, from |-> From, to |-> to]

NotifyHeads ==
  /\ broker = "heads"
  /\ tasks' = IF On("heads") = {} THEN tasks ELSE tasks \cup {HeadsTask}
  /\ broker' = "logs"
  /\ UNCHANGED << chainVars, last_notified_block, to, subVars, sends, delivered >>

(* One task per subscriber; logs() looks at the chain before the task is    *)
(* spawned.                                                                 *)
NotifyLogs ==
  /\ broker = "logs"
  /\ IF poisoned /\ On("logs") # {}
     THEN broker' = "dead" /\ UNCHANGED tasks
     ELSE /\ tasks' = tasks \cup { LogsTask(s) : s \in On("logs") }
          /\ broker' = "store"
  /\ UNCHANGED << chainVars, last_notified_block, to, subVars, sends, delivered >>

(* Mutant: the latest block is read again. *)
BugStore ==
  /\ broker = "store"
  /\ last_notified_block' = height
  /\ broker' = "idle"
  /\ UNCHANGED << chainVars, to, subVars, outVars >>

Store ==
  /\ broker = "store"
  /\ last_notified_block' = to
  /\ broker' = "idle"
  /\ UNCHANGED << chainVars, to, subVars, outVars >>

Broker == Tick \/ Load \/ NotifyHeads \/ NotifyLogs \/ Store

-----------------------------------------------------------------------------
(* A spawned task has its blocks: it looks up the subscribers to headers    *)
(* now, the subscriber to logs was chosen when it was spawned; one          *)
(* notification is spawned for each.  On a poisoned chain it dies.          *)
Run(k) ==
  /\ k \in tasks
  /\ tasks' = tasks \ {k}
  /\ LET who == IF k.sub = {} THEN On("heads") ELSE k.sub IN
       sends' = IF poisoned \/ k.to > height THEN sends
                ELSE sends \cup (who \X (k.from .. k.to))
  /\ UNCHANGED << chainVars, brokerVars, subVars, delivered >>

(* Notifications are tasks of their own and arrive in any order; one to a   *)
(* client that has gone away is dropped with a warning.                     *)
Deliver(s, n) ==
  /\ << s, n >> \in sends
  /\ sends' = sends \ {<< s, n >>}
  /\ delivered' = IF s \in closed THEN delivered
                  ELSE [delivered EXCEPT ![s] = @ \cup {n}]
  /\ UNCHANGED << chainVars, brokerVars, subVars, tasks >>

(* The runtime is told to stop at once.  A poll in progress may go on, and  *)
(* then every task is dropped, the Broker where a spawn of it is refused.   *)
ShutdownNow ==
  /\ runtime = "up"
  /\ runtime' = "stopping"
  /\ UNCHANGED << height, poisoned, brokerVars, subVars, outVars >>

DropBroker ==
  /\ runtime = "stopping" /\ broker \notin {"dead", "aborted"}
  /\ broker' = "dead"
  /\ UNCHANGED << chainVars, last_notified_block, to, subVars, outVars >>

DropTasks ==
  /\ runtime = "stopping" /\ tasks \cup sends # {}
  /\ tasks' = {} /\ sends' = {}
  /\ UNCHANGED << chainVars, brokerVars, subVars, delivered >>

RunSome == \E k \in tasks : Run(k)

DeliverSome == \E s \in Subs, n \in BlockNumbers : Deliver(s, n)

Next ==
  /\ broker # "aborted"
  /\ \/ Mine \/ Poison \/ AddListener \/ DropListener
     \/ \E s \in Subs : \/ \E k \in {"heads", "logs", "tx", "rejected"} : Subscribe(s, k)
                        \/ Unsubscribe(s) \/ Close(s)
     \/ Broker \/ TimerError \/ RunSome \/ DeliverSome
     \/ ShutdownNow \/ DropBroker \/ DropTasks

Spec == Init /\ [][Next]_vars

(***************************************************************************)
(* Fairness: the interval keeps firing, and the tokio runtime polls every  *)
(* task it was given.                                                      *)
(***************************************************************************)
Fairness ==
  /\ WF_vars(Broker /\ broker # "aborted")
  /\ WF_vars(RunSome /\ broker # "aborted")
  /\ WF_vars(DeliverSome /\ broker # "aborted")

FairSpec == Spec /\ Fairness

-----------------------------------------------------------------------------
Ranges == [sub : SUBSET Subs, from : 1 .. MaxBlock, to : BlockNumbers]

(* Types: the Broker is never ahead of the chain and every range it spawns  *)
(* is one of blocks that exist (struct Inner, pubsub.rs:27-31).             *)
TypeOK ==
  /\ height \in BlockNumbers /\ poisoned \in BOOLEAN /\ runtime \in {"up", "stopping"}
  /\ broker \in {"idle", "load", "heads", "logs", "store", "dead", "aborted"}
  /\ last_notified_block \in 0 .. to /\ to \in 0 .. height
  /\ listener \in {"absent", "live", "dropped"}
  /\ kind \in [Subs -> {"none", "heads", "logs", "tx", "rejected", "removed"}]
  /\ closed \subseteq Subs
  /\ tasks \subseteq Ranges /\ \A k \in tasks : k.from <= k.to /\ k.to <= height
  /\ sends \subseteq Subs \X (1 .. height)
  /\ delivered \in [Subs -> SUBSET (1 .. height)]
  /\ joined \in [Subs -> 0 .. height]

(* The tasks that will notify s if they run now. *)
TasksFor(s) ==
  { k \in tasks : IF k.sub = {} THEN kind[s] = "heads" ELSE s \in k.sub }

Queued(s) == { n \in BlockNumbers : << s, n >> \in sends }

Planned(s) == UNION { k.from .. k.to : k \in TasksFor(s) }

(* No subscriber is told of a block twice: ranges of different ticks never  *)
(* overlap, nor does a range overlap what was already sent                  *)
(* (pubsub.rs:62-79).                                                       *)
AtMostOnce ==
  \A s \in Subs :
    /\ Queued(s) \cap delivered[s] = {}
    /\ Planned(s) \cap (Queued(s) \cup delivered[s]) = {}
    /\ \A k, l \in TasksFor(s) : k # l => (k.from .. k.to) \cap (l.from .. l.to) = {}

(* The Broker's cursor leaves no hole: a block mined after a subscription   *)
(* was made, and not above last_notified_block, has been delivered or is on *)
(* its way, although the lists are read again after each await              *)
(* (eth_pubsub.rs:101-154).  A poisoned chain, a client that has gone away, *)
(* and a server or a runtime that is being dropped are excepted.            *)
NoHole ==
  \A s \in On("heads") \cup On("logs") :
    ~ poisoned /\ s \notin closed /\ listener = "live" /\ runtime = "up" =>
      \A n \in BlockNumbers :
        joined[s] < n /\ n <= last_notified_block =>
          n \in delivered[s] \cup Queued(s) \cup Planned(s)

(* Every block mined after a client subscribed is delivered to it, unless   *)
(* it unsubscribes or goes away, or the node is poisoned or shut down.      *)
EventuallyNotified ==
  \A s \in Subs, n \in 1 .. MaxBlock :
    (s \in On("heads") \cup On("logs") /\ joined[s] < n /\ n <= height)
      ~> \/ n \in delivered[s]
         \/ s \notin On("heads") \cup On("logs") \/ s \in closed
         \/ poisoned \/ listener # "live" \/ runtime # "up" \/ broker = "aborted"
=============================================================================

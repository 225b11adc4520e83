--------------------------- MODULE GatewayProofs ----------------------------
(***************************************************************************)
(* Proofs about the subscriptions and the gateway.                         *)
(***************************************************************************)
EXTENDS Gateway, TLAPS

-----------------------------------------------------------------------------
(* How far the Broker has notified in the poll it is in: subscribers to     *)
(* headers come first, then those to logs.  A poll that was cut short may   *)
(* have notified up to `to`.                                                *)
HeadsUpTo == IF broker \in {"logs", "store", "dead", "aborted"} THEN to ELSE last_notified_block
LogsUpTo  == IF broker \in {"store", "dead", "aborted"} THEN to ELSE last_notified_block

(* Every task is one for all subscribers to headers or for one subscriber   *)
(* to logs, of a range below what was notified.                             *)
GoodTask(k) ==
  \/ k.sub = {} /\ k.to <= HeadsUpTo
  \/ \E s \in Subs : k.sub = {s} /\ kind[s] \in {"logs", "removed"} /\ k.to <= LogsUpTo

(* So is everything that was sent. *)
GoodSend(s, n) ==
  /\ kind[s] \in {"heads", "logs", "removed"}
  /\ kind[s] = "heads" => n <= HeadsUpTo
  /\ kind[s] = "logs" => n <= LogsUpTo

Disjoint(k, l) == k.to < l.from \/ l.to < k.from

InRange(n, k) == k.from <= n /\ n <= k.to

(* The inductive invariant behind AtMostOnce. *)
OnceInv ==
  /\ \A k \in tasks : GoodTask(k)
  /\ \A s \in Subs, n \in BlockNumbers :
       << s, n >> \in sends \/ n \in delivered[s] => GoodSend(s, n)
  /\ \A k, l \in tasks : k.sub = l.sub /\ k # l => Disjoint(k, l)
  /\ \A s \in Subs, n \in BlockNumbers : ~ (<< s, n >> \in sends /\ n \in delivered[s])
  /\ \A s \in Subs, n \in BlockNumbers : \A k \in TasksFor(s) :
       InRange(n, k) => << s, n >> \notin sends /\ n \notin delivered[s]

(* How far a subscriber's blocks are delivered or on their way. *)
CoveredUpTo(s) ==
  IF broker = "store" \/ (broker = "logs" /\ kind[s] = "heads") THEN to ELSE last_notified_block

Covered(s, n) ==
  n \in delivered[s] \/ << s, n >> \in sends \/ \E k \in TasksFor(s) : InRange(n, k)

Reaches(s) ==
  /\ kind[s] \in {"heads", "logs"} /\ s \notin closed
  /\ ~ poisoned /\ listener = "live" /\ runtime = "up"

(* The inductive invariant behind NoHole. *)
HoleInv ==
  /\ listener = "absent" => \A s \in Subs : kind[s] = "none"
  /\ \A s \in Subs, n \in BlockNumbers :
       Reaches(s) /\ joined[s] < n /\ n <= CoveredUpTo(s) => Covered(s, n)

(* The Broker notifies only of blocks it has not notified of. *)
Ahead == broker \in {"heads", "logs"} => last_notified_block < to

PInv == TypeOK /\ Ahead /\ OnceInv /\ HoleInv

-----------------------------------------------------------------------------
(* The variables are typed, and the Broker is ahead while it notifies. *)
LEMMA StepKeepsTypes ==
  ASSUME TypeOK, Ahead, [Next]_vars
  PROVE  TypeOK' /\ Ahead'
<1> USE BoundsAssumption DEF TypeOK, Ahead, BlockNumbers
<1>1. CASE Mine
  <2>1. 1 .. height \subseteq 1 .. height' /\ height' \in 0 .. MaxBlock /\ height <= height'
    BY <1>1 DEF Mine
  <2>2. delivered' \in [Subs -> SUBSET (1 .. height')] /\ joined' \in [Subs -> 0 .. height']
    BY <1>1, <2>1 DEF Mine, outVars, subVars
  <2>3. sends' \subseteq Subs \X (1 .. height')
    BY <1>1, <2>1, Zenon DEF Mine, outVars
  <2>4. tasks' \subseteq Ranges /\ \A k \in tasks' : k.from <= k.to /\ k.to <= height'
    BY <1>1, <2>1 DEF Mine, outVars, Ranges
  <2>5. QED
    BY <1>1, <2>1, <2>2, <2>3, <2>4 DEF Mine, brokerVars, subVars
<1>2. CASE Poison \/ ShutdownNow
  BY <1>2, Zenon DEF Poison, ShutdownNow, brokerVars, subVars, outVars
<1>3. CASE AddListener \/ DropListener
  BY <1>3, Zenon DEF AddListener, DropListener, chainVars, brokerVars, outVars
<1>4. CASE Tick
  BY <1>4 DEF Tick, chainVars, subVars, outVars
<1>5. CASE TimerError \/ DropBroker \/ Store
  BY <1>5 DEF TimerError, DropBroker, Store, chainVars, subVars, outVars
<1>6. CASE Load
  BY <1>6 DEF Load, chainVars, subVars, outVars
<1>7. ASSUME NEW s \in Subs, NEW j \in {"heads", "logs", "tx", "rejected"}, Subscribe(s, j)
      PROVE  TypeOK' /\ Ahead'
  BY <1>7 DEF Subscribe, chainVars, brokerVars, outVars
<1>8. ASSUME NEW s \in Subs, Unsubscribe(s) \/ Close(s)
      PROVE  TypeOK' /\ Ahead'
  BY <1>8, Zenon DEF Unsubscribe, Close, chainVars, brokerVars, outVars
<1>9. CASE NotifyHeads
  <2>1. HeadsTask \in Ranges /\ HeadsTask.from <= HeadsTask.to /\ HeadsTask.to <= height
    BY <1>9 DEF NotifyHeads, HeadsTask, From, Ranges
  <2>2. tasks' \subseteq tasks \cup {HeadsTask}
    BY <1>9, Zenon DEF NotifyHeads
  <2>3. QED
    BY <1>9, <2>1, <2>2, Zenon DEF NotifyHeads, chainVars, subVars
<1>10. CASE NotifyLogs
  <2>1. ASSUME NEW s \in Subs
        PROVE  /\ LogsTask(s) \in Ranges /\ LogsTask(s).from <= LogsTask(s).to
               /\ LogsTask(s).to <= height
    BY <1>10 DEF NotifyLogs, LogsTask, From, Ranges
  <2>2. \A k \in tasks' : k \in tasks \/ \E s \in Subs : k = LogsTask(s)
    BY <1>10 DEF NotifyLogs, On
  <2>3. QED
    BY <1>10, <2>1, <2>2, Zenon DEF NotifyLogs, chainVars, subVars
<1>11. ASSUME NEW k \in tasks, Run(k)
      PROVE  TypeOK' /\ Ahead'
  <2>1. \A s \in IF k.sub = {} THEN On("heads") ELSE k.sub : s \in Subs
    BY Zenon DEF On, Ranges
  <2>2. k.from .. k.to \subseteq 1 .. height
    BY DEF Ranges
  <2>3. sends' \subseteq Subs \X (1 .. height)
    BY <1>11, <2>1, <2>2, Zenon DEF Run
  <2>4. QED
    BY <1>11, <2>3, Zenon DEF Run, chainVars, brokerVars, subVars
<1>12. ASSUME NEW s \in Subs, NEW n \in BlockNumbers, Deliver(s, n)
      PROVE  TypeOK' /\ Ahead'
  <2>1. n \in 1 .. height
    BY <1>12, Zenon DEF Deliver
  <2>2. QED
    BY <1>12, <2>1, Zenon DEF Deliver, chainVars, brokerVars, subVars
<1>13. CASE DropTasks
  BY <1>13, Zenon DEF DropTasks, chainVars, brokerVars, subVars
<1>14. CASE UNCHANGED vars
  BY <1>14, Zenon DEF vars
<1>15. QED
  BY <1>1, <1>2, <1>3, <1>4, <1>5, <1>6, <1>7, <1>8, <1>9, <1>10, <1>11, <1>12, <1>13, <1>14, Zenon
     DEF Next, Broker, RunSome, DeliverSome

-----------------------------------------------------------------------------
(* Steps that leave the tasks, the sends and the lists alone keep OnceInv,  *)
(* since what was notified never goes back.                                 *)
LEMMA QuietKeepsOnce ==
  ASSUME TypeOK, TypeOK', OnceInv,
         UNCHANGED << tasks, sends, delivered, kind >>,
         HeadsUpTo <= HeadsUpTo', LogsUpTo <= LogsUpTo'
  PROVE  OnceInv'
<1>1. /\ HeadsUpTo \in Nat /\ HeadsUpTo' \in Nat /\ LogsUpTo \in Nat /\ LogsUpTo' \in Nat
      /\ \A k \in tasks : k.to \in Nat
      /\ \A n \in BlockNumbers : n \in Nat
  BY BoundsAssumption DEF TypeOK, HeadsUpTo, LogsUpTo, BlockNumbers, Ranges
<1>2. \A k \in tasks : GoodTask(k) => GoodTask(k)'
  BY <1>1 DEF GoodTask
<1>3. \A s \in Subs, n \in BlockNumbers : GoodSend(s, n) => GoodSend(s, n)'
  BY <1>1 DEF GoodSend
<1>4. \A s \in Subs : TasksFor(s)' = TasksFor(s)
  BY Zenon DEF TasksFor
<1>5. QED
  BY <1>2, <1>3, <1>4, Zenon DEF OnceInv

(* A subscription starts with nothing sent to it, and one that is removed   *)
(* is on no list any more.                                                  *)
LEMMA ListsKeepOnce ==
  ASSUME TypeOK, OnceInv, NEW s \in Subs,
         Unsubscribe(s) \/ \E j \in {"heads", "logs", "tx", "rejected"} : Subscribe(s, j)
  PROVE  OnceInv'
<1>1. /\ UNCHANGED << tasks, sends, delivered, broker, last_notified_block, to >>
      /\ \A r \in Subs : r # s => kind'[r] = kind[r]
  BY Zenon DEF Unsubscribe, Subscribe, brokerVars, outVars, TypeOK
<1>2. HeadsUpTo' = HeadsUpTo /\ LogsUpTo' = LogsUpTo
  BY <1>1, Zenon DEF HeadsUpTo, LogsUpTo
<1>3. CASE Unsubscribe(s)
  <2>1. kind'[s] = "removed" /\ kind[s] \in {"heads", "logs", "tx"}
    BY <1>3, Zenon DEF Unsubscribe, TypeOK
  <2>2. \A k \in tasks : GoodTask(k) => GoodTask(k)'
    BY <1>1, <1>2, <2>1, Zenon DEF GoodTask
  <2>3. \A r \in Subs, n \in BlockNumbers : GoodSend(r, n) => GoodSend(r, n)'
    BY <1>1, <1>2, <2>1, Zenon DEF GoodSend
  <2>4. \A r \in Subs : TasksFor(r)' \subseteq TasksFor(r)
    BY <1>1, <2>1, Zenon DEF TasksFor
  <2>5. QED
    BY <1>1, <2>2, <2>3, <2>4, Zenon DEF OnceInv
<1>4. CASE \E j \in {"heads", "logs", "tx", "rejected"} : Subscribe(s, j)
  <2>1. kind[s] = "none"
    BY <1>4, Zenon DEF Subscribe
  <2>2. \A n \in BlockNumbers : << s, n >> \notin sends /\ n \notin delivered[s]
    BY <2>1, Zenon DEF OnceInv, GoodSend
  <2>3. \A k \in tasks : GoodTask(k) => GoodTask(k)'
    BY <1>1, <1>2, <2>1, Zenon DEF GoodTask
  <2>4. \A r \in Subs, n \in BlockNumbers : r # s => (GoodSend(r, n) => GoodSend(r, n)')
    BY <1>1, <1>2, Zenon DEF GoodSend
  <2>5. \A r \in Subs : r # s => TasksFor(r)' = TasksFor(r)
    BY <1>1, Zenon DEF TasksFor
  <2>6. QED
    BY <1>1, <2>2, <2>3, <2>4, <2>5, Zenon DEF OnceInv
<1>5. QED
  BY <1>3, <1>4, Zenon

(* New tasks are for blocks above everything notified before. *)
LEMMA NotifyHeadsKeepsOnce ==
  ASSUME TypeOK, Ahead, OnceInv, NotifyHeads
  PROVE  OnceInv'
<1>0. PICK h : h = HeadsTask
  BY Zenon
<1>1. /\ UNCHANGED << sends, delivered, kind, last_notified_block, to >>
      /\ broker = "heads" /\ broker' = "logs" /\ tasks' \subseteq tasks \cup {h}
  BY <1>0, Zenon DEF NotifyHeads, subVars
<1>2. /\ last_notified_block \in Nat /\ to \in Nat /\ last_notified_block < to
      /\ \A k \in tasks : k.to \in Nat /\ k.from \in Nat
      /\ \A n \in BlockNumbers : n \in Nat
  BY <1>1, BoundsAssumption DEF TypeOK, Ahead, BlockNumbers, Ranges
<1>3. /\ HeadsUpTo = last_notified_block /\ HeadsUpTo' = to
      /\ LogsUpTo = last_notified_block /\ LogsUpTo' = last_notified_block
  BY <1>1, Zenon DEF HeadsUpTo, LogsUpTo
<1>4. h.sub = {} /\ h.from = last_notified_block + 1 /\ h.to = to
  BY <1>0, Zenon DEF HeadsTask, From
<1>5. \A k \in tasks : GoodTask(k)'
  BY <1>1, <1>2, <1>3 DEF GoodTask, OnceInv
<1>6. GoodTask(h)'
  BY <1>1, <1>2, <1>3, <1>4 DEF GoodTask
<1>7. \A s \in Subs, n \in BlockNumbers : GoodSend(s, n) => GoodSend(s, n)'
  BY <1>1, <1>2, <1>3 DEF GoodSend
<1>8. \A k \in tasks : k.sub = {} => k.to < h.from
  BY <1>2, <1>3, <1>4 DEF OnceInv, GoodTask
<1>9. \A s \in Subs : TasksFor(s)' \subseteq TasksFor(s) \cup {h}
  BY <1>1, Zenon DEF TasksFor
<1>10. ASSUME NEW s \in Subs, NEW n \in BlockNumbers, h \in TasksFor(s)', InRange(n, h)
       PROVE  << s, n >> \notin sends /\ n \notin delivered[s]
  <2>1. kind[s] = "heads"
    BY <1>1, <1>4, <1>10, Zenon DEF TasksFor
  <2>2. ~ (n <= last_notified_block)
    BY <1>2, <1>4, <1>10 DEF InRange
  <2>3. QED
    BY <1>3, <2>1, <2>2, Zenon DEF OnceInv, GoodSend
<1>11. QED
  BY <1>1, <1>4, <1>5, <1>6, <1>7, <1>8, <1>9, <1>10, Zenon DEF OnceInv, Disjoint

(* So are those of the subscribers to logs, one each. *)
LEMMA NotifyLogsKeepsOnce ==
  ASSUME TypeOK, Ahead, OnceInv, NotifyLogs, broker' = "store"
  PROVE  OnceInv'
<1>0. PICK task : task = [s \in Subs |-> LogsTask(s)]
  BY Zenon
<1>1. /\ UNCHANGED << sends, delivered, kind, last_notified_block, to >>
      /\ broker = "logs"
      /\ \A k \in tasks' : k \in tasks \/ \E s \in Subs : kind[s] = "logs" /\ k = task[s]
  BY <1>0, Zenon DEF NotifyLogs, subVars, On
<1>2. /\ last_notified_block \in Nat /\ to \in Nat /\ last_notified_block < to
      /\ \A k \in tasks : k.to \in Nat /\ k.from \in Nat
      /\ \A n \in BlockNumbers : n \in Nat
  BY <1>1, BoundsAssumption DEF TypeOK, Ahead, BlockNumbers, Ranges
<1>3. /\ HeadsUpTo = to /\ HeadsUpTo' = to
      /\ LogsUpTo = last_notified_block /\ LogsUpTo' = to
  BY <1>1, Zenon DEF HeadsUpTo, LogsUpTo
<1>4. \A s \in Subs : /\ task[s].sub = {s} /\ task[s].to = to
                      /\ task[s].from = last_notified_block + 1
  BY <1>0, Zenon DEF LogsTask, From
<1>5. \A k \in tasks : GoodTask(k)'
  BY <1>1, <1>2, <1>3 DEF GoodTask, OnceInv
<1>6. \A s \in Subs : kind[s] = "logs" => GoodTask(task[s])'
  BY <1>1, <1>2, <1>3, <1>4 DEF GoodTask
<1>7. \A s \in Subs, n \in BlockNumbers : GoodSend(s, n) => GoodSend(s, n)'
  BY <1>1, <1>2, <1>3 DEF GoodSend
<1>8. \A k \in tasks, s \in Subs : kind[s] = "logs" /\ k.sub = {s} => k.to < task[s].from
  BY <1>2, <1>3, <1>4 DEF OnceInv, GoodTask
<1>9. ASSUME NEW r \in Subs, NEW k \in TasksFor(r)', k \notin TasksFor(r)
      PROVE  kind[r] = "logs" /\ k = task[r]
  <2>1. k \in tasks' /\ k \notin tasks /\ (k.sub # {} => r \in k.sub)
    BY <1>1, <1>9, Zenon DEF TasksFor
  <2>2. PICK s \in Subs : kind[s] = "logs" /\ k = task[s]
    BY <1>1, <2>1, Zenon
  <2>3. k.sub = {s}
    BY <1>4, <2>2, Zenon
  <2>4. r = s
    BY <2>1, <2>3, Zenon
  <2>5. QED
    BY <2>2, <2>4, Zenon
<1>10. ASSUME NEW s \in Subs, NEW n \in BlockNumbers, kind[s] = "logs", InRange(n, task[s])
       PROVE  << s, n >> \notin sends /\ n \notin delivered[s]
  <2>1. ~ (n <= last_notified_block)
    BY <1>2, <1>4, <1>10 DEF InRange
  <2>2. QED
    BY <1>3, <1>10, <2>1, Zenon DEF OnceInv, GoodSend
<1>11. \A k, l \in tasks' : k.sub = l.sub /\ k # l => Disjoint(k, l)
  BY <1>1, <1>4, <1>8 DEF OnceInv, Disjoint
<1>12. QED
  BY <1>1, <1>5, <1>6, <1>7, <1>9, <1>10, <1>11 DEF OnceInv

(* Which tasks are for a subscriber depends on its list. *)
LEMMA TaskOf ==
  ASSUME OnceInv, NEW s \in Subs, NEW k \in TasksFor(s)
  PROVE  k \in tasks /\ k.sub = IF kind[s] = "heads" THEN {} ELSE {s}
<1>1. k \in tasks /\ IF k.sub = {} THEN kind[s] = "heads" ELSE s \in k.sub
  BY Zenon DEF TasksFor
<1>2. ASSUME k.sub # {}
      PROVE  k.sub = {s} /\ kind[s] # "heads"
  BY <1>1, <1>2, Zenon DEF OnceInv, GoodTask
<1>3. QED
  BY <1>1, <1>2, Zenon

(* A task sends what it planned, and plans it no more. *)
LEMMA RunKeepsOnce ==
  ASSUME TypeOK, OnceInv, NEW k0 \in tasks, Run(k0)
  PROVE  OnceInv'
<1>1. /\ UNCHANGED << delivered, kind, last_notified_block, to, broker >>
      /\ tasks' = tasks \ {k0}
  BY Zenon DEF Run, brokerVars, subVars
<1>2. \A s \in Subs, n \in BlockNumbers :
        << s, n >> \in sends' => << s, n >> \in sends \/ (k0 \in TasksFor(s) /\ InRange(n, k0))
  <2>1. k0.from \in Nat /\ k0.to \in Nat
    BY BoundsAssumption DEF TypeOK, Ranges, BlockNumbers
  <2>2. QED
    BY <2>1 DEF Run, TasksFor, InRange, On
<1>3. HeadsUpTo' = HeadsUpTo /\ LogsUpTo' = LogsUpTo /\ HeadsUpTo \in Nat /\ LogsUpTo \in Nat
  BY <1>1, BoundsAssumption DEF HeadsUpTo, LogsUpTo, TypeOK, BlockNumbers
<1>4. \A k \in tasks : GoodTask(k) => GoodTask(k)'
  BY <1>1, <1>3, Zenon DEF GoodTask
<1>5. \A s \in Subs, n \in BlockNumbers : GoodSend(s, n) => GoodSend(s, n)'
  BY <1>1, <1>3, Zenon DEF GoodSend
<1>6. \A s \in Subs : TasksFor(s)' = TasksFor(s) \ {k0}
  BY <1>1, Zenon DEF TasksFor
<1>7. ASSUME NEW s \in Subs, NEW n \in BlockNumbers, k0 \in TasksFor(s), InRange(n, k0)
      PROVE  GoodSend(s, n)
  <2>1. n \in Nat /\ k0.to \in Nat /\ n <= k0.to
    BY <1>7, BoundsAssumption DEF TypeOK, Ranges, BlockNumbers, InRange
  <2>2. GoodTask(k0)
    BY Zenon DEF OnceInv
  <2>3. QED
    BY <1>3, <1>7, <2>1, <2>2 DEF GoodSend, GoodTask, TasksFor
<1>8. ASSUME NEW s \in Subs, NEW n \in BlockNumbers, k0 \in TasksFor(s), InRange(n, k0),
             NEW k \in TasksFor(s), k # k0
      PROVE  ~ InRange(n, k)
  <2>1. k \in tasks /\ k.sub = k0.sub
    BY <1>8, TaskOf, Zenon
  <2>2. Disjoint(k, k0)
    BY <1>8, <2>1, Zenon DEF OnceInv
  <2>3. /\ k.from \in Nat /\ k.to \in Nat /\ k0.from \in Nat /\ k0.to \in Nat /\ n \in Nat
    BY <2>1, BoundsAssumption DEF TypeOK, Ranges, BlockNumbers
  <2>4. QED
    BY <1>8, <2>2, <2>3 DEF Disjoint, InRange
<1>9. QED
  BY <1>1, <1>2, <1>4, <1>5, <1>6, <1>7, <1>8 DEF OnceInv

(* What is delivered is no longer to be sent. *)
LEMMA DeliverKeepsOnce ==
  ASSUME TypeOK, OnceInv, NEW s0 \in Subs, NEW n0 \in BlockNumbers, Deliver(s0, n0)
  PROVE  OnceInv'
<1>1. /\ UNCHANGED << tasks, kind, last_notified_block, to, broker >>
      /\ << s0, n0 >> \in sends /\ sends' = sends \ {<< s0, n0 >>}
  BY Zenon DEF Deliver, brokerVars, subVars
<1>2. \A s \in Subs, n \in BlockNumbers :
        n \in delivered'[s] => n \in delivered[s] \/ (s = s0 /\ n = n0)
  BY Zenon DEF Deliver, TypeOK
<1>3. HeadsUpTo' = HeadsUpTo /\ LogsUpTo' = LogsUpTo
  BY <1>1, Zenon DEF HeadsUpTo, LogsUpTo
<1>4. \A k \in tasks : GoodTask(k) => GoodTask(k)'
  BY <1>1, <1>3, Zenon DEF GoodTask
<1>5. \A s \in Subs, n \in BlockNumbers : GoodSend(s, n) => GoodSend(s, n)'
  BY <1>1, <1>3, Zenon DEF GoodSend
<1>6. \A s \in Subs : TasksFor(s)' = TasksFor(s)
  BY <1>1, Zenon DEF TasksFor
<1>7. QED
  BY <1>1, <1>2, <1>4, <1>5, <1>6, Zenon DEF OnceInv

(* No subscriber is notified twice, whatever the step. *)
LEMMA StepKeepsOnce ==
  ASSUME TypeOK, TypeOK', Ahead, OnceInv, [Next]_vars
  PROVE  OnceInv'
<1>1. last_notified_block \in Nat /\ to \in Nat /\ last_notified_block <= to
  BY BoundsAssumption DEF TypeOK, BlockNumbers
<1>2. CASE Mine \/ Poison \/ AddListener \/ DropListener \/ ShutdownNow \/ UNCHANGED vars
  <2>1. UNCHANGED << tasks, sends, delivered, kind, broker, last_notified_block, to >>
    BY <1>2, Zenon DEF Mine, Poison, AddListener, DropListener, ShutdownNow, brokerVars, subVars,
                outVars, vars
  <2>2. QED
    BY <1>1, <2>1, QuietKeepsOnce DEF HeadsUpTo, LogsUpTo
<1>3. CASE Tick \/ TimerError \/ Load \/ DropBroker
  <2>1. UNCHANGED << tasks, sends, delivered, kind, last_notified_block >>
    BY <1>3, Zenon DEF Tick, TimerError, Load, DropBroker, subVars, outVars
  <2>2. last_notified_block' \in Nat /\ to' \in Nat /\ last_notified_block' <= to'
    BY BoundsAssumption DEF TypeOK, BlockNumbers
  <2>3. HeadsUpTo <= HeadsUpTo' /\ LogsUpTo <= LogsUpTo'
    BY <1>1, <1>3, <2>1, <2>2 DEF HeadsUpTo, LogsUpTo, Tick, TimerError, Load, DropBroker
  <2>4. QED
    BY <2>1, <2>3, QuietKeepsOnce, Zenon
<1>4. CASE Store
  <2>1. /\ UNCHANGED << tasks, sends, delivered, kind >>
        /\ HeadsUpTo = to /\ HeadsUpTo' = to /\ LogsUpTo = to /\ LogsUpTo' = to
    BY <1>4, Zenon DEF Store, subVars, outVars, HeadsUpTo, LogsUpTo
  <2>2. QED
    BY <1>1, <2>1, QuietKeepsOnce
<1>5. ASSUME NEW s \in Subs, Close(s)
      PROVE  OnceInv'
  <2>1. UNCHANGED << tasks, sends, delivered, kind, broker, last_notified_block, to >>
    BY <1>5, Zenon DEF Close, brokerVars, outVars
  <2>2. QED
    BY <1>1, <2>1, QuietKeepsOnce DEF HeadsUpTo, LogsUpTo
<1>6. ASSUME NEW s \in Subs,
             Unsubscribe(s) \/ \E j \in {"heads", "logs", "tx", "rejected"} : Subscribe(s, j)
      PROVE  OnceInv'
  BY <1>6, ListsKeepOnce, Zenon
<1>7. CASE NotifyHeads
  BY <1>7, NotifyHeadsKeepsOnce, Zenon
<1>8. CASE NotifyLogs
  <2>1. CASE broker' = "store"
    BY <1>8, <2>1, NotifyLogsKeepsOnce, Zenon
  <2>2. CASE broker' # "store"
    <3>1. /\ UNCHANGED << tasks, sends, delivered, kind, last_notified_block, to >>
          /\ broker = "logs" /\ broker' = "dead"
      BY <1>8, <2>2, Zenon DEF NotifyLogs, subVars
    <3>2. HeadsUpTo <= HeadsUpTo' /\ LogsUpTo <= LogsUpTo'
      BY <1>1, <3>1 DEF HeadsUpTo, LogsUpTo
    <3>3. QED
      BY <3>1, <3>2, QuietKeepsOnce, Zenon
  <2>3. QED
    BY <2>1, <2>2, Zenon
<1>9. ASSUME NEW k \in tasks, Run(k)
      PROVE  OnceInv'
  BY <1>9, RunKeepsOnce, Zenon
<1>10. ASSUME NEW s \in Subs, NEW n \in BlockNumbers, Deliver(s, n)
       PROVE  OnceInv'
  BY <1>10, DeliverKeepsOnce, Zenon
<1>11. CASE DropTasks
  <2>1. /\ UNCHANGED << delivered, kind, broker, last_notified_block, to >>
        /\ tasks' = {} /\ sends' = {}
    BY <1>11, Zenon DEF DropTasks, brokerVars, subVars
  <2>2. HeadsUpTo' = HeadsUpTo /\ LogsUpTo' = LogsUpTo
    BY <2>1, Zenon DEF HeadsUpTo, LogsUpTo
  <2>3. \A s \in Subs, n \in BlockNumbers : GoodSend(s, n) => GoodSend(s, n)'
    BY <2>1, <2>2, Zenon DEF GoodSend
  <2>4. \A s \in Subs : TasksFor(s)' = {}
    BY <2>1, Zenon DEF TasksFor
  <2>5. QED
    BY <2>1, <2>3, <2>4, Zenon DEF OnceInv
<1>12. QED
  BY <1>2, <1>3, <1>4, <1>5, <1>6, <1>7, <1>8, <1>9, <1>10, <1>11, Zenon
     DEF Next, Broker, RunSome, DeliverSome

-----------------------------------------------------------------------------
(* Steps that leave alone what is planned, sent and delivered, and promise  *)
(* no subscriber more, keep HoleInv.                                        *)
LEMMA QuietKeepsHole ==
  ASSUME TypeOK, TypeOK', HoleInv,
         UNCHANGED << tasks, sends, delivered, kind, joined >>,
         listener' = "absent" => listener = "absent",
         \A s \in Subs : Reaches(s)' => Reaches(s) /\ CoveredUpTo(s)' <= CoveredUpTo(s)
  PROVE  HoleInv'
<1>1. \A s \in Subs : CoveredUpTo(s) \in Nat /\ CoveredUpTo(s)' \in Nat
  BY BoundsAssumption DEF CoveredUpTo, TypeOK, BlockNumbers
<1>2. \A n \in BlockNumbers : n \in Nat
  BY BoundsAssumption DEF BlockNumbers
<1>3. \A s \in Subs, n \in BlockNumbers : Covered(s, n) => Covered(s, n)'
  BY Zenon DEF Covered, TasksFor, InRange
<1>4. QED
  BY <1>1, <1>2, <1>3 DEF HoleInv

(* Subscribers to headers are promised the blocks of the new task. *)
LEMMA NotifyHeadsKeepsHole ==
  ASSUME TypeOK, HoleInv, NotifyHeads
  PROVE  HoleInv'
<1>1. /\ UNCHANGED << sends, delivered, kind, joined, closed, poisoned, listener, runtime >>
      /\ UNCHANGED << last_notified_block, to >>
      /\ broker = "heads" /\ broker' = "logs" /\ tasks \subseteq tasks'
  BY Zenon DEF NotifyHeads, subVars, chainVars
<1>2. \A n \in BlockNumbers : n \in Nat
  BY BoundsAssumption DEF BlockNumbers
<1>3. last_notified_block \in Nat /\ to \in Nat
  BY BoundsAssumption DEF TypeOK, BlockNumbers
<1>4. \A s \in Subs, n \in BlockNumbers : Covered(s, n) => Covered(s, n)'
  BY <1>1, Zenon DEF Covered, TasksFor, InRange
<1>5. ASSUME NEW s \in Subs, NEW n \in BlockNumbers, kind[s] = "heads",
             last_notified_block < n, n <= to
      PROVE  Covered(s, n)'
  <2>1. PICK h : h = HeadsTask
    BY Zenon
  <2>2. h \in tasks' /\ h.sub = {} /\ h.from = last_notified_block + 1 /\ h.to = to
    BY <1>5, <2>1, Zenon DEF NotifyHeads, On, HeadsTask, From
  <2>3. h \in TasksFor(s)'
    BY <1>1, <1>5, <2>2, Zenon DEF TasksFor
  <2>4. InRange(n, h)
    BY <1>2, <1>3, <1>5, <2>2 DEF InRange
  <2>5. QED
    BY <2>3, <2>4, Zenon DEF Covered, InRange
<1>6. \A s \in Subs : /\ CoveredUpTo(s) = last_notified_block
                      /\ CoveredUpTo(s)' = IF kind[s] = "heads" THEN to ELSE last_notified_block
  BY <1>1, Zenon DEF CoveredUpTo
<1>7. \A s \in Subs : Reaches(s)' <=> Reaches(s)
  BY <1>1, Zenon DEF Reaches
<1>8. QED
  BY <1>1, <1>2, <1>3, <1>4, <1>5, <1>6, <1>7 DEF HoleInv

(* Subscribers to logs are promised the blocks of theirs. *)
LEMMA NotifyLogsKeepsHole ==
  ASSUME TypeOK, HoleInv, NotifyLogs
  PROVE  HoleInv'
<1>1. /\ UNCHANGED << sends, delivered, kind, joined, closed, poisoned, listener, runtime >>
      /\ UNCHANGED << last_notified_block, to >>
      /\ broker = "logs" /\ broker' \in {"dead", "store"} /\ tasks \subseteq tasks'
  BY Zenon DEF NotifyLogs, subVars, chainVars
<1>2. \A n \in BlockNumbers : n \in Nat
  BY BoundsAssumption DEF BlockNumbers
<1>3. last_notified_block \in Nat /\ to \in Nat
  BY BoundsAssumption DEF TypeOK, BlockNumbers
<1>4. \A s \in Subs, n \in BlockNumbers : Covered(s, n) => Covered(s, n)'
  BY <1>1, Zenon DEF Covered, TasksFor, InRange
<1>5. ASSUME NEW s \in Subs, NEW n \in BlockNumbers, kind[s] = "logs", ~ poisoned,
             last_notified_block < n, n <= to
      PROVE  Covered(s, n)'
  <2>1. PICK h : h = LogsTask(s)
    BY Zenon
  <2>2. h \in tasks' /\ h.sub = {s} /\ h.from = last_notified_block + 1 /\ h.to = to
    BY <1>5, <2>1, Zenon DEF NotifyLogs, On, LogsTask, From
  <2>3. h \in TasksFor(s)'
    BY <2>2, Zenon DEF TasksFor
  <2>4. InRange(n, h)
    BY <1>2, <1>3, <1>5, <2>2 DEF InRange
  <2>5. QED
    BY <2>3, <2>4, Zenon DEF Covered, InRange
<1>6. \A s \in Subs : /\ CoveredUpTo(s) = IF kind[s] = "heads" THEN to ELSE last_notified_block
                      /\ CoveredUpTo(s)' \in {to, last_notified_block}
  BY <1>1, Zenon DEF CoveredUpTo
<1>7. \A s \in Subs : Reaches(s)' => /\ Reaches(s) /\ ~ poisoned
                                     /\ kind[s] \in {"heads", "logs"}
  BY <1>1, Zenon DEF Reaches
<1>8. last_notified_block <= to
  BY BoundsAssumption DEF TypeOK, BlockNumbers
<1>9. QED
  BY <1>1, <1>2, <1>3, <1>4, <1>5, <1>6, <1>7, <1>8 DEF HoleInv

(* What a task planned is now sent to whom it was planned for. *)
LEMMA RunKeepsHole ==
  ASSUME TypeOK, HoleInv, NEW k0 \in tasks, Run(k0)
  PROVE  HoleInv'
<1>1. /\ UNCHANGED << delivered, kind, joined, closed, poisoned, listener, runtime >>
      /\ UNCHANGED << last_notified_block, to, broker >>
      /\ tasks' = tasks \ {k0} /\ sends \subseteq sends'
  BY Zenon DEF Run, subVars, chainVars, brokerVars
<1>2. k0.to <= height /\ k0.from \in Nat /\ k0.to \in Nat
  BY BoundsAssumption DEF TypeOK, Ranges, BlockNumbers
<1>3. ASSUME NEW s \in Subs, NEW n \in BlockNumbers, ~ poisoned,
             k0 \in TasksFor(s), InRange(n, k0)
      PROVE  << s, n >> \in sends'
  <2>1. s \in IF k0.sub = {} THEN On("heads") ELSE k0.sub
    BY <1>3, Zenon DEF TasksFor, On
  <2>2. n \in k0.from .. k0.to /\ ~ (k0.to > height)
    BY <1>2, <1>3, BoundsAssumption DEF InRange, BlockNumbers, TypeOK
  <2>3. QED
    BY <1>3, <2>1, <2>2, Zenon DEF Run
<1>4. \A s \in Subs : TasksFor(s)' = TasksFor(s) \ {k0}
  BY <1>1, Zenon DEF TasksFor
<1>5. \A s \in Subs, n \in BlockNumbers : ~ poisoned /\ Covered(s, n) => Covered(s, n)'
  BY <1>1, <1>3, <1>4, Zenon DEF Covered, InRange
<1>6. \A s \in Subs : Reaches(s)' => Reaches(s) /\ ~ poisoned
  BY <1>1, Zenon DEF Reaches
<1>7. \A s \in Subs : CoveredUpTo(s)' = CoveredUpTo(s)
  BY <1>1, Zenon DEF CoveredUpTo
<1>8. QED
  BY <1>1, <1>5, <1>6, <1>7, Zenon DEF HoleInv

(* What was sent is delivered, unless the client has gone away. *)
LEMMA DeliverKeepsHole ==
  ASSUME TypeOK, HoleInv, NEW s0 \in Subs, NEW n0 \in BlockNumbers, Deliver(s0, n0)
  PROVE  HoleInv'
<1>1. /\ UNCHANGED << tasks, kind, joined, closed, poisoned, listener, runtime >>
      /\ UNCHANGED << last_notified_block, to, broker >>
  BY Zenon DEF Deliver, subVars, chainVars, brokerVars
<1>2. \A s \in Subs, n \in BlockNumbers :
        /\ n \in delivered[s] => n \in delivered'[s]
        /\ << s, n >> \in sends /\ s \notin closed => << s, n >> \in sends' \/ n \in delivered'[s]
  BY Zenon DEF Deliver, TypeOK
<1>3. \A s \in Subs, n \in BlockNumbers : s \notin closed /\ Covered(s, n) => Covered(s, n)'
  BY <1>1, <1>2, Zenon DEF Covered, TasksFor, InRange
<1>4. \A s \in Subs : Reaches(s)' => Reaches(s) /\ s \notin closed
  BY <1>1, Zenon DEF Reaches
<1>5. \A s \in Subs : CoveredUpTo(s)' = CoveredUpTo(s)
  BY <1>1, Zenon DEF CoveredUpTo
<1>6. QED
  BY <1>1, <1>3, <1>4, <1>5, Zenon DEF HoleInv

(* A subscription begins at the height of the chain, which the Broker is    *)
(* not above; one that is removed is promised nothing.                      *)
LEMMA ListsKeepHole ==
  ASSUME TypeOK, HoleInv, NEW s \in Subs,
         Unsubscribe(s) \/ \E j \in {"heads", "logs", "tx", "rejected"} : Subscribe(s, j)
  PROVE  HoleInv'
<1>1. /\ UNCHANGED << tasks, sends, delivered, broker, last_notified_block, to >>
      /\ UNCHANGED << closed, poisoned, listener, runtime, height >> /\ listener = "live"
      /\ \A r \in Subs : r # s => kind'[r] = kind[r] /\ joined'[r] = joined[r]
  BY Zenon DEF Unsubscribe, Subscribe, brokerVars, outVars, chainVars, TypeOK
<1>2. \A r \in Subs, n \in BlockNumbers : r # s =>
        (Reaches(r)' => Reaches(r)) /\ CoveredUpTo(r)' = CoveredUpTo(r)
  BY <1>1, Zenon DEF Reaches, CoveredUpTo
<1>3. \A r \in Subs, n \in BlockNumbers : r # s /\ Covered(r, n) => Covered(r, n)'
  BY <1>1, Zenon DEF Covered, TasksFor, InRange
<1>4. ASSUME NEW n \in BlockNumbers, Reaches(s)', joined'[s] < n, n <= CoveredUpTo(s)'
      PROVE  FALSE
  <2>1. kind'[s] # "removed"
    BY <1>4, Zenon DEF Reaches
  <2>2. joined'[s] = height
    BY <2>1, Zenon DEF Subscribe, Unsubscribe, TypeOK
  <2>3. /\ CoveredUpTo(s)' \in {to, last_notified_block} /\ height \in Nat /\ n \in Nat
        /\ to \in 0 .. height /\ last_notified_block \in 0 .. to
    BY <1>1, BoundsAssumption DEF CoveredUpTo, TypeOK, BlockNumbers
  <2>4. QED
    BY <1>4, <2>2, <2>3
<1>5. QED
  BY <1>1, <1>2, <1>3, <1>4, Zenon DEF HoleInv

(* No block is left out, whatever the step. *)
LEMMA StepKeepsHole ==
  ASSUME TypeOK, TypeOK', HoleInv, [Next]_vars
  PROVE  HoleInv'
<1>1. /\ last_notified_block \in Nat /\ to \in Nat /\ last_notified_block <= to
      /\ last_notified_block' \in Nat /\ to' \in Nat /\ last_notified_block' <= to'
  BY BoundsAssumption DEF TypeOK, BlockNumbers
<1>2. CASE Mine \/ Poison \/ DropListener \/ ShutdownNow \/ UNCHANGED vars
  <2>1. /\ UNCHANGED << tasks, sends, delivered, kind, joined, closed >>
        /\ UNCHANGED << broker, last_notified_block, to >>
        /\ poisoned => poisoned'
        /\ runtime' = "up" => runtime = "up"
        /\ listener' = "live" => listener = "live"
        /\ listener' = "absent" => listener = "absent"
    BY <1>2 DEF Mine, Poison, DropListener, ShutdownNow, brokerVars, subVars, chainVars,
                outVars, vars
  <2>2. \A s \in Subs : (Reaches(s)' => Reaches(s)) /\ CoveredUpTo(s)' <= CoveredUpTo(s)
    BY <1>1, <2>1 DEF Reaches, CoveredUpTo
  <2>3. QED
    BY <2>1, <2>2, QuietKeepsHole, Zenon
<1>3. CASE AddListener
  <2>1. UNCHANGED << tasks, sends, delivered, kind, joined >> /\ listener' = "live"
        /\ listener = "absent"
    BY <1>3, Zenon DEF AddListener, outVars
  <2>2. \A s \in Subs : ~ Reaches(s)'
    BY <2>1, Zenon DEF HoleInv, Reaches
  <2>3. QED
    BY <2>1, <2>2, QuietKeepsHole, Zenon
<1>4. CASE Tick \/ TimerError \/ Load \/ DropBroker \/ Store
  <2>1. /\ UNCHANGED << tasks, sends, delivered, kind, joined, closed >>
        /\ UNCHANGED << poisoned, listener, runtime >>
    BY <1>4, Zenon DEF Tick, TimerError, Load, DropBroker, Store, subVars, outVars, chainVars
  <2>2. ASSUME NEW s \in Subs, Reaches(s)'
        PROVE  Reaches(s) /\ CoveredUpTo(s)' <= CoveredUpTo(s)
    <3>1. Reaches(s) /\ listener = "live" /\ runtime = "up"
      BY <2>1, <2>2, Zenon DEF Reaches
    <3>2. CASE Tick \/ TimerError \/ Load \/ DropBroker
      BY <1>1, <2>1, <3>1, <3>2 DEF CoveredUpTo, Tick, TimerError, Load, DropBroker
    <3>3. CASE Store
      BY <1>1, <2>1, <3>1, <3>3, Zenon DEF CoveredUpTo, Store
    <3>4. QED
      BY <1>4, <3>1, <3>2, <3>3, Zenon
  <2>3. QED
    BY <2>1, <2>2, QuietKeepsHole, Zenon
<1>5. ASSUME NEW s \in Subs, Close(s)
      PROVE  HoleInv'
  <2>1. /\ UNCHANGED << tasks, sends, delivered, kind, joined, listener, poisoned, runtime >>
        /\ UNCHANGED << broker, last_notified_block, to >> /\ closed \subseteq closed'
    BY <1>5, Zenon DEF Close, brokerVars, outVars, chainVars
  <2>2. \A r \in Subs : (Reaches(r)' => Reaches(r)) /\ CoveredUpTo(r)' <= CoveredUpTo(r)
    BY <1>1, <2>1 DEF Reaches, CoveredUpTo
  <2>3. QED
    BY <2>1, <2>2, QuietKeepsHole, Zenon
<1>6. ASSUME NEW s \in Subs,
             Unsubscribe(s) \/ \E j \in {"heads", "logs", "tx", "rejected"} : Subscribe(s, j)
      PROVE  HoleInv'
  BY <1>6, ListsKeepHole, Zenon
<1>7. CASE NotifyHeads
  BY <1>7, NotifyHeadsKeepsHole, Zenon
<1>8. CASE NotifyLogs
  BY <1>8, NotifyLogsKeepsHole, Zenon
<1>9. ASSUME NEW k \in tasks, Run(k)
      PROVE  HoleInv'
  BY <1>9, RunKeepsHole, Zenon
<1>10. ASSUME NEW s \in Subs, NEW n \in BlockNumbers, Deliver(s, n)
       PROVE  HoleInv'
  BY <1>10, DeliverKeepsHole, Zenon
<1>11. CASE DropTasks
  <2>1. runtime' = "stopping" /\ UNCHANGED << listener, kind >>
    BY <1>11, Zenon DEF DropTasks, chainVars, subVars
  <2>2. \A s \in Subs : ~ Reaches(s)'
    BY <2>1, Zenon DEF Reaches
  <2>3. QED
    BY <2>1, <2>2, Zenon DEF HoleInv
<1>12. QED
  BY <1>2, <1>3, <1>4, <1>5, <1>6, <1>7, <1>8, <1>9, <1>10, <1>11, Zenon
     DEF Next, Broker, RunSome, DeliverSome

-----------------------------------------------------------------------------
(* Nothing is subscribed or notified at first. *)
LEMMA InitPInv ==
  ASSUME Init
  PROVE  PInv
<1>1. TypeOK /\ Ahead
  <2>1. delivered \in [Subs -> SUBSET (1 .. height)] /\ joined \in [Subs -> 0 .. height]
    BY DEF Init
  <2>2. height \in BlockNumbers /\ last_notified_block \in 0 .. to /\ to \in 0 .. height
    BY BoundsAssumption DEF Init, BlockNumbers
  <2>3. QED
    BY <2>1, <2>2, Zenon DEF Init, TypeOK, Ahead
<1>2. \A s \in Subs : TasksFor(s) = {} /\ delivered[s] = {} /\ kind[s] = "none"
  BY Zenon DEF Init, TasksFor
<1>3. OnceInv
  BY <1>2, Zenon DEF Init, OnceInv
<1>4. HoleInv
  BY <1>2, Zenon DEF Init, HoleInv, Reaches
<1>5. QED
  BY <1>1, <1>3, <1>4, Zenon DEF PInv

(* What the invariants say in terms of blocks is what the properties say in *)
(* terms of sets of blocks.                                                 *)
LEMMA PInvImplies ==
  ASSUME PInv
  PROVE  TypeOK /\ AtMostOnce /\ NoHole
<1>1. TypeOK /\ OnceInv /\ HoleInv
  BY Zenon DEF PInv
<1>2. /\ last_notified_block \in Nat /\ to \in Nat /\ last_notified_block <= to
      /\ \A n \in BlockNumbers : n \in Nat
      /\ \A k \in tasks : k.from \in 1 .. MaxBlock /\ k.to \in BlockNumbers
  BY <1>1, BoundsAssumption DEF TypeOK, BlockNumbers, Ranges
<1>3. ASSUME NEW k \in tasks, NEW n \in k.from .. k.to
      PROVE  n \in BlockNumbers /\ InRange(n, k)
  <2>1. k.from \in Nat /\ k.to \in Nat /\ 1 <= k.from /\ k.to <= MaxBlock
    BY <1>2, BoundsAssumption DEF BlockNumbers
  <2>2. QED
    BY <2>1, BoundsAssumption DEF InRange, BlockNumbers
<1>4. ASSUME NEW s \in Subs
      PROVE  /\ Queued(s) \cap delivered[s] = {}
             /\ Planned(s) \cap (Queued(s) \cup delivered[s]) = {}
             /\ \A k, l \in TasksFor(s) : k # l => (k.from .. k.to) \cap (l.from .. l.to) = {}
  <2>1. Queued(s) \cap delivered[s] = {}
    BY <1>1, Zenon DEF Queued, OnceInv
  <2>2. ASSUME NEW n \in Planned(s)
        PROVE  n \notin Queued(s) \cup delivered[s]
    <3>1. PICK k \in TasksFor(s) : n \in k.from .. k.to
      BY Zenon DEF Planned
    <3>2. k \in tasks
      BY Zenon DEF TasksFor
    <3>3. n \in BlockNumbers /\ InRange(n, k)
      BY <1>3, <3>1, <3>2, Zenon
    <3>4. QED
      BY <1>1, <3>3, Zenon DEF OnceInv, Queued
  <2>3. ASSUME NEW k \in TasksFor(s), NEW l \in TasksFor(s), k # l
        PROVE  (k.from .. k.to) \cap (l.from .. l.to) = {}
    <3>1. k \in tasks /\ l \in tasks /\ k.sub = l.sub
      BY <1>1, TaskOf, Zenon
    <3>2. Disjoint(k, l)
      BY <1>1, <2>3, <3>1, Zenon DEF OnceInv
    <3>3. QED
      BY <1>2, <3>1, <3>2 DEF Disjoint, BlockNumbers
  <2>4. QED
    BY <2>1, <2>2, <2>3, Zenon
<1>5. ASSUME NEW s \in On("heads") \cup On("logs"), ~ poisoned, s \notin closed,
             listener = "live", runtime = "up",
             NEW n \in BlockNumbers, joined[s] < n, n <= last_notified_block
      PROVE  n \in delivered[s] \cup Queued(s) \cup Planned(s)
  <2>1. s \in Subs /\ Reaches(s)
    BY <1>5, Zenon DEF On, Reaches
  <2>2. n <= CoveredUpTo(s)
    BY <1>2, <1>5 DEF CoveredUpTo
  <2>3. Covered(s, n)
    BY <1>1, <1>5, <2>1, <2>2, Zenon DEF HoleInv
  <2>4. ASSUME NEW k \in TasksFor(s), InRange(n, k)
        PROVE  n \in Planned(s)
    <3>1. k \in tasks
      BY Zenon DEF TasksFor
    <3>2. n \in k.from .. k.to
      BY <1>2, <2>4, <3>1 DEF InRange, BlockNumbers
    <3>3. QED
      BY <3>2, Zenon DEF Planned
  <2>5. QED
    BY <2>3, <2>4, Zenon DEF Covered, Queued
<1>6. QED
  BY <1>1, <1>4, <1>5, Zenon DEF AtMostOnce, NoHole

(* The invariant of the subscriptions holds in every reachable state, for   *)
(* any number of subscribers and blocks (pubsub.rs:62-80).                  *)
THEOREM BrokerInductive == Spec => []PInv
<1>1. Init => PInv
  BY InitPInv, Zenon
<1>2. PInv /\ [Next]_vars => PInv'
  BY StepKeepsTypes, StepKeepsOnce, StepKeepsHole, Zenon DEF PInv
<1>3. QED
  BY <1>1, <1>2, PTL DEF Spec

(* A subscriber is never told of a block twice, although every run of the   *)
(* Broker notifies the listeners from tasks of their own (pubsub.rs:62-80). *)
THEOREM NotifiedOnce == Spec => []AtMostOnce
<1>1. PInv => AtMostOnce
  BY PInvImplies, Zenon
<1>2. QED
  BY <1>1, BrokerInductive, PTL

(* The Broker's cursor passes no block that is not delivered to a           *)
(* subscriber, or on its way to it (pubsub.rs:62-80).                       *)
THEOREM NoneLeftOut == Spec => []NoHole
<1>1. PInv => NoHole
  BY PInvImplies, Zenon
<1>2. QED
  BY <1>1, BrokerInductive, PTL

-----------------------------------------------------------------------------
(* Every step of the gateway is one of the subscriptions or leaves them as  *)
(* they are, so that what was proved of PubSub holds in the running node.   *)
THEOREM GatewayPublishes == GatewaySpec => Spec
<1>1. GatewayInit => Init
  BY Zenon DEF GatewayInit
<1>2. [GatewayNext]_gateVars => [Next]_vars
  <2>1. CASE Alive /\ Main
    BY <2>1, Zenon
    DEF Alive, Main, Launch, LaunchFails, NewWs, BadWsAddress, StartWs, WsFails, NewHttp,
        HttpFails, DropRuntime, ErrReturns, AbandonReturns, DropAll, ExtendApi, DropOwned, Next
  <2>2. CASE Alive /\ (Signal \/ Abandon \/ WaitForDrop \/ Execute \/ EndRequest)
    BY <2>2, Zenon DEF Alive, Signal, Abandon, WaitForDrop, Execute, EndRequest, Next
  <2>3. ASSUME NEW server \in {"ws", "http"}, BeginRequest(server)
        PROVE  UNCHANGED vars
    BY <2>3, Zenon DEF BeginRequest
  <2>4. ASSUME Alive, NEW s \in Subs, Client(s)
        PROVE  Next
    BY <2>4, Zenon DEF Alive, Client, Next
  <2>5. CASE Alive /\ (\/ Runs(Broker) \/ Runs(TimerError) \/ Runs(RunSome) \/ Runs(DeliverSome)
                       \/ Runs(DropBroker) \/ Reap)
    BY <2>5, Zenon DEF Alive, Runs, Reap, Next
  <2>6. CASE UNCHANGED gateVars
    BY <2>6, Zenon DEF gateVars
  <2>7. QED
    BY <2>1, <2>2, <2>3, <2>4, <2>5, <2>6, Zenon DEF GatewayNext
<1>3. QED
  BY <1>1, <1>2, PTL DEF GatewaySpec, Spec

(* In the running node, too, subscribers are notified once and of all. *)
COROLLARY GatewayNotifies == GatewaySpec => []AtMostOnce /\ []NoHole
BY GatewayPublishes, NotifiedOnce, NoneLeftOut, PTL

(* Where the references are while the node starts. *)
Starting ==
  /\ main \in {"start", "new_ws", "start_ws"} => request = "none"
  /\ main \in {"new_ws", "start_ws", "new_http"} => "gateway" \in refs
  /\ main \in {"start", "new_ws"} => "ws" \notin refs /\ "http" \notin refs
  /\ main = "start_ws" => "http" \notin refs
  /\ main = "err" => "ws" \notin refs

GInv == GatewayTypeOK /\ Starting

(* The steps of main and of the runtime keep the account of references. *)
LEMMA StepKeepsGInv ==
  ASSUME GInv, [GatewayNext]_gateVars
  PROVE  GInv'
<1> USE TimeoutAssumption DEF GInv, GatewayTypeOK, Starting
<1>1. CASE Launch \/ LaunchFails \/ BadWsAddress \/ StartWs \/ ErrReturns
  BY <1>1, Zenon DEF Launch, LaunchFails, BadWsAddress, StartWs, ErrReturns, Goto, vars
<1>2. CASE NewWs
  <2>1. "Eth" \in ListApis \ {"Web3", "Net"} /\ "EthPubSub" \in ListApis
    BY Zenon DEF ListApis
  <2>2. refs' = refs \cup {"ws"}
    BY <1>2, <2>1, Zenon DEF NewWs, ExtendApi
  <2>3. /\ main = "new_ws" /\ main' = "start_ws" /\ listener' = "live"
        /\ UNCHANGED << request, elapsed >>
    BY <1>2, <2>1, Zenon DEF NewWs, ExtendApi, Goto, AddListener
  <2>4. QED
    BY <2>2, <2>3, Zenon
<1>3. CASE NewHttp
  BY <1>3, Zenon DEF NewHttp, ExtendApi, ListApis, Goto, vars
<1>4. CASE WsFails
  BY <1>4, Zenon DEF WsFails, Goto, DropListener
<1>5. CASE HttpFails \/ DropAll \/ AbandonReturns
  <2>1. /\ main' \in {"err", "wait", "failed"} /\ UNCHANGED << request, elapsed >>
        /\ refs' \subseteq refs /\ "ws" \notin refs'
    BY <1>5, Zenon DEF HttpFails, DropAll, AbandonReturns, DropOwned, Goto
  <2>2. listener' = "live" <=> request = "ws"
    BY <1>5, Zenon DEF HttpFails, DropAll, AbandonReturns, DropOwned, DropListener, vars
  <2>3. QED
    BY <2>1, <2>2, Zenon
<1>6. CASE DropRuntime \/ Signal \/ Abandon
  BY <1>6, Zenon DEF DropRuntime, Signal, Abandon, Goto, ShutdownNow, subVars
<1>7. CASE WaitForDrop
  BY <1>7 DEF WaitForDrop, vars
<1>8. ASSUME NEW server \in {"ws", "http"}, BeginRequest(server)
      PROVE  GInv'
  BY <1>8, Zenon DEF BeginRequest, Started, mainVars, vars
<1>9. CASE Execute
  BY <1>9, Zenon DEF Execute, Mine, Poison, mainVars, subVars
<1>10. CASE EndRequest
  BY <1>10, Zenon DEF EndRequest, DropListener, mainVars, vars
<1>11. ASSUME NEW s \in Subs, Client(s)
       PROVE  GInv'
  BY <1>11, Zenon DEF Client, Subscribe, Unsubscribe, Close, mainVars
<1>12. CASE Runs(Broker)
  BY <1>12, Zenon DEF Runs, Broker, Tick, Load, NotifyHeads, NotifyLogs, Store, mainVars, subVars
<1>13. CASE Runs(TimerError) \/ Runs(RunSome) \/ Runs(DeliverSome) \/ Runs(DropBroker)
  BY <1>13, Zenon DEF Runs, TimerError, RunSome, Run, DeliverSome, Deliver, DropBroker, mainVars,
                      subVars
<1>14. CASE Reap
  BY <1>14, Zenon DEF Reap, DropTasks, subVars, vars
<1>15. CASE UNCHANGED gateVars
  BY <1>15, Zenon DEF gateVars, vars
<1>16. QED
  BY <1>1, <1>2, <1>3, <1>4, <1>5, <1>6, <1>7, <1>8, <1>9, <1>10, <1>11, <1>12, <1>13, <1>14,
     <1>15, Zenon DEF GatewayNext, Main

(* The account of references holds while the node starts, runs and stops    *)
(* (start and RunningGateway, run.rs:20-175).                               *)
THEOREM GatewayInductive == GatewaySpec => []GInv
<1>1. GatewayInit => GInv
  BY TimeoutAssumption DEF GatewayInit, Init, GInv, GatewayTypeOK, Starting
<1>2. GInv /\ [GatewayNext]_gateVars => GInv'
  BY StepKeepsGInv, Zenon
<1>3. QED
  BY <1>1, <1>2, PTL DEF GatewaySpec

(* Types of the node: who holds what, and how far main has got              *)
(* (start and RunningGateway, run.rs:20-175).                               *)
THEOREM GatewayTyped == GatewaySpec => []GatewayTypeOK
<1>1. GInv => GatewayTypeOK
  BY Zenon DEF GInv
<1>2. QED
  BY <1>1, GatewayInductive, PTL
=============================================================================

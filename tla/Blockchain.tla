----------------------------- MODULE Blockchain -----------------------------
(***************************************************************************)
(* The Blockchain object of src/src/blockchain.rs: a ChainState behind a   *)
(* std::sync::RwLock, served by concurrent tasks.                          *)
(*                                                                         *)
(* A task takes the lock in one step and uses it in later ones, so that    *)
(* every interleaving the lock allows is a behaviour.  mine_block is one   *)
(* step per statement that changes shared state; the state database (mkvs) *)
(* is shared behind an Arc, and a handle returned by state() reads it      *)
(* without the lock.  A panic while the write lock is held poisons it: all *)
(* later read().unwrap() and write().unwrap() panic.                       *)
(***************************************************************************)
EXTENDS ChainData

LOCAL INSTANCE Folds

VARIABLES
  req, res, since,          \* request, reply and height at the call, per thread
  pc,                       \* where each thread is
  writers, readers,         \* threads that hold the lock
  poisoned,                 \* the lock is poisoned
  mkvs, block_number,       \* ChainState
  blocks, block_number_to_hash,
  transactions, receipts,
  block,                    \* local of mine_block: the block it builds
  todo,                     \* keys of mkvs still to write (or to read)
  seen,                     \* key/value pairs read so far
  from, upto, got           \* locals of logs and get_txn

lockVars  == << writers, readers, poisoned >>
mapVars   == << blocks, block_number_to_hash, transactions, receipts >>
chainVars == << mkvs, block_number, mapVars >>
rangeVars == << from, upto, got >>
localVars == << block, todo, seen, rangeVars >>
reqVars   == << req, since >>
vars      == << reqVars, res, pc, lockVars, chainVars, localVars >>

-----------------------------------------------------------------------------
(* ChainState::get_block_by_number *)
GetBlockByNumber(n) ==
  IF n \in DOMAIN block_number_to_hash
  THEN Get(blocks, block_number_to_hash[n]) ELSE None

(* get_block.  The result for Latest is the best block, which expect()      *)
(* demands: callers treat None for Latest as a panic.                       *)
GetBlock(id) ==
  CASE id.tag = "latest" -> GetBlockByNumber(block_number)
    [] id.tag = "number" -> GetBlockByNumber(id.number)
    [] id.tag = "hash"   -> Get(blocks, id.hash)

ExpectFails(id) == id.tag = "latest" /\ GetBlock(id) = None

(* blk.transactions.get(index), the transaction with its location           *)
TxnIn(blk, index) ==
  IF blk # None /\ index + 1 \in DOMAIN blk[1].transactions
  THEN Some(LocalizedTxn(blk[1].number, blk[1].hash, blk[1].transactions[index + 1]))
  ELSE None

(* The trailing stable sort of logs() by block number.                      *)
SortByBlock(s) ==
  LET OfBlock(n)  == SelectSeq(s, LAMBDA e : e.block_number = n)
      Smallest(S) == CHOOSE n \in S : \A k \in S : n <= k
  IN  MapThenFoldSet(\o, << >>, OfBlock, Smallest, BlockNumbers)

(* filter.matches, then the sort *)
LogsReply(s, matches) ==
  SortByBlock(SelectSeq(s, LAMBDA e : e.transaction_hash \in matches))

-----------------------------------------------------------------------------
(* The last block reachable by number. *)
Height ==
  CHOOSE n \in DOMAIN block_number_to_hash : \A m \in DOMAIN block_number_to_hash : m <= n

Init ==
  /\ req = [t \in Threads |-> NoRequest]
  /\ res = [t \in Threads |-> NoReply]
  /\ since = [t \in Threads |-> 0]
  /\ pc = [t \in Threads |-> "idle"]
  /\ writers = {} /\ readers = {} /\ poisoned = FALSE
  /\ mkvs = [a \in Accounts |-> [nonce |-> 0, written |-> 0]]
  /\ block_number = 0
  /\ blocks = [h \in {Keccak[0]} |-> Genesis]
  /\ block_number_to_hash = [n \in {0} |-> Keccak[0]]
  /\ transactions = << >> /\ receipts = << >>
  /\ block = [t \in Threads |-> Genesis]
  /\ todo = [t \in Threads |-> {}] /\ seen = [t \in Threads |-> {}]
  /\ from = [t \in Threads |-> None] /\ upto = [t \in Threads |-> None]
  /\ got = [t \in Threads |-> << >>]

Goto(t, label) == pc' = [pc EXCEPT ![t] = label]

(* The task has its reply, or has died. *)
Finish(t, x) ==
  /\ Goto(t, "done")
  /\ res' = [res EXCEPT ![t] = x]

(* Dropping the guard of the read lock; a panic does the same, and does not *)
(* poison the lock.                                                         *)
ReleaseRead(t) ==
  /\ readers' = readers \ {t}
  /\ UNCHANGED << writers, poisoned >>

ReleaseWrite(t) ==
  /\ writers' = writers \ {t}
  /\ UNCHANGED << readers, poisoned >>

(* Mutant: a lock without poisoning. *)
BugPoisonWrite(t) ==
  /\ writers' = writers \ {t}
  /\ UNCHANGED << readers, poisoned >>
  /\ Finish(t, Panicked)

(* Unwinding through the guard of the write lock. *)
PoisonWrite(t) ==
  /\ writers' = writers \ {t}
  /\ poisoned' = TRUE
  /\ UNCHANGED readers
  /\ Finish(t, Panicked)

(* A client's request arrives. *)
Call(t, r) ==
  /\ pc[t] = "idle"
  /\ req' = [req EXCEPT ![t] = r]
  /\ since' = [since EXCEPT ![t] = Height]
  /\ Goto(t, IF r.op = "send" THEN "check" ELSE "read")
  /\ UNCHANGED << res, lockVars, chainVars, localVars >>

(* The reply leaves, and the task's locals with it. *)
Return(t) ==
  /\ pc[t] = "done"
  /\ Goto(t, "idle")
  /\ req' = [req EXCEPT ![t] = NoRequest]
  /\ res' = [res EXCEPT ![t] = NoReply]
  /\ since' = [since EXCEPT ![t] = 0]
  /\ block' = [block EXCEPT ![t] = Genesis]
  /\ todo' = [todo EXCEPT ![t] = {}]
  /\ seen' = [seen EXCEPT ![t] = {}]
  /\ from' = [from EXCEPT ![t] = None]
  /\ upto' = [upto EXCEPT ![t] = None]
  /\ got' = [got EXCEPT ![t] = << >>]
  /\ UNCHANGED << lockVars, chainVars >>

-----------------------------------------------------------------------------
(***************************************************************************)
(* send_raw_transaction and mine_block                                     *)
(***************************************************************************)
CheckTxn(t) ==
  /\ pc[t] = "check"
  /\ LET why == Refusal(req[t].txn) IN
       IF why = None THEN Goto(t, "write") /\ UNCHANGED res
                     ELSE Finish(t, Err(why[1]))
  /\ UNCHANGED << reqVars, lockVars, chainVars, localVars >>

(* Mutant: mine_block does not wait for the readers. *)
BugAcquireWrite(t) ==
  /\ pc[t] = "write"
  /\ writers = {}
  /\ IF poisoned
     THEN Finish(t, Panicked) /\ UNCHANGED writers
     ELSE /\ writers' = writers \cup {t}
          /\ Goto(t, "execute")
          /\ UNCHANGED res
  /\ UNCHANGED << reqVars, readers, poisoned, chainVars, localVars >>

(* chain_state.write().unwrap() *)
AcquireWrite(t) ==
  /\ pc[t] = "write"
  /\ writers = {} /\ readers = {}
  /\ IF poisoned
     THEN Finish(t, Panicked) /\ UNCHANGED writers
     ELSE /\ writers' = writers \cup {t}
          /\ Goto(t, "execute")
          /\ UNCHANGED res
  /\ UNCHANGED << reqVars, readers, poisoned, chainVars, localVars >>

(* Mutant: the nonce is not checked. *)
BugExecute(t) ==
  /\ pc[t] = "execute"
  /\ LET best == GetBlockByNumber(block_number) IN
       /\ best # None /\ block_number < MaxBlock
       /\ block' = [block EXCEPT ![t] =
                      NewBlock(block_number + 1, best[1].hash, req[t].txn, 0)]
  /\ todo' = [todo EXCEPT ![t] = Touched(req[t].txn)]
  /\ Goto(t, "commit")
  /\ UNCHANGED << reqVars, res, lockVars, chainVars, seen, rangeVars >>

(* state.apply returns an outcome: the nonce was the sender's next one.     *)
(* The state object buffers its writes until commit.                        *)
Execute(t) ==
  /\ pc[t] = "execute"
  /\ LET txn  == req[t].txn
         best == GetBlockByNumber(block_number)
     IN IF best = None
        THEN PoisonWrite(t) /\ UNCHANGED << block, todo >>
        ELSE /\ block_number < MaxBlock
             /\ txn.nonce = mkvs[txn.sender].nonce
             /\ \E n \in 0 .. MaxLogs :
                  block' = [block EXCEPT ![t] =
                              NewBlock(block_number + 1, best[1].hash, txn, n)]
             /\ todo' = [todo EXCEPT ![t] = Touched(txn)]
             /\ Goto(t, "commit")
             /\ UNCHANGED << res, lockVars >>
  /\ UNCHANGED << reqVars, chainVars, seen, rangeVars >>

(* Mutant: a transaction that fails is tried again for ever. *)
BugExecuteErr(t) ==
  /\ pc[t] = "execute"
  /\ ReleaseWrite(t) /\ Goto(t, "write")
  /\ UNCHANGED << reqVars, res, chainVars, localVars >>

(* state.apply returns an error (wrong nonce, balance, gas): early return.  *)
ExecuteErr(t) ==
  /\ pc[t] = "execute"
  /\ IF GetBlockByNumber(block_number) = None
     THEN PoisonWrite(t)
     ELSE ReleaseWrite(t) /\ Finish(t, Err("not executed"))
  /\ UNCHANGED << reqVars, chainVars, localVars >>

(* The EVM, the confidential context or the commit panics. *)
MinePanic(t) ==
  /\ pc[t] \in {"execute", "commit"}
  /\ PoisonWrite(t)
  /\ UNCHANGED << reqVars, chainVars, localVars >>

(* Mutant: the commit stops after the first account. *)
BugCommitKey(t) ==
  /\ pc[t] = "commit"
  /\ \E a \in todo[t] :
       mkvs' = [mkvs EXCEPT ![a] =
                 [nonce   |-> IF a = req[t].txn.sender THEN @.nonce + 1 ELSE @.nonce,
                  written |-> block[t].number]]
  /\ todo' = [todo EXCEPT ![t] = {}]
  /\ Goto(t, "number")
  /\ UNCHANGED << reqVars, res, lockVars, block_number, mapVars, block, seen, rangeVars >>

(* state.commit() inserts the changed accounts in the shared database, one  *)
(* key at a time, in no particular order.                                   *)
CommitKey(t) ==
  /\ pc[t] = "commit"
  /\ \E a \in todo[t] :
       /\ mkvs' = [mkvs EXCEPT ![a] =
                     [nonce   |-> IF a = req[t].txn.sender THEN @.nonce + 1 ELSE @.nonce,
                      written |-> block[t].number]]
       /\ todo' = [todo EXCEPT ![t] = @ \ {a}]
       /\ Goto(t, IF todo[t] = {a} THEN "number" ELSE "commit")
  /\ UNCHANGED << reqVars, res, lockVars, block_number, mapVars, block, seen, rangeVars >>

SetBlockNumber(t) ==
  /\ pc[t] = "number"
  /\ block_number' = block[t].number
  /\ Goto(t, "txn")
  /\ UNCHANGED << reqVars, res, lockVars, mkvs, mapVars, localVars >>

(* Mutant: the transaction is located before its block has a hash. *)
BugStoreTxn(t) ==
  /\ pc[t] = "txn"
  /\ transactions' = Insert(transactions, req[t].txn,
                            LocalizedTxn(block[t].number, ZeroHash, req[t].txn))
  /\ Goto(t, "receipt")
  /\ UNCHANGED << reqVars, res, lockVars, mkvs, block_number, blocks,
                  block_number_to_hash, receipts, localVars >>

StoreTxn(t) ==
  /\ pc[t] = "txn"
  /\ transactions' = Insert(transactions, req[t].txn,
                            LocalizedTxn(block[t].number, block[t].hash, req[t].txn))
  /\ Goto(t, "receipt")
  /\ UNCHANGED << reqVars, res, lockVars, mkvs, block_number, blocks,
                  block_number_to_hash, receipts, localVars >>

(* Mutant: the receipt is not stored. *)
BugStoreReceipt(t) ==
  /\ pc[t] = "receipt"
  /\ Goto(t, "block")
  /\ UNCHANGED << reqVars, res, lockVars, chainVars, localVars >>

StoreReceipt(t) ==
  /\ pc[t] = "receipt"
  /\ receipts' = Insert(receipts, req[t].txn,
                        LocalizedReceipt(block[t].number, block[t].hash, req[t].txn,
                                         block[t].logs))
  /\ Goto(t, "block")
  /\ UNCHANGED << reqVars, res, lockVars, mkvs, block_number, blocks,
                  block_number_to_hash, transactions, localVars >>

(* Mutant: the block is stored before its transactions are filled in. *)
BugStoreBlock(t) ==
  /\ pc[t] = "block"
  /\ blocks' = Insert(blocks, block[t].hash, [block[t] EXCEPT !.transactions = << >>])
  /\ Goto(t, "index")
  /\ UNCHANGED << reqVars, res, lockVars, mkvs, block_number, transactions,
                  block_number_to_hash, receipts, localVars >>

StoreBlock(t) ==
  /\ pc[t] = "block"
  /\ blocks' = Insert(blocks, block[t].hash, block[t])
  /\ Goto(t, "index")
  /\ UNCHANGED << reqVars, res, lockVars, mkvs, block_number, transactions,
                  block_number_to_hash, receipts, localVars >>

(* The last insert; then the result is returned and the guard dropped.      *)
StoreIndex(t) ==
  /\ pc[t] = "index"
  /\ block_number_to_hash' = Insert(block_number_to_hash, block[t].number, block[t].hash)
  /\ Finish(t, Ok(req[t].txn))
  /\ ReleaseWrite(t)
  /\ UNCHANGED << reqVars, mkvs, block_number, blocks, transactions, receipts, localVars >>

MineBlock(t) ==
  \/ AcquireWrite(t) \/ Execute(t) \/ ExecuteErr(t) \/ MinePanic(t) \/ CommitKey(t)
  \/ SetBlockNumber(t) \/ StoreTxn(t) \/ StoreReceipt(t) \/ StoreBlock(t) \/ StoreIndex(t)

-----------------------------------------------------------------------------
(***************************************************************************)
(* Queries.  Each acquisition of the read lock is followed by one use.     *)
(***************************************************************************)
Waiting == {"read", "read2", "fetch"}

Holding(label) ==
  CASE label = "read"  -> "reading"
    [] label = "read2" -> "reading2"
    [] label = "fetch" -> "fetching"

(* Mutant: readers do not wait for the writer. *)
BugAcquireRead(t) ==
  /\ pc[t] \in Waiting
  /\ IF poisoned
     THEN Finish(t, Panicked) /\ UNCHANGED readers
     ELSE /\ readers' = readers \cup {t}
          /\ Goto(t, Holding(pc[t]))
          /\ UNCHANGED res
  /\ UNCHANGED << reqVars, writers, poisoned, chainVars, localVars >>

(* Mutant: readers make room for every waiting writer. *)
BugYieldingRead(t) ==
  /\ pc[t] \in Waiting
  /\ writers = {} /\ \A u \in Threads : pc[u] # "write"
  /\ IF poisoned
     THEN Finish(t, Panicked) /\ UNCHANGED readers
     ELSE /\ readers' = readers \cup {t}
          /\ Goto(t, Holding(pc[t]))
          /\ UNCHANGED res
  /\ UNCHANGED << reqVars, writers, poisoned, chainVars, localVars >>

(* chain_state.read().unwrap() *)
AcquireRead(t) ==
  /\ pc[t] \in Waiting
  /\ writers = {}
  /\ IF poisoned
     THEN Finish(t, Panicked) /\ UNCHANGED readers
     ELSE /\ readers' = readers \cup {t}
          /\ Goto(t, Holding(pc[t]))
          /\ UNCHANGED res
  /\ UNCHANGED << reqVars, writers, poisoned, chainVars, localVars >>

(* get_block, get_txn_by_hash, get_txn_receipt_by_hash, and get_txn for a   *)
(* number or a hash: one look at the maps.                                  *)
Lookup(t) ==
  /\ pc[t] = "reading"
  /\ LET r == req[t] IN
       \/ /\ r.op = "block"
          /\ Finish(t, IF ExpectFails(r.id) THEN Panicked ELSE Ok(GetBlock(r.id)))
       \/ /\ r.op = "txn"
          /\ Finish(t, Ok(Get(transactions, r.txn)))
       \/ /\ r.op = "receipt"
          /\ Finish(t, Ok(Get(receipts, r.txn)))
       \/ /\ r.op = "txnAt" /\ r.id # Latest
          /\ Finish(t, Ok(TxnIn(GetBlock(r.id), r.index)))
  /\ ReleaseRead(t)
  /\ UNCHANGED << reqVars, chainVars, localVars >>

(* get_txn(Latest): best_block_number() under one acquisition ...           *)
ReadBestNumber(t) ==
  /\ pc[t] = "reading" /\ req[t].op = "txnAt" /\ req[t].id = Latest
  /\ from' = [from EXCEPT ![t] = Some(block_number)]
  /\ Goto(t, "read2")
  /\ ReleaseRead(t)
  /\ UNCHANGED << reqVars, res, chainVars, block, todo, seen, upto, got >>

(* ... and get_txn_by_number_and_index under the next.                      *)
ReadTxnOfBest(t) ==
  /\ pc[t] = "reading2" /\ req[t].op = "txnAt"
  /\ Finish(t, Ok(TxnIn(GetBlockByNumber(from[t][1]), req[t].index)))
  /\ ReleaseRead(t)
  /\ UNCHANGED << reqVars, chainVars, localVars >>

NumberOf(blk) == IF blk = None THEN None ELSE Some(blk[1].number)

(* logs: the two get_block_unwrap calls run when logs() is called, each     *)
(* under its own acquisition; join_all reports a missing block afterwards.  *)
ResolveFrom(t) ==
  /\ pc[t] = "reading" /\ req[t].op = "logs"
  /\ from' = [from EXCEPT ![t] = NumberOf(GetBlock(req[t].from))]
  /\ IF ExpectFails(req[t].from) THEN Finish(t, Panicked)
                                 ELSE Goto(t, "read2") /\ UNCHANGED res
  /\ ReleaseRead(t)
  /\ UNCHANGED << reqVars, chainVars, block, todo, seen, upto, got >>

ResolveTo(t) ==
  /\ pc[t] = "reading2" /\ req[t].op = "logs"
  /\ LET to == NumberOf(GetBlock(req[t].to)) IN
       /\ upto' = [upto EXCEPT ![t] = to]
       /\ IF ExpectFails(req[t].to) THEN Finish(t, Panicked)
          ELSE IF from[t] = None \/ to = None THEN Finish(t, Err("block not found"))
          ELSE IF from[t][1] > to[1] THEN Finish(t, Ok(<< >>))
          ELSE Goto(t, "fetch") /\ UNCHANGED res
  /\ ReleaseRead(t)
  /\ UNCHANGED << reqVars, chainVars, block, todo, seen, from, got >>

(* Mutant: the loop over the range does not advance. *)
BugFetchBlock(t) ==
  /\ pc[t] = "fetching"
  /\ IF from[t] = upto[t]
     THEN Finish(t, Ok(LogsReply(got[t], req[t].matches)))
     ELSE Goto(t, "fetch") /\ UNCHANGED res
  /\ ReleaseRead(t)
  /\ UNCHANGED << reqVars, chainVars, localVars >>

(* logs: the blocks of the range, one acquisition each; filter and sort     *)
(* once the last one is there.                                              *)
FetchBlock(t) ==
  /\ pc[t] = "fetching"
  /\ LET blk == GetBlockByNumber(from[t][1]) IN
       IF blk = None
       THEN Finish(t, Panicked) /\ UNCHANGED << from, got >>
       ELSE /\ got' = [got EXCEPT ![t] = @ \o blk[1].logs]
            /\ from' = [from EXCEPT ![t] = Some(@[1] + 1)]
            /\ IF from[t] = upto[t]
               THEN Finish(t, Ok(LogsReply(got'[t], req[t].matches)))
               ELSE Goto(t, "fetch") /\ UNCHANGED res
  /\ ReleaseRead(t)
  /\ UNCHANGED << reqVars, chainVars, block, todo, seen, upto >>

-----------------------------------------------------------------------------
(***************************************************************************)
(* simulate_transaction (eth_call, eth_estimateGas): the read lock is held *)
(* until the execution is over.  The keys it reads are the request's; the  *)
(* block it names is ignored (_id).                                        *)
(***************************************************************************)
BeginSimulation(t) ==
  /\ pc[t] = "reading" /\ req[t].op = "simulate"
  /\ IF GetBlockByNumber(block_number) = None
     THEN Finish(t, Panicked) /\ ReleaseRead(t) /\ UNCHANGED todo
     ELSE /\ todo' = [todo EXCEPT ![t] = req[t].keys]
          /\ Goto(t, "simulate")
          /\ UNCHANGED << res, lockVars >>
  /\ UNCHANGED << reqVars, chainVars, block, seen, rangeVars >>

(* MemoryMKVS::get of one key *)
ReadKey(t) ==
  /\ \E a \in todo[t] :
       /\ seen' = [seen EXCEPT ![t] = @ \cup { << a, mkvs[a] >> }]
       /\ todo' = [todo EXCEPT ![t] = @ \ {a}]
  /\ UNCHANGED << reqVars, res, pc, lockVars, chainVars, block, rangeVars >>

SimulateRead(t) == pc[t] = "simulate" /\ ReadKey(t)

SimulateDone(t) ==
  /\ pc[t] = "simulate" /\ todo[t] = {}
  /\ Finish(t, Ok(seen[t]))
  /\ ReleaseRead(t)
  /\ UNCHANGED << reqVars, chainVars, localVars >>

(* transact_virtual returns an error. *)
SimulateErr(t) ==
  /\ pc[t] = "simulate"
  /\ Finish(t, Err("not executed"))
  /\ ReleaseRead(t)
  /\ UNCHANGED << reqVars, chainVars, localVars >>

(* A panic in the simulator pool unwinds through a read guard. *)
SimulatePanic(t) ==
  /\ pc[t] = "simulate"
  /\ Finish(t, Panicked)
  /\ ReleaseRead(t)
  /\ UNCHANGED << reqVars, chainVars, localVars >>

(***************************************************************************)
(* state() (eth_getBalance, eth_getStorageAt, eth_getCode, ...): the read  *)
(* lock covers the clone of the Arc only; the keys are read afterwards.    *)
(* The block the request names is ignored (_id).                           *)
(***************************************************************************)
TakeState(t) ==
  /\ pc[t] = "reading" /\ req[t].op = "state"
  /\ todo' = [todo EXCEPT ![t] = req[t].keys]
  /\ Goto(t, "handle")
  /\ ReleaseRead(t)
  /\ UNCHANGED << reqVars, res, chainVars, block, seen, rangeVars >>

HandleRead(t) == pc[t] = "handle" /\ ReadKey(t)

HandleDone(t) ==
  /\ pc[t] = "handle" /\ todo[t] = {}
  /\ Finish(t, Ok(seen[t]))
  /\ UNCHANGED << reqVars, lockVars, chainVars, localVars >>

Query(t) ==
  \/ AcquireRead(t) \/ Lookup(t) \/ ReadBestNumber(t) \/ ReadTxnOfBest(t)
  \/ ResolveFrom(t) \/ ResolveTo(t) \/ FetchBlock(t)
  \/ BeginSimulation(t) \/ SimulateRead(t) \/ SimulateDone(t)
  \/ SimulateErr(t) \/ SimulatePanic(t)
  \/ TakeState(t) \/ HandleRead(t) \/ HandleDone(t)

(* Whatever a task that has been called does next. *)
Step(t) == CheckTxn(t) \/ MineBlock(t) \/ Query(t)

Next ==
  \E t \in Threads :
    \/ \E r \in Requests : Call(t, r)
    \/ Step(t)
    \/ Return(t)

Spec == Init /\ [][Next]_vars

(***************************************************************************)
(* Fairness.  A task that can go on does (the tokio and simulator pools    *)
(* run on their own threads).  For the lock: glibc hands a released        *)
(* rwlock to the readers that wait for it, and a waiting writer is woken   *)
(* when the lock becomes free; a lock that becomes free again and again is *)
(* assumed to reach each of those that wait for it.  Nothing makes readers *)
(* wait for a waiting writer.                                              *)
(***************************************************************************)
Fairness ==
  \A t \in Threads :
    /\ WF_vars(Step(t)) /\ WF_vars(Return(t))
    /\ SF_vars(AcquireRead(t)) /\ SF_vars(AcquireWrite(t))

FairSpec == Spec /\ Fairness

-----------------------------------------------------------------------------
Labels ==
  {"idle", "check", "write", "execute", "commit", "number", "txn", "receipt",
   "block", "index", "read", "reading", "read2", "reading2", "fetch", "fetching",
   "simulate", "handle", "done"}

(* The lock and the locals of the tasks. *)
TasksTypeOK ==
  /\ req \in [Threads -> Requests \cup {NoRequest}]
  /\ since \in [Threads -> BlockNumbers]
  /\ pc \in [Threads -> Labels]
  /\ writers \subseteq Threads /\ readers \subseteq Threads
  /\ poisoned \in BOOLEAN
  /\ block \in [Threads -> Blocks]
  /\ todo \in [Threads -> SUBSET Accounts]
  /\ seen \in [Threads -> SUBSET (Accounts \X AccountStates)]

(* The state database and the four maps of ChainState. *)
ChainTypeOK ==
  /\ mkvs \in [Accounts -> AccountStates]
  /\ block_number \in BlockNumbers
  /\ DOMAIN blocks \subseteq Hashes
  /\ \A h \in DOMAIN blocks : blocks[h] \in Blocks
  /\ DOMAIN block_number_to_hash \subseteq BlockNumbers
  /\ \A n \in DOMAIN block_number_to_hash : block_number_to_hash[n] \in Hashes
  /\ DOMAIN transactions \subseteq Txns
  /\ \A x \in DOMAIN transactions : transactions[x] \in LocalizedTxns
  /\ DOMAIN receipts \subseteq Txns
  /\ \A x \in DOMAIN receipts : receipts[x] \in LocalizedReceipts

(* Types: block numbers stay within their bound, every hash in the maps is  *)
(* the hash of a block number, every key a transaction (struct ChainState,  *)
(* blockchain.rs:42-49, and the locals of the tasks).                       *)
TypeOK == TasksTypeOK /\ ChainTypeOK

-----------------------------------------------------------------------------
(***************************************************************************)
(* Properties                                                              *)
(***************************************************************************)
(* Whenever no mine_block is running, the four maps and block_number        *)
(* describe the same chain: numbers 0..block_number without a gap, each     *)
(* block linked to its parent, each mined transaction in exactly one block  *)
(* with its location and its receipt telling that block.  It holds of a     *)
(* poisoned chain too, since mine_block stores nothing before the commit    *)
(* has succeeded.                                                           *)
MapsAgree ==
  writers = {} =>
    /\ DOMAIN block_number_to_hash = 0 .. block_number
    /\ DOMAIN blocks = { block_number_to_hash[n] : n \in 0 .. block_number }
    /\ \A n \in 0 .. block_number :
         LET b == blocks[block_number_to_hash[n]] IN
           /\ b.number = n /\ b.hash = block_number_to_hash[n]
           /\ b.parent_hash = IF n = 0 THEN ZeroHash ELSE block_number_to_hash[n - 1]
           /\ n > 0 =>
                /\ Len(b.transactions) = 1
                /\ LET x == b.transactions[1] IN
                     /\ x \in DOMAIN transactions /\ x \in DOMAIN receipts
                     /\ transactions[x] = LocalizedTxn(n, b.hash, x)
                     /\ receipts[x] = LocalizedReceipt(n, b.hash, x, b.logs)
    /\ DOMAIN transactions = DOMAIN receipts
    /\ \A x \in DOMAIN transactions : transactions[x].block_number \in 1 .. block_number

(* The expect() calls on the best block and on the blocks of a log range    *)
(* ("best block must exist", "must have a best block", "block should        *)
(* exist") never fire: a request dies only on a poisoned lock or in the     *)
(* simulator.                                                               *)
ExpectsHold ==
  \A t \in Threads :
    res[t] = Panicked => poisoned \/ req[t].op = "simulate"

(* What the chain holds still bears out the answer x to the request r. *)
BornOut(r, x) ==
  /\ r.op = "send" =>
       /\ x \in DOMAIN transactions /\ x \in DOMAIN receipts
       /\ LET b == GetBlockByNumber(receipts[x].block_number) IN
            b # None /\ b[1].transactions = << x >>
  /\ r.op = "block" /\ x # None =>
       GetBlockByNumber(x[1].number) = x /\ Get(blocks, x[1].hash) = x
  /\ r.op = "txn" /\ x # None => Get(transactions, r.txn) = x
  /\ r.op = "receipt" /\ x # None => Get(receipts, r.txn) = x
  /\ r.op = "txnAt" /\ x # None => Get(transactions, x[1].signed) = x

(* What a client has been told stays true while other threads mine, fail or *)
(* panic: a transaction acknowledged by send_raw_transaction can be looked  *)
(* up with its receipt and block, and a block, transaction or receipt once  *)
(* returned is found again unchanged.                                       *)
AnswersStayTrue ==
  \A t \in Threads :
    pc[t] = "done" /\ res[t].tag = "ok" => BornOut(req[t], res[t].val)

(* get_txn(Latest) takes the lock twice; the best block it picked first     *)
(* still has its transaction at the second, unless it was genesis.          *)
LatestTxnFound ==
  \A t \in Threads :
    pc[t] = "done" /\ req[t] = [op |-> "txnAt", id |-> Latest, index |-> 0]
      /\ res[t] = Ok(None) => from[t] = Some(0)

Grows(m, n) == DOMAIN m \subseteq DOMAIN n /\ \A k \in DOMAIN m : n[k] = m[k]

(* The chain is append-only: no step of any thread removes or rewrites a    *)
(* block, an index entry, a transaction or a receipt, not even the insert() *)
(* calls of mine_block, which would overwrite silently.                     *)
AppendOnly ==
  [][ /\ Grows(blocks, blocks') /\ Grows(block_number_to_hash, block_number_to_hash')
      /\ Grows(transactions, transactions') /\ Grows(receipts, receipts')
      /\ block_number' \in {block_number, block_number + 1} ]_vars

(* Every request except the submission of a transaction is answered, or its *)
(* task dies: no thread waits for the lock forever.                         *)
QueriesFinish ==
  \A t \in Threads :
    (pc[t] # "idle" /\ req[t].op # "send") ~> (pc[t] = "idle")

(* A submission finishes too, unless from some moment on readers hold the   *)
(* lock without a pause: the RwLock lets new readers in past a waiting      *)
(* writer (simulate_transaction keeps its read guard for a whole            *)
(* execution).                                                              *)
SubmissionsFinish ==
  (\A t \in Threads : (pc[t] # "idle" /\ req[t].op = "send") ~> (pc[t] = "idle"))
    \/ <>[](readers # {})
=============================================================================

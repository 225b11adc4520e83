-------------------------- MODULE BlockchainProofs --------------------------
(***************************************************************************)
(* Proofs, for every number of threads, accounts, transactions and blocks, *)
(* of Blockchain!TypeOK, MapsAgree and AppendOnly, from the inductive      *)
(* invariant BlockchainInv!IInv, and of ExpectsHold, AnswersStayTrue and   *)
(* LatestTxnFound, from BlockchainAnswers!RInv, which stands on it.        *)
(*                                                                         *)
(* First the steps that leave ChainState alone: the readers, the           *)
(* transaction check, the locks, and the ways out of mine_block before     *)
(* block_number moves; Frame covers them all at once.  Then mine_block:    *)
(* building the block, committing the accounts, moving block_number, and   *)
(* the four inserts into the maps, and the theorems.  The second half      *)
(* follows the answers: a step of a task leaves the others alone and the   *)
(* maps only grow, so what the others hold and were told stays true        *)
(* (OthersKept); the task's own step is taken action by action (OwnStep).  *)
(***************************************************************************)
EXTENDS BlockchainAnswers, TLAPS

(* What a request carries, by its kind (ChainData!RequestsAssumption).      *)
LEMMA RequestFields ==
  ASSUME NEW r \in Requests
  PROVE  /\ r # NoRequest
         /\ r.op = "send" => r.txn \in Txns
         /\ r.op \in {"simulate", "state"} => r.keys \subseteq Accounts
BY RequestsAssumption DEF RequestType, NoRequest, BlockIds, Latest

LEMMA TxnFields ==
  ASSUME NEW x \in Txns
  PROVE  x.sender \in Accounts /\ x.to \in Accounts /\ x.nonce \in Nat
BY TxnsAssumption, Zenon DEF TxnType

LEMMA KeccakFacts ==
  /\ \A n \in BlockNumbers : Keccak[n] \in Hashes /\ Keccak[n] # ZeroHash
  /\ \A m, n \in BlockNumbers : Keccak[m] = Keccak[n] => m = n
BY KeccakAssumption, Zenon DEF Hashes

(* The block mine_block builds has the type of a block. *)
LEMMA NewBlockType ==
  ASSUME NEW n \in BlockNumbers, NEW h \in Hashes, NEW x \in Txns, NEW k \in Nat
  PROVE  /\ NewBlock(n, h, x, k) \in Blocks
         /\ NewBlock(n, h, x, k).number = n
         /\ NewBlock(n, h, x, k).hash = Keccak[n]
         /\ NewBlock(n, h, x, k).parent_hash = h
         /\ NewBlock(n, h, x, k).transactions = << x >>
<1> DEFINE logs == [i \in 1 .. k |-> LogEntry(n, x, i - 1)]
<1>1. \A i \in 1 .. k : LogEntry(n, x, i - 1) \in LogEntries
  BY DEF LogEntry, LogEntries
<1>2. logs \in Seq(LogEntries)
  BY <1>1
<1>3. << x >> \in Seq(Txns)
  OBVIOUS
<1>4. QED
  BY <1>2, <1>3, KeccakFacts, Zenon DEF NewBlock, Blocks

LEMMA GenesisType == Genesis \in Blocks
<1>1. << >> \in Seq(Txns) /\ << >> \in Seq(LogEntries)
  OBVIOUS
<1>2. 0 \in BlockNumbers
  BY BoundsAssumption DEF BlockNumbers
<1>3. QED
  BY <1>1, <1>2, KeccakFacts, Zenon DEF Genesis, Blocks

-----------------------------------------------------------------------------
(* A step of one thread that stays out of the second half of mine_block and *)
(* leaves ChainState and the other threads' locals alone.                   *)
LEMMA Frame ==
  ASSUME NEW t \in Threads, ChainInv, TypeOK, LockInv,
         pc[t] \notin Late, pc'[t] \notin Building,
         pc'[t] \in {"check", "write", "execute"} =>
           req'[t] \in Requests /\ req'[t].op = "send",
         \A u \in Threads \ {t} : /\ pc'[u] = pc[u] /\ req'[u] = req[u]
                                  /\ block'[u] = block[u] /\ todo'[u] = todo[u],
         UNCHANGED chainVars
  PROVE  ChainInv'
<1> USE DEF chainVars, mapVars
<1>1. MinerInv'
  BY DEF ChainInv, MinerInv, BlockIs, Building, Late, WriterLabels
<1>2. TxnsInv'
  BY Zenon DEF ChainInv, TxnsInv
<1>3. \A n : Sealed(n) <=> Sealed(n)'
  BY DEF Sealed, BlockOK
<1>4. EarlyInv'
  BY <1>3, Zenon DEF ChainInv, EarlyInv, Late, Building, WriterLabels
<1>5. LateInv'
  BY <1>3 DEF ChainInv, LateInv, Late, Building, WriterLabels
<1>6. QED
  BY <1>1, <1>2, <1>4, <1>5, Zenon DEF ChainInv

(* When a thread runs mine_block, no other thread holds the lock. *)
LEMMA OnlyWriter ==
  ASSUME LockInv, NEW t \in Threads, pc[t] \in WriterLabels
  PROVE  /\ writers = {t} /\ readers = {}
         /\ \A u \in Threads \ {t} : pc[u] \notin WriterLabels /\ pc[u] \notin ReaderLabels
BY Zenon DEF LockInv

(* A thread between acquiring and releasing the read lock excludes writers. *)
LEMMA NoWriter ==
  ASSUME LockInv, NEW t \in Threads, pc[t] \in ReaderLabels
  PROVE  /\ writers = {} /\ t \in readers
         /\ \A u \in Threads : pc[u] \notin WriterLabels
BY Zenon DEF LockInv

LEMMA InitIInv == Init => IInv
<1> SUFFICES ASSUME Init PROVE IInv
  BY Zenon
<1>0. 0 \in BlockNumbers /\ 0 .. 0 = {0}
  BY BoundsAssumption DEF BlockNumbers
<1>1. TypeOK
  <2>1. TasksTypeOK
    BY <1>0, GenesisType, Zenon DEF Init, TasksTypeOK, Labels
  <2>2. DOMAIN transactions = {} /\ DOMAIN receipts = {}
    BY DEF Init
  <2>3. mkvs \in [Accounts -> AccountStates] /\ block_number \in BlockNumbers
    BY <1>0, Zenon DEF Init, AccountStates
  <2>4. /\ DOMAIN blocks = {Keccak[0]} /\ blocks[Keccak[0]] = Genesis
        /\ DOMAIN block_number_to_hash = {0} /\ block_number_to_hash[0] = Keccak[0]
    BY Zenon DEF Init
  <2>5. ChainTypeOK
    BY <1>0, <2>2, <2>3, <2>4, GenesisType, KeccakFacts, Zenon DEF ChainTypeOK
  <2>6. QED
    BY <2>1, <2>5, Zenon DEF TypeOK
<1>2. LockInv
  BY Zenon DEF Init, LockInv, WriterLabels, ReaderLabels
<1>3. Sealed(0) /\ DOMAIN blocks = HashesTo(0)
  BY <1>0 DEF Init, Sealed, BlockOK, HashesTo, Genesis
<1>4. MinerInv /\ TxnsInv /\ LateInv
  BY DEF Init, MinerInv, TxnsInv, LateInv, Late, WriterLabels, Building
<1>5. EarlyInv
  BY <1>3, Zenon DEF Init, EarlyInv
<1>6. QED
  BY <1>1, <1>2, <1>4, <1>5, Zenon DEF IInv, ChainInv

-----------------------------------------------------------------------------
(***************************************************************************)
(* The steps that leave ChainState alone.                                  *)
(***************************************************************************)
LEMMA ChainTypeFrame ==
  ASSUME ChainTypeOK, UNCHANGED chainVars
  PROVE  ChainTypeOK'
BY Zenon DEF ChainTypeOK, chainVars, mapVars

(* The blocks reachable by number are those up to some block number. *)
LEMMA HeightType ==
  ASSUME IInv
  PROVE  Height \in BlockNumbers
<1>1. PICK n \in BlockNumbers : DOMAIN block_number_to_hash = 0 .. n
  <2>1. CASE \A t \in Threads : pc[t] \notin Late
    BY <2>1, Zenon DEF IInv, ChainInv, EarlyInv, Sealed, TypeOK, ChainTypeOK
  <2>2. CASE \E t \in Threads : pc[t] \in Late
    <3>1. PICK t \in Threads : pc[t] \in Late
      BY <2>2, Zenon
    <3>2. block_number - 1 \in BlockNumbers
      BY <3>1, BoundsAssumption
      DEF IInv, ChainInv, MinerInv, BlockIs, BlockNumbers, TypeOK, ChainTypeOK
    <3>3. Sealed(block_number - 1)
      BY <3>1, Zenon DEF IInv, ChainInv, LateInv
    <3>4. QED
      BY <3>2, <3>3, Zenon DEF Sealed
  <2>3. QED
    BY <2>1, <2>2, Zenon
<1>2. n \in 0 .. n /\ \A m \in 0 .. n : m <= n /\ m \in BlockNumbers
  BY BoundsAssumption DEF BlockNumbers
<1>3. QED
  BY <1>1, <1>2, Zenon DEF Height

LEMMA CallIInv ==
  ASSUME IInv, NEW t \in Threads, NEW r \in Requests, Call(t, r)
  PROVE  IInv'
<1> USE DEF IInv, Call, Goto, lockVars, localVars, rangeVars
<1>1. TypeOK'
  BY HeightType, ChainTypeFrame, Zenon DEF TypeOK, TasksTypeOK, Labels
<1>2. LockInv'
  BY Zenon DEF TypeOK, TasksTypeOK, LockInv, WriterLabels, ReaderLabels
<1>3. ChainInv'
  BY Frame, Zenon DEF TypeOK, TasksTypeOK, Late, Building, WriterLabels
<1>4. QED
  BY <1>1, <1>2, <1>3, Zenon

LEMMA ReturnIInv ==
  ASSUME IInv, NEW t \in Threads, Return(t)
  PROVE  IInv'
<1> USE DEF IInv, Return, Goto, lockVars, localVars, rangeVars
<1>1. TypeOK'
  BY GenesisType, ChainTypeFrame, BoundsAssumption
  DEF TypeOK, TasksTypeOK, Labels, BlockNumbers
<1>2. LockInv'
  BY Zenon DEF TypeOK, TasksTypeOK, LockInv, WriterLabels, ReaderLabels
<1>3. ChainInv'
  BY Frame, Zenon DEF TypeOK, TasksTypeOK, Late, Building, WriterLabels
<1>4. QED
  BY <1>1, <1>2, <1>3, Zenon

LEMMA CheckTxnIInv ==
  ASSUME IInv, NEW t \in Threads, CheckTxn(t)
  PROVE  IInv'
<1> USE DEF IInv, CheckTxn, Finish, Goto, lockVars, localVars, rangeVars, reqVars
<1>1. TypeOK'
  BY ChainTypeFrame, Zenon DEF TypeOK, TasksTypeOK, Labels
<1>2. LockInv'
  BY DEF TypeOK, TasksTypeOK, LockInv, WriterLabels, ReaderLabels
<1>3. req'[t] \in Requests /\ req'[t].op = "send"
  BY Zenon DEF ChainInv, MinerInv
<1>4. ChainInv'
  BY <1>3, Frame, Zenon DEF TypeOK, TasksTypeOK, Late, Building, WriterLabels
<1>5. QED
  BY <1>1, <1>2, <1>4, Zenon

LEMMA AcquireWriteIInv ==
  ASSUME IInv, NEW t \in Threads, AcquireWrite(t)
  PROVE  IInv'
<1> USE DEF IInv, AcquireWrite, Finish, Goto, localVars, rangeVars, reqVars
<1>1. TypeOK'
  BY ChainTypeFrame, Zenon DEF TypeOK, TasksTypeOK, Labels
<1>2. LockInv'
  BY DEF TypeOK, TasksTypeOK, LockInv, WriterLabels, ReaderLabels
<1>3. req'[t] \in Requests /\ req'[t].op = "send"
  BY Zenon DEF ChainInv, MinerInv
<1>4. ChainInv'
  BY <1>3, Frame, Zenon DEF TypeOK, TasksTypeOK, Late, Building, WriterLabels
<1>5. QED
  BY <1>1, <1>2, <1>4, Zenon

(* mine_block gives up, with an error or a panic, before block_number moves.*)
LEMMA GiveUp ==
  ASSUME IInv, NEW t \in Threads, pc[t] \in {"execute", "commit"},
         pc' = [pc EXCEPT ![t] = "done"],
         writers' = writers \ {t}, readers' = readers, poisoned' \in BOOLEAN,
         UNCHANGED << reqVars, chainVars, block, todo, seen >>
  PROVE  IInv'
<1> USE DEF IInv, reqVars
<1>1. TypeOK'
  BY ChainTypeFrame, Zenon DEF TypeOK, TasksTypeOK, Labels
<1>2. LockInv'
  BY OnlyWriter DEF TypeOK, TasksTypeOK, LockInv, WriterLabels, ReaderLabels
<1>3. ChainInv'
  BY Frame, Zenon DEF TypeOK, TasksTypeOK, Late, Building, WriterLabels
<1>4. QED
  BY <1>1, <1>2, <1>3, Zenon

LEMMA ExecuteErrIInv ==
  ASSUME IInv, NEW t \in Threads, ExecuteErr(t)
  PROVE  IInv'
BY GiveUp, Zenon DEF ExecuteErr, PoisonWrite, ReleaseWrite, Finish, Goto, localVars, IInv,
              TypeOK, TasksTypeOK

LEMMA MinePanicIInv ==
  ASSUME IInv, NEW t \in Threads, MinePanic(t)
  PROVE  IInv'
BY GiveUp, Zenon DEF MinePanic, PoisonWrite, Finish, Goto, localVars

LEMMA AcquireReadIInv ==
  ASSUME IInv, NEW t \in Threads, AcquireRead(t)
  PROVE  IInv'
<1> USE DEF IInv, AcquireRead, Finish, Goto, localVars, rangeVars, reqVars
<1>1. Holding(pc[t]) \in {"reading", "reading2", "fetching"}
  BY Zenon DEF Waiting, Holding
<1>2. TypeOK'
  BY <1>1, ChainTypeFrame, Zenon DEF TypeOK, TasksTypeOK, Labels
<1>3. LockInv'
  BY <1>1 DEF TypeOK, TasksTypeOK, LockInv, WriterLabels, ReaderLabels, Waiting
<1>4. ChainInv'
  BY <1>1, Frame, Zenon DEF TypeOK, TasksTypeOK, Late, Building, WriterLabels, Waiting
<1>5. QED
  BY <1>2, <1>3, <1>4, Zenon

(* A reader uses ChainState and lets go of the lock. *)
LEMMA LeaveRead ==
  ASSUME IInv, NEW t \in Threads, pc[t] \in ReaderLabels,
         NEW l \in {"done", "read2", "fetch", "handle"},
         pc' = [pc EXCEPT ![t] = l], ReleaseRead(t),
         NEW S \in SUBSET Accounts, todo' = [todo EXCEPT ![t] = S],
         UNCHANGED << reqVars, chainVars, block, seen >>
  PROVE  IInv'
<1> USE DEF IInv, ReleaseRead, reqVars
<1>1. TypeOK'
  BY ChainTypeFrame, Zenon DEF TypeOK, TasksTypeOK, Labels
<1>2. LockInv'
  BY NoWriter DEF TypeOK, TasksTypeOK, LockInv, WriterLabels, ReaderLabels
<1>3. ChainInv'
  BY Frame, Zenon DEF TypeOK, TasksTypeOK, Late, Building, WriterLabels, ReaderLabels
<1>4. QED
  BY <1>1, <1>2, <1>3, Zenon

LEMMA LeaveReadSame ==
  ASSUME IInv, NEW t \in Threads, pc[t] \in ReaderLabels,
         NEW l \in {"done", "read2", "fetch"},
         pc' = [pc EXCEPT ![t] = l], ReleaseRead(t),
         UNCHANGED << reqVars, chainVars, block, todo, seen >>
  PROVE  IInv'
<1>1. todo[t] \in SUBSET Accounts /\ todo' = [todo EXCEPT ![t] = todo[t]]
  BY Zenon DEF IInv, TypeOK, TasksTypeOK
<1>2. QED
  BY <1>1, LeaveRead, Zenon

LEMMA LookupsIInv ==
  ASSUME IInv, NEW t \in Threads,
         \/ Lookup(t) \/ ReadBestNumber(t) \/ ReadTxnOfBest(t)
         \/ ResolveFrom(t) \/ ResolveTo(t) \/ FetchBlock(t)
         \/ SimulateDone(t) \/ SimulateErr(t) \/ SimulatePanic(t)
  PROVE  IInv'
<1> USE LeaveReadSame DEF Finish, Goto, localVars, ReaderLabels
<1>1. CASE Lookup(t)
  BY <1>1, Zenon DEF Lookup
<1>2. CASE ReadBestNumber(t)
  BY <1>2, Zenon DEF ReadBestNumber
<1>3. CASE ReadTxnOfBest(t)
  BY <1>3, Zenon DEF ReadTxnOfBest
<1>4. CASE ResolveFrom(t)
  BY <1>4, Zenon DEF ResolveFrom
<1>5. CASE ResolveTo(t)
  BY <1>5, Zenon DEF ResolveTo
<1>6. CASE FetchBlock(t)
  BY <1>6, Zenon DEF FetchBlock
<1>7. CASE SimulateDone(t)
  BY <1>7, Zenon DEF SimulateDone
<1>8. CASE SimulatePanic(t)
  BY <1>8, Zenon DEF SimulatePanic
<1>9. CASE SimulateErr(t)
  BY <1>9, Zenon DEF SimulateErr
<1>10. QED
  BY <1>1, <1>2, <1>3, <1>4, <1>5, <1>6, <1>7, <1>8, <1>9, Zenon

(* The keys a simulation or a state handle reads are accounts. *)
LEMMA KeysType ==
  ASSUME TypeOK, NEW t \in Threads, req[t].op \in {"simulate", "state"}
  PROVE  req[t].keys \in SUBSET Accounts
BY RequestFields DEF TypeOK, TasksTypeOK, NoRequest

LEMMA BeginSimulationIInv ==
  ASSUME IInv, NEW t \in Threads, BeginSimulation(t)
  PROVE  IInv'
<1>1. CASE GetBlockByNumber(block_number) = None
  BY <1>1, LeaveReadSame, Zenon DEF BeginSimulation, Finish, Goto, ReaderLabels
<1>2. CASE GetBlockByNumber(block_number) # None
  <2> USE <1>2 DEF IInv, BeginSimulation, Goto, rangeVars, reqVars, lockVars
  <2>1. TypeOK'
    BY KeysType, ChainTypeFrame, SMTT(20) DEF TypeOK, TasksTypeOK, Labels
  <2>2. LockInv'
    BY Zenon DEF TypeOK, TasksTypeOK, LockInv, WriterLabels, ReaderLabels
  <2>3. ChainInv'
    BY Frame, Zenon DEF TypeOK, TasksTypeOK, Late, Building, WriterLabels
  <2>4. QED
    BY <2>1, <2>2, <2>3, SMTT(20)
<1>3. QED
  BY <1>1, <1>2, Zenon

LEMMA ReadKeyIInv ==
  ASSUME IInv, NEW t \in Threads, pc[t] \in {"simulate", "handle"}, ReadKey(t)
  PROVE  IInv'
<1> USE DEF IInv, ReadKey, rangeVars, reqVars, lockVars
<1>1. TypeOK'
  <2>1. \A a \in todo[t] : a \in Accounts /\ mkvs[a] \in AccountStates
    BY Zenon DEF TypeOK, TasksTypeOK, ChainTypeOK
  <2>2. QED
    BY <2>1, ChainTypeFrame DEF TypeOK, TasksTypeOK, Labels
<1>2. LockInv'
  BY Zenon DEF LockInv
<1>3. ChainInv'
  BY Frame, Zenon DEF TypeOK, TasksTypeOK, Late, Building, WriterLabels
<1>4. QED
  BY <1>1, <1>2, <1>3, Zenon

LEMMA TakeStateIInv ==
  ASSUME IInv, NEW t \in Threads, TakeState(t)
  PROVE  IInv'
BY KeysType, LeaveRead, Zenon DEF IInv, TakeState, Goto, ReaderLabels

LEMMA HandleDoneIInv ==
  ASSUME IInv, NEW t \in Threads, HandleDone(t)
  PROVE  IInv'
<1> USE DEF IInv, HandleDone, Finish, Goto, localVars, rangeVars, reqVars, lockVars
<1>1. TypeOK'
  BY ChainTypeFrame, Zenon DEF TypeOK, TasksTypeOK, Labels
<1>2. LockInv'
  BY Zenon DEF TypeOK, TasksTypeOK, LockInv, WriterLabels, ReaderLabels
<1>3. ChainInv'
  BY Frame, Zenon DEF TypeOK, TasksTypeOK, Late, Building, WriterLabels
<1>4. QED
  BY <1>1, <1>2, <1>3, Zenon

LEMMA QueryIInv ==
  ASSUME IInv, NEW t \in Threads, Query(t)
  PROVE  IInv'
BY AcquireReadIInv, LookupsIInv, BeginSimulationIInv, ReadKeyIInv, TakeStateIInv,
   HandleDoneIInv, Zenon
DEF Query, SimulateRead, HandleRead

-----------------------------------------------------------------------------

(* The facts every step of mine_block starts from. *)
LEMMA Miner ==
  ASSUME IInv, NEW t \in Threads, pc[t] \in WriterLabels
  PROVE  /\ req[t] \in Requests /\ req[t].op = "send" /\ req[t].txn \in Txns
         /\ req[t].txn.sender \in Accounts /\ req[t].txn.to \in Accounts
         /\ req[t].txn.nonce \in Nat
         /\ \A u \in Threads \ {t} : pc[u] \notin WriterLabels
         /\ block_number \in BlockNumbers
<1>1. req[t] \in Requests /\ req[t].op = "send"
  BY Zenon DEF IInv, ChainInv, MinerInv
<1>2. req[t].txn \in Txns
  BY <1>1, RequestFields, Zenon
<1>3. QED
  BY <1>1, <1>2, TxnFields, OnlyWriter, Zenon DEF IInv, TypeOK, ChainTypeOK

LEMMA SealedFrame ==
  ASSUME UNCHANGED mapVars, NEW n
  PROVE  Sealed(n) <=> Sealed(n)'
BY DEF mapVars, Sealed, BlockOK

(* The thread that mines goes from one label of mine_block to the next. *)
LEMMA MinerLock ==
  ASSUME IInv, NEW t \in Threads, pc[t] \in WriterLabels,
         NEW l \in WriterLabels, pc' = [pc EXCEPT ![t] = l], UNCHANGED lockVars
  PROVE  LockInv'
BY DEF IInv, TypeOK, TasksTypeOK, LockInv, lockVars, WriterLabels, ReaderLabels

LEMMA ExecuteIInv ==
  ASSUME IInv, NEW t \in Threads, Execute(t)
  PROVE  IInv'
<1> DEFINE txn  == req[t].txn
           best == GetBlockByNumber(block_number)
<1>0. pc[t] = "execute" /\ pc[t] \in WriterLabels
  BY Zenon DEF Execute, WriterLabels
<1>1. CASE best = None
  BY <1>1, <1>0, GiveUp, Zenon DEF Execute, PoisonWrite, Finish, Goto, rangeVars
<1>2. CASE best # None
  <2> HIDE DEF txn, best
  <2>1. /\ block_number < MaxBlock
        /\ txn.nonce = mkvs[txn.sender].nonce
        /\ todo' = [todo EXCEPT ![t] = Touched(txn)]
        /\ pc' = [pc EXCEPT ![t] = "commit"]
        /\ UNCHANGED << res, lockVars, reqVars, chainVars, seen, rangeVars >>
    BY <1>2, Zenon DEF Execute, Goto, txn, best
  <2>2. PICK k \in 0 .. MaxLogs :
          block' = [block EXCEPT ![t] = NewBlock(block_number + 1, best[1].hash, txn, k)]
    BY <1>2, Zenon DEF Execute, txn, best
  <2>3. \A u \in Threads : pc[u] \notin Late
    BY <1>0, Miner, Zenon DEF Late, WriterLabels
  <2>4. Sealed(block_number) /\ DOMAIN blocks = HashesTo(block_number)
        /\ DOMAIN transactions = DOMAIN receipts
    BY <2>3, Zenon DEF IInv, ChainInv, EarlyInv
  <2>5. best[1].hash = Keccak[block_number]
    <3>1. block_number \in 0 .. block_number
      BY <1>0, Miner DEF BlockNumbers
    <3>2. best = Some(blocks[Keccak[block_number]])
      BY <2>4, <3>1, Zenon DEF best, GetBlockByNumber, Get, Sealed
    <3>3. QED
      BY <2>4, <3>1, <3>2, Zenon DEF Sealed, BlockOK, Some
  <2>6. /\ block_number \in Nat
        /\ block_number + 1 \in BlockNumbers /\ block_number + 1 \in 1 .. MaxBlock
        /\ Keccak[block_number] \in Hashes
    BY <1>0, <2>1, Miner, KeccakFacts, BoundsAssumption DEF BlockNumbers
  <2>7. k \in Nat
    BY <2>2, BoundsAssumption
  <2>8. txn \in Txns /\ txn.sender \in Accounts /\ txn.to \in Accounts
    BY <1>0, Miner, Zenon DEF txn
  <2>9. /\ block'[t] \in Blocks
        /\ block'[t].number = block_number + 1
        /\ block'[t].hash = Keccak[block_number + 1]
        /\ block'[t].parent_hash = Keccak[block_number]
        /\ block'[t].transactions = << txn >>
    BY <2>2, <2>5, <2>6, <2>7, <2>8, NewBlockType DEF IInv, TypeOK, TasksTypeOK
  <2>10. TypeOK'
    BY <2>1, <2>2, <2>8, <2>9, ChainTypeFrame, Zenon
    DEF IInv, TypeOK, TasksTypeOK, Labels, lockVars, reqVars, Touched
  <2>11. LockInv'
    <3>1. "commit" \in WriterLabels
      BY Zenon DEF WriterLabels
    <3>2. UNCHANGED lockVars
      BY <2>1, Zenon DEF lockVars
    <3>3. QED
      BY <1>0, <2>1, <3>1, <3>2, MinerLock, Zenon
  <2>12. txn \notin DOMAIN transactions
    BY <2>1, <2>8, TxnFields DEF IInv, ChainInv, TxnsInv
  <2>13. pc'[t] = "commit" /\ \A u \in Threads \ {t} : pc'[u] \notin WriterLabels
    BY <1>0, <2>1, Miner, Zenon DEF IInv, TypeOK, TasksTypeOK
  <2>14. MinerInv'
    <3>1. block_number + 1 - 1 = block_number
      BY <1>0, Miner DEF BlockNumbers
    <3>2. BlockIs(t, block_number + 1)'
      <4>1. block_number' = block_number /\ req' = req
        BY <2>1, Zenon DEF reqVars, chainVars
      <4>2. QED
        BY <2>6, <2>9, <3>1, <4>1 DEF BlockIs, txn
    <3>3. txn.sender \in todo'[t]
      BY <2>1, Zenon DEF IInv, TypeOK, TasksTypeOK, Touched
    <3>4. req'[t] = req[t] /\ req[t] \in Requests /\ req[t].op = "send"
      BY <1>0, <2>1, Miner, Zenon DEF reqVars
    <3>5. \A u \in Threads \ {t} : pc'[u] = pc[u] /\ req'[u] = req[u]
      BY <2>1, SMTT(20) DEF reqVars, IInv, TypeOK, TasksTypeOK
    <3>6. QED
      BY <2>1, <2>12, <2>13, <3>2, <3>3, <3>4, <3>5
      DEF IInv, ChainInv, MinerInv, chainVars, mapVars, Building, WriterLabels, Late, txn
  <2>15. TxnsInv' /\ EarlyInv' /\ LateInv'
    BY <2>1, <2>4, <2>13, SealedFrame, Zenon
    DEF IInv, ChainInv, TxnsInv, EarlyInv, LateInv, chainVars, mapVars, Late, WriterLabels
  <2>16. QED
    BY <2>10, <2>11, <2>14, <2>15, Zenon DEF IInv, ChainInv
<1>3. QED
  BY <1>1, <1>2, Zenon

(* Committing an account only raises nonces, and the sender's by one. *)
LEMMA CommitKeyIInv ==
  ASSUME IInv, NEW t \in Threads, CommitKey(t)
  PROVE  IInv'
<1> DEFINE txn == req[t].txn
<1>0. pc[t] = "commit" /\ pc[t] \in WriterLabels
  BY Zenon DEF CommitKey, WriterLabels
<1>1. PICK a \in todo[t] :
        /\ mkvs' = [mkvs EXCEPT ![a] =
                      [nonce   |-> IF a = txn.sender THEN mkvs[a].nonce + 1 ELSE mkvs[a].nonce,
                       written |-> block[t].number]]
        /\ todo' = [todo EXCEPT ![t] = todo[t] \ {a}]
        /\ pc' = [pc EXCEPT ![t] = IF todo[t] = {a} THEN "number" ELSE "commit"]
  BY Zenon DEF CommitKey, Goto
<1>2. UNCHANGED << reqVars, res, lockVars, block_number, mapVars, block, seen, rangeVars >>
  BY Zenon DEF CommitKey
<1> HIDE DEF txn
<1>3. /\ txn \in Txns /\ txn.sender \in Accounts /\ txn.nonce \in Nat
      /\ req[t] \in Requests /\ req[t].op = "send"
  BY <1>0, Miner, Zenon DEF txn
<1>4. a \in Accounts /\ mkvs \in [Accounts -> AccountStates]
  BY <1>1, Zenon DEF IInv, TypeOK, TasksTypeOK, ChainTypeOK
<1>5. block[t].number \in BlockNumbers
  BY Zenon DEF IInv, TypeOK, TasksTypeOK, Blocks
<1>6. /\ mkvs' \in [Accounts -> AccountStates]
      /\ \A b \in Accounts : mkvs[b].nonce \in Nat /\ mkvs'[b].nonce >= mkvs[b].nonce
      /\ a = txn.sender => mkvs'[a].nonce = mkvs[a].nonce + 1
      /\ \A b \in Accounts : b # a => mkvs'[b] = mkvs[b]
  BY <1>1, <1>4, <1>5 DEF AccountStates
<1>7. pc'[t] \in {"commit", "number"} /\ \A u \in Threads \ {t} : pc'[u] \notin WriterLabels
  BY <1>0, <1>1, Miner, Zenon DEF IInv, TypeOK, TasksTypeOK
<1>8. TypeOK'
  <2>1. TasksTypeOK'
    BY <1>1, <1>2, Zenon DEF IInv, TypeOK, TasksTypeOK, Labels, lockVars, reqVars
  <2>2. ChainTypeOK'
    BY <1>2, <1>6, Zenon DEF IInv, TypeOK, ChainTypeOK, mapVars
  <2>3. QED
    BY <2>1, <2>2, Zenon DEF TypeOK
<1>9. LockInv'
  <2>1. "commit" \in WriterLabels /\ "number" \in WriterLabels
    BY Zenon DEF WriterLabels
  <2>2. UNCHANGED lockVars
    BY <1>2, Zenon DEF lockVars
  <2>3. QED
    BY <1>0, <1>1, <2>1, <2>2, MinerLock, Zenon
<1>10. TxnsInv'
  <2>1. SUFFICES ASSUME NEW x \in DOMAIN transactions
                 PROVE  /\ transactions[x].block_number \in 1 .. block_number
                        /\ x.nonce < mkvs'[x.sender].nonce
    BY <1>2, Zenon DEF TxnsInv, mapVars
  <2>2. x \in Txns /\ x.sender \in Accounts /\ x.nonce \in Nat
    BY TxnFields, Zenon DEF IInv, TypeOK, ChainTypeOK
  <2>3. transactions[x].block_number \in 1 .. block_number /\ x.nonce < mkvs[x.sender].nonce
    BY Zenon DEF IInv, ChainInv, TxnsInv
  <2>4. mkvs'[x.sender].nonce \in Nat
    BY <1>6, <2>2, SMTT(20) DEF AccountStates
  <2>5. QED
    BY <1>6, <2>2, <2>3, <2>4
<1>11. MinerInv'
  <2>1. BlockIs(t, block_number + 1) /\ txn \notin DOMAIN transactions
    BY <1>0, Zenon DEF IInv, ChainInv, MinerInv, txn
  <2>2. BlockIs(t, block_number + 1)'
    BY <1>2, <2>1, Zenon DEF BlockIs, reqVars
  <2>3. IF txn.sender \in todo[t] THEN txn.nonce = mkvs[txn.sender].nonce
                                  ELSE txn.nonce < mkvs[txn.sender].nonce
    BY <1>0, Zenon DEF IInv, ChainInv, MinerInv, Building, WriterLabels, txn
  <2>4. todo'[t] = todo[t] \ {a} /\ (pc'[t] = "number" <=> todo[t] = {a})
    BY <1>1, Zenon DEF IInv, TypeOK, TasksTypeOK
  <2>5. mkvs'[txn.sender].nonce \in Nat /\ mkvs[txn.sender].nonce \in Nat
    BY <1>3, <1>6, Zenon DEF AccountStates
  <2>6. IF pc'[t] = "commit" /\ txn.sender \in todo'[t]
        THEN txn.nonce = mkvs'[txn.sender].nonce
        ELSE txn.nonce < mkvs'[txn.sender].nonce
    <3>1. CASE a = txn.sender
      BY <1>1, <1>3, <1>6, <2>3, <2>4, <2>5, <3>1, SMTT(20)
    <3>2. CASE a # txn.sender
      BY <1>1, <1>3, <1>6, <1>7, <2>3, <2>4, <2>5, <3>2, Zenon
    <3>3. QED
      BY <3>1, <3>2, Zenon
  <2>7. req' = req /\ \A u \in Threads \ {t} : pc'[u] = pc[u]
    BY <1>1, <1>2, Zenon DEF reqVars, IInv, TypeOK, TasksTypeOK
  <2>8. SUFFICES ASSUME NEW u \in Threads
                 PROVE  /\ pc'[u] \in {"check", "write"} \cup WriterLabels =>
                             req'[u] \in Requests /\ req'[u].op = "send"
                        /\ u # t => pc'[u] \notin WriterLabels
    BY <1>2, <1>3, <1>7, <2>1, <2>2, <2>6, <2>7, Zenon
    DEF MinerInv, mapVars, Building, WriterLabels, Late, txn
  <2>9. QED
    BY <1>0, <1>7, <2>1, <2>7, Miner, Zenon DEF IInv, ChainInv, MinerInv
<1>12. \A u \in Threads : pc[u] \notin Late /\ pc'[u] \notin Late
  BY <1>0, <1>7, Miner, SMTT(20) DEF Late, WriterLabels
<1>13. EarlyInv' /\ LateInv'
  BY <1>2, <1>12, SealedFrame, Zenon
  DEF IInv, ChainInv, EarlyInv, LateInv, mapVars
<1>14. QED
  BY <1>8, <1>9, <1>10, <1>11, <1>13, SMTT(20) DEF IInv, ChainInv

(* A step of mine_block from one label to the next that touches only the    *)
(* maps or block_number.                                                    *)
LEMMA MinerFrame ==
  ASSUME IInv, NEW t \in Threads, pc[t] \in WriterLabels,
         NEW l \in WriterLabels, pc' = [pc EXCEPT ![t] = l],
         UNCHANGED << reqVars, lockVars, localVars >>
  PROVE  /\ pc'[t] = l /\ req' = req /\ block' = block
         /\ \A u \in Threads \ {t} : pc'[u] = pc[u] /\ pc'[u] \notin WriterLabels
         /\ TasksTypeOK' /\ LockInv'
<1>1. l \in Labels
  BY Zenon DEF WriterLabels, Labels
<1>2. TasksTypeOK'
  BY <1>1, Zenon DEF IInv, TypeOK, TasksTypeOK, lockVars, reqVars, localVars
<1>3. LockInv'
  BY MinerLock, Zenon
<1>4. QED
  BY <1>2, <1>3, Miner, Zenon DEF IInv, TypeOK, TasksTypeOK, reqVars, localVars

LEMMA SetBlockNumberIInv ==
  ASSUME IInv, NEW t \in Threads, SetBlockNumber(t)
  PROVE  IInv'
<1>0. pc[t] = "number" /\ pc[t] \in WriterLabels /\ "txn" \in WriterLabels
  BY Zenon DEF SetBlockNumber, WriterLabels
<1>1. /\ pc'[t] = "txn" /\ req' = req /\ block' = block
      /\ \A u \in Threads \ {t} : pc'[u] = pc[u] /\ pc'[u] \notin WriterLabels
      /\ TasksTypeOK' /\ LockInv'
  BY <1>0, MinerFrame, Zenon DEF SetBlockNumber, Goto
<1>2. BlockIs(t, block_number + 1) /\ block_number \in Nat
  BY <1>0 DEF IInv, ChainInv, MinerInv, TypeOK, ChainTypeOK, BlockNumbers
<1>3. block_number' = block_number + 1 /\ block_number' \in BlockNumbers
  BY <1>2, BoundsAssumption DEF SetBlockNumber, BlockIs, BlockNumbers
<1>4. UNCHANGED << mkvs, mapVars, todo >>
  BY Zenon DEF SetBlockNumber, localVars
<1>5. ChainTypeOK'
  BY <1>3, <1>4, Zenon DEF IInv, TypeOK, ChainTypeOK, mapVars
<1>6. Sealed(block_number) /\ DOMAIN blocks = HashesTo(block_number)
      /\ DOMAIN transactions = DOMAIN receipts
  BY <1>0, Miner, SMTT(20) DEF IInv, ChainInv, EarlyInv, Late, WriterLabels
<1>7. MinerInv'
  <2>1. BlockIs(t, block_number)'
    BY <1>1, <1>2, <1>3, Zenon DEF BlockIs
  <2>2. QED
    BY <1>0, <1>1, <1>4, <2>1, Zenon
    DEF IInv, ChainInv, MinerInv, Building, Late, WriterLabels, mapVars
<1>8. TxnsInv'
  <2>1. \A i \in 1 .. block_number : i \in 1 .. block_number'
    BY <1>2, <1>3
  <2>2. QED
    BY <1>4, <2>1, Zenon DEF IInv, ChainInv, TxnsInv, mapVars
<1>9. EarlyInv'
  BY <1>1, Zenon DEF EarlyInv, Late
<1>10. LateInv'
  <2>1. block_number' - 1 = block_number
    BY <1>2, <1>3
  <2>2. QED
    BY <1>1, <1>4, <1>6, <2>1, SealedFrame, Zenon
    DEF LateInv, Late, WriterLabels, mapVars, HashesTo
<1>11. QED
  BY <1>1, <1>5, <1>7, <1>8, <1>9, <1>10, Zenon DEF IInv, ChainInv, TypeOK

-----------------------------------------------------------------------------
(* The inserts into the maps. *)

(* What holds of the maps when mine_block stores its transaction, receipt,  *)
(* block and index entry.                                                   *)
LEMMA LateFacts ==
  ASSUME IInv, NEW t \in Threads, pc[t] \in Late
  PROVE  /\ pc[t] \in WriterLabels
         /\ block_number \in 1 .. MaxBlock /\ block_number - 1 \in Nat
         /\ block_number \in BlockNumbers /\ block_number - 1 \in BlockNumbers
         /\ BlockIs(t, block_number) /\ block[t] \in Blocks
         /\ Sealed(block_number - 1)
         /\ \A i \in 0 .. (block_number - 1) : i \in BlockNumbers /\ i # block_number
<1>1. pc[t] \in WriterLabels
  BY Zenon DEF Late, WriterLabels
<1>2. BlockIs(t, block_number) /\ block[t] \in Blocks
  BY Zenon DEF IInv, ChainInv, MinerInv, TypeOK, TasksTypeOK
<1>3. Sealed(block_number - 1)
  BY Zenon DEF IInv, ChainInv, LateInv
<1>4. QED
  BY <1>1, <1>2, <1>3, BoundsAssumption DEF BlockIs, BlockNumbers

LEMMA StoreTxnIInv ==
  ASSUME IInv, NEW t \in Threads, StoreTxn(t)
  PROVE  IInv'
<1> DEFINE txn == req[t].txn
           n   == block_number
           new == LocalizedTxn(n, Keccak[n], txn)
<1>0. pc[t] = "txn" /\ pc[t] \in Late /\ "receipt" \in WriterLabels
  BY Zenon DEF StoreTxn, Late, WriterLabels
<1>1. /\ pc'[t] = "receipt" /\ req' = req /\ block' = block
      /\ \A u \in Threads \ {t} : pc'[u] = pc[u] /\ pc'[u] \notin WriterLabels
      /\ TasksTypeOK' /\ LockInv'
  BY <1>0, MinerFrame, Zenon DEF StoreTxn, Goto, Late, WriterLabels
<1>2. BlockIs(t, n) /\ n \in BlockNumbers /\ n \in 1 .. MaxBlock /\ Sealed(n - 1)
  BY <1>0, LateFacts, Zenon
<1>3. txn \in Txns /\ txn.sender \in Accounts /\ txn \notin DOMAIN transactions
      /\ txn.nonce < mkvs[txn.sender].nonce
  BY <1>0, LateFacts, Miner, Zenon DEF IInv, ChainInv, MinerInv, Building, WriterLabels
<1>4. /\ DOMAIN transactions' = DOMAIN transactions \cup {txn}
      /\ transactions'[txn] = new
      /\ \A x \in DOMAIN transactions : transactions'[x] = transactions[x]
  <2>1. transactions' = Insert(transactions, txn, new)
    BY <1>2, Zenon DEF StoreTxn, BlockIs
  <2>2. QED
    BY <1>3, <2>1, Zenon DEF Insert
<1> HIDE DEF new
<1>5. UNCHANGED << mkvs, block_number, blocks, block_number_to_hash, receipts, todo >>
  BY Zenon DEF StoreTxn, localVars
<1>6. ChainTypeOK'
  <2>1. new \in LocalizedTxns
    BY <1>2, <1>3, KeccakFacts, Zenon DEF new, LocalizedTxn, LocalizedTxns
  <2>2. QED
    BY <1>3, <1>4, <1>5, <2>1, Zenon DEF IInv, TypeOK, ChainTypeOK
<1>7. MinerInv'
  BY <1>0, <1>1, <1>5, Zenon
  DEF IInv, ChainInv, MinerInv, BlockIs, Building, Late, WriterLabels
<1>8. TxnsInv'
  <2>1. new.block_number = n /\ n \in 1 .. n
    BY <1>2 DEF new, LocalizedTxn
  <2>2. QED
    BY <1>3, <1>4, <1>5, <2>1, Zenon DEF IInv, ChainInv, TxnsInv
<1>9. EarlyInv'
  BY <1>1, Zenon DEF EarlyInv, Late
<1>10. LateInv'
  <2>1. \A i \in 0 .. (n - 1) : BlockOK(i) => BlockOK(i)'
    BY <1>4, <1>5, Zenon DEF BlockOK
  <2>2. Sealed(n - 1)'
    BY <1>2, <1>5, <2>1, Zenon DEF Sealed
  <2>3. DOMAIN blocks = HashesTo(n - 1) /\ DOMAIN transactions = DOMAIN receipts
    BY <1>0, Zenon DEF IInv, ChainInv, LateInv
  <2>4. QED
    BY <1>1, <1>3, <1>4, <1>5, <2>2, <2>3, Zenon
    DEF LateInv, Late, WriterLabels, HashesTo, new
<1>11. QED
  BY <1>1, <1>6, <1>7, <1>8, <1>9, <1>10, Zenon DEF IInv, ChainInv, TypeOK


LEMMA StoreReceiptIInv ==
  ASSUME IInv, NEW t \in Threads, StoreReceipt(t)
  PROVE  IInv'
<1> DEFINE txn == req[t].txn
           n   == block_number
           new == LocalizedReceipt(n, Keccak[n], txn, block[t].logs)
<1>0. pc[t] = "receipt" /\ pc[t] \in Late /\ "block" \in WriterLabels
  BY Zenon DEF StoreReceipt, Late, WriterLabels
<1>1. /\ pc'[t] = "block" /\ req' = req /\ block' = block
      /\ \A u \in Threads \ {t} : pc'[u] = pc[u] /\ pc'[u] \notin WriterLabels
      /\ TasksTypeOK' /\ LockInv'
  BY <1>0, MinerFrame, Zenon DEF StoreReceipt, Goto, Late, WriterLabels
<1>2. /\ BlockIs(t, n) /\ n \in BlockNumbers /\ n \in 1 .. MaxBlock /\ Sealed(n - 1)
      /\ block[t] \in Blocks /\ \A i \in 0 .. (n - 1) : i \in BlockNumbers /\ i # n
  BY <1>0, LateFacts, Zenon
<1>3. txn \in Txns
  BY <1>0, LateFacts, Miner, Zenon
<1>4. /\ DOMAIN receipts' = DOMAIN receipts \cup {txn}
      /\ receipts'[txn] = new
      /\ \A x \in DOMAIN receipts : x # txn => receipts'[x] = receipts[x]
  <2>1. receipts' = Insert(receipts, txn, new)
    BY <1>2, Zenon DEF StoreReceipt, BlockIs
  <2>2. QED
    BY <2>1, Zenon DEF Insert
<1> HIDE DEF new
<1>5. UNCHANGED << mkvs, block_number, blocks, block_number_to_hash, transactions, todo >>
  BY Zenon DEF StoreReceipt, localVars
<1>6. ChainTypeOK'
  <2>1. new \in LocalizedReceipts
    BY <1>2, <1>3, KeccakFacts, SMTT(20) DEF new, LocalizedReceipt, LocalizedReceipts, Blocks
  <2>2. QED
    BY <1>3, <1>4, <1>5, <2>1, Zenon DEF IInv, TypeOK, ChainTypeOK
<1>7. MinerInv'
  BY <1>0, <1>1, <1>5, Zenon
  DEF IInv, ChainInv, MinerInv, BlockIs, Building, Late, WriterLabels
<1>8. TxnsInv'
  BY <1>5, Zenon DEF IInv, ChainInv, TxnsInv
<1>9. EarlyInv'
  BY <1>1, SMTT(20) DEF EarlyInv, Late
<1>10. LateInv'
  <2>1. /\ DOMAIN blocks = HashesTo(n - 1) /\ DOMAIN transactions = DOMAIN receipts \cup {txn}
        /\ txn \in DOMAIN transactions
        /\ transactions[txn] = LocalizedTxn(n, Keccak[n], txn)
    BY <1>0, Zenon DEF IInv, ChainInv, LateInv
  <2>2. transactions[txn].block_number = n
    BY <2>1 DEF LocalizedTxn
  <2>3. \A i \in 0 .. (n - 1) : BlockOK(i) => BlockOK(i)'
    <3> SUFFICES ASSUME NEW i \in 0 .. (n - 1), BlockOK(i)
                 PROVE  BlockOK(i)'
      BY Zenon
    <3>1. ASSUME NEW x \in Txns, transactions[x] = LocalizedTxn(i, Keccak[i], x)
          PROVE  x # txn
      BY <1>2, <2>2, <3>1 DEF LocalizedTxn
    <3>2. QED
      BY <1>4, <1>5, <3>1, Zenon DEF BlockOK
  <2>4. Sealed(n - 1)'
    BY <1>2, <1>5, <2>3, Zenon DEF Sealed
  <2>5. QED
    BY <1>1, <1>4, <1>5, <2>1, <2>4, Zenon DEF LateInv, Late, WriterLabels, HashesTo, new
<1>11. QED
  BY <1>1, <1>6, <1>7, <1>8, <1>9, <1>10, Zenon DEF IInv, ChainInv, TypeOK

LEMMA StoreBlockIInv ==
  ASSUME IInv, NEW t \in Threads, StoreBlock(t)
  PROVE  IInv'
<1> DEFINE txn == req[t].txn
           n   == block_number
<1>0. pc[t] = "block" /\ pc[t] \in Late /\ "index" \in WriterLabels
  BY Zenon DEF StoreBlock, Late, WriterLabels
<1>1. /\ pc'[t] = "index" /\ req' = req /\ block' = block
      /\ \A u \in Threads \ {t} : pc'[u] = pc[u] /\ pc'[u] \notin WriterLabels
      /\ TasksTypeOK' /\ LockInv'
  BY <1>0, MinerFrame, Zenon DEF StoreBlock, Goto, Late, WriterLabels
<1>2. /\ BlockIs(t, n) /\ n \in BlockNumbers /\ n \in 1 .. MaxBlock /\ Sealed(n - 1)
      /\ block[t] \in Blocks /\ \A i \in 0 .. (n - 1) : i \in BlockNumbers /\ i # n
  BY <1>0, LateFacts, Zenon
<1>3. Keccak[n] \in Hashes /\ \A i \in 0 .. (n - 1) : Keccak[i] # Keccak[n]
  BY <1>2, KeccakFacts, Zenon
<1>4. /\ DOMAIN blocks' = DOMAIN blocks \cup {Keccak[n]}
      /\ blocks'[Keccak[n]] = block[t]
      /\ \A h \in DOMAIN blocks : h # Keccak[n] => blocks'[h] = blocks[h]
  <2>1. blocks' = Insert(blocks, Keccak[n], block[t])
    BY <1>2, Zenon DEF StoreBlock, BlockIs
  <2>2. QED
    BY <2>1, Zenon DEF Insert
<1>5. UNCHANGED << mkvs, block_number, receipts, block_number_to_hash, transactions, todo >>
  BY Zenon DEF StoreBlock, localVars
<1>6. ChainTypeOK'
  BY <1>2, <1>3, <1>4, <1>5, Zenon DEF IInv, TypeOK, ChainTypeOK
<1>7. MinerInv'
  BY <1>0, <1>1, <1>5, Zenon
  DEF IInv, ChainInv, MinerInv, BlockIs, Building, Late, WriterLabels
<1>8. TxnsInv'
  BY <1>5, Zenon DEF IInv, ChainInv, TxnsInv
<1>9. EarlyInv'
  BY <1>1, Zenon DEF EarlyInv, Late
<1>10. LateInv'
  <2>1. /\ DOMAIN blocks = HashesTo(n - 1) /\ DOMAIN transactions = DOMAIN receipts
        /\ txn \in DOMAIN transactions
        /\ transactions[txn] = LocalizedTxn(n, Keccak[n], txn)
        /\ txn \in DOMAIN receipts
        /\ receipts[txn] = LocalizedReceipt(n, Keccak[n], txn, block[t].logs)
    BY <1>0, Zenon DEF IInv, ChainInv, LateInv
  <2>2. Sealed(n - 1)'
    <3>1. \A i \in 0 .. (n - 1) :
            Keccak[i] \in DOMAIN blocks /\ BlockOK(i) => BlockOK(i)'
      BY <1>3, <1>4, <1>5, Zenon DEF BlockOK
    <3>2. QED
      BY <1>2, <1>4, <1>5, <3>1, Zenon DEF Sealed
  <2>3. DOMAIN blocks' = HashesTo(n)
    BY <1>2, <1>4, <2>1 DEF HashesTo
  <2>4. QED
    BY <1>1, <1>4, <1>5, <2>1, <2>2, <2>3, Zenon DEF LateInv, Late, WriterLabels, HashesTo
<1>11. QED
  BY <1>1, <1>6, <1>7, <1>8, <1>9, <1>10, Zenon DEF IInv, ChainInv, TypeOK

(* The last insert completes the chain up to block_number and gives the     *)
(* lock back.                                                               *)
LEMMA StoreIndexIInv ==
  ASSUME IInv, NEW t \in Threads, StoreIndex(t)
  PROVE  IInv'
<1> DEFINE txn == req[t].txn
           n   == block_number
<1>0. pc[t] = "index" /\ pc[t] \in Late
  BY Zenon DEF StoreIndex, Late
<1>1. /\ pc[t] \in WriterLabels
      /\ BlockIs(t, n) /\ n \in BlockNumbers /\ n \in 1 .. MaxBlock /\ Sealed(n - 1)
      /\ \A i \in 0 .. (n - 1) : i \in BlockNumbers /\ i # n
  BY <1>0, LateFacts, Zenon
<1>2. pc' = [pc EXCEPT ![t] = "done"] /\ writers' = writers \ {t}
      /\ readers' = readers /\ poisoned' = poisoned
  BY Zenon DEF StoreIndex, Finish, Goto, ReleaseWrite
<1>3. UNCHANGED << req, since, block, todo, seen, mkvs, block_number, blocks,
                   transactions, receipts >>
  BY Zenon DEF StoreIndex, reqVars, localVars
<1>4. /\ DOMAIN block_number_to_hash' = DOMAIN block_number_to_hash \cup {n}
      /\ block_number_to_hash'[n] = Keccak[n]
      /\ \A i \in DOMAIN block_number_to_hash :
           i # n => block_number_to_hash'[i] = block_number_to_hash[i]
  <2>1. block_number_to_hash' = Insert(block_number_to_hash, n, Keccak[n])
    BY <1>1, Zenon DEF StoreIndex, BlockIs
  <2>2. QED
    BY <2>1, Zenon DEF Insert
<1>5. pc'[t] = "done"
      /\ \A u \in Threads \ {t} : pc'[u] = pc[u] /\ pc'[u] \notin WriterLabels
  BY <1>1, <1>2, Miner, Zenon DEF IInv, TypeOK, TasksTypeOK
<1>6. TypeOK'
  <2>1. TasksTypeOK'
    BY <1>2, <1>3, Zenon DEF IInv, TypeOK, TasksTypeOK, Labels
  <2>2. ChainTypeOK'
    BY <1>1, <1>3, <1>4, KeccakFacts, Zenon DEF IInv, TypeOK, ChainTypeOK
  <2>3. QED
    BY <2>1, <2>2, Zenon DEF TypeOK
<1>7. LockInv'
  BY <1>1, <1>2, OnlyWriter, Zenon
  DEF IInv, TypeOK, TasksTypeOK, LockInv, WriterLabels, ReaderLabels
<1>8. MinerInv' /\ LateInv'
  BY <1>3, <1>5, Zenon
  DEF IInv, ChainInv, MinerInv, LateInv, BlockIs, Building, Late, WriterLabels
<1>9. TxnsInv'
  BY <1>3, SMTT(20) DEF IInv, ChainInv, TxnsInv
<1>10. EarlyInv'
  <2>1. /\ DOMAIN blocks = HashesTo(n) /\ DOMAIN transactions = DOMAIN receipts
        /\ blocks[Keccak[n]] = block[t]
        /\ txn \in DOMAIN transactions
        /\ transactions[txn] = LocalizedTxn(n, Keccak[n], txn)
        /\ txn \in DOMAIN receipts
        /\ receipts[txn] = LocalizedReceipt(n, Keccak[n], txn, block[t].logs)
    BY <1>0, Zenon DEF IInv, ChainInv, LateInv
  <2>2. BlockOK(n)
    BY <1>1, <2>1, Miner DEF BlockOK, BlockIs
  <2>3. \A i \in 0 .. n : BlockOK(i) => BlockOK(i)'
    BY <1>3, Zenon DEF BlockOK
  <2>4. n \in Nat /\ 0 .. n = (0 .. (n - 1)) \cup {n}
    BY <1>1
  <2>5. Sealed(n)'
    <3>1. DOMAIN block_number_to_hash' = 0 .. n
      BY <1>1, <1>4, <2>4, SMTT(20) DEF Sealed
    <3>2. \A i \in 0 .. n : BlockOK(i)' /\ Keccak[i] \in DOMAIN blocks
      BY <1>1, <2>1, <2>2, <2>3, <2>4, Zenon DEF Sealed, HashesTo
    <3>3. \A i \in 0 .. n : block_number_to_hash'[i] = Keccak[i]
      BY <1>1, <1>4, <2>4, Zenon DEF Sealed
    <3>4. QED
      BY <1>3, <3>1, <3>2, <3>3, SMTT(20) DEF Sealed
  <2>6. QED
    BY <1>3, <2>1, <2>5, Zenon DEF EarlyInv, HashesTo
<1>11. QED
  BY <1>6, <1>7, <1>8, <1>9, <1>10, Zenon DEF IInv, ChainInv

-----------------------------------------------------------------------------
LEMMA StepIInv ==
  ASSUME IInv, NEW t \in Threads, Step(t)
  PROVE  IInv'
<1>1. CASE CheckTxn(t)
  BY <1>1, CheckTxnIInv, Zenon
<1>2. CASE MineBlock(t)
  BY <1>2, AcquireWriteIInv, ExecuteIInv, ExecuteErrIInv, MinePanicIInv, CommitKeyIInv,
     SetBlockNumberIInv, StoreTxnIInv, StoreReceiptIInv, StoreBlockIInv, StoreIndexIInv, Zenon
  DEF MineBlock
<1>3. CASE Query(t)
  BY <1>3, QueryIInv, Zenon
<1>4. QED
  BY <1>1, <1>2, <1>3, Zenon DEF Step

LEMMA StutterIInv ==
  ASSUME IInv, UNCHANGED vars
  PROVE  IInv'
<1>1. /\ UNCHANGED << req, since, pc, writers, readers, poisoned, block, todo, seen >>
      /\ UNCHANGED << mkvs, block_number, blocks, block_number_to_hash, transactions, receipts >>
      /\ UNCHANGED mapVars
  BY Zenon DEF vars, reqVars, lockVars, chainVars, mapVars, localVars
<1>2. TypeOK' /\ LockInv'
  BY <1>1, Zenon DEF IInv, TypeOK, TasksTypeOK, ChainTypeOK, LockInv
<1>3. MinerInv' /\ TxnsInv'
  BY <1>1, Zenon DEF IInv, ChainInv, MinerInv, BlockIs, TxnsInv
<1>4. EarlyInv'
  BY <1>1, SealedFrame, Zenon DEF IInv, ChainInv, EarlyInv
<1>5. LateInv'
  <2>1. Sealed(block_number - 1) <=> Sealed(block_number - 1)'
    BY <1>1, SealedFrame, Zenon
  <2>2. QED
    BY <1>1, <2>1, Zenon DEF IInv, ChainInv, LateInv
<1>6. QED
  BY <1>2, <1>3, <1>4, <1>5, Zenon DEF IInv, ChainInv

(* Every step of every thread keeps the inductive invariant. *)
LEMMA NextIInv == IInv /\ [Next]_vars => IInv'
<1> SUFFICES ASSUME IInv, [Next]_vars PROVE IInv'
  BY Zenon
<1>1. CASE UNCHANGED vars
  BY <1>1, StutterIInv, Zenon
<1>2. CASE Next
  <2>1. PICK t \in Threads : (\E r \in Requests : Call(t, r)) \/ Step(t) \/ Return(t)
    BY <1>2, Zenon DEF Next
  <2>2. QED
    BY <2>1, CallIInv, StepIInv, ReturnIInv, Zenon
<1>3. QED
  BY <1>1, <1>2, Zenon

(* At every statement of every thread, the lock is held by whom the program *)
(* counters say, and the maps of ChainState are as far as mine_block has    *)
(* brought them (blockchain.rs:311-446): for any number of threads,         *)
(* accounts, transactions and requests and any bound on the chain.          *)
THEOREM Inductive == Spec => []IInv
BY InitIInv, NextIInv, PTL DEF Spec

(* Type correctness of ChainState and of the tasks' locals. *)
THEOREM TypeCorrect == Spec => []TypeOK
<1>1. IInv => TypeOK
  BY Zenon DEF IInv
<1>2. QED
  BY <1>1, Inductive, PTL

(* Whenever no mine_block is running, the four maps of ChainState and       *)
(* block_number describe the same chain.                                    *)
THEOREM MapsAgreeAlways == Spec => []MapsAgree
<1>1. ASSUME IInv, writers = {}
      PROVE  MapsAgree
  <2>1. /\ Sealed(block_number) /\ DOMAIN blocks = HashesTo(block_number)
        /\ DOMAIN transactions = DOMAIN receipts
    BY <1>1, Zenon DEF IInv, ChainInv, EarlyInv, LockInv, Late, WriterLabels
  <2>2. \A x \in DOMAIN transactions : transactions[x].block_number \in 1 .. block_number
    BY <1>1, Zenon DEF IInv, ChainInv, TxnsInv
  <2>3. block_number \in Nat
    BY <1>1 DEF IInv, TypeOK, ChainTypeOK, BlockNumbers
  <2>4. DOMAIN blocks = { block_number_to_hash[n] : n \in 0 .. block_number }
    BY <2>1, SMTT(20) DEF Sealed, HashesTo
  <2>5. ASSUME NEW n \in 0 .. block_number
        PROVE  LET b == blocks[block_number_to_hash[n]] IN
                 /\ b.number = n /\ b.hash = block_number_to_hash[n]
                 /\ b.parent_hash = IF n = 0 THEN ZeroHash ELSE block_number_to_hash[n - 1]
                 /\ n > 0 =>
                      /\ Len(b.transactions) = 1
                      /\ LET x == b.transactions[1] IN
                           /\ x \in DOMAIN transactions /\ x \in DOMAIN receipts
                           /\ transactions[x] = LocalizedTxn(n, b.hash, x)
                           /\ receipts[x] = LocalizedReceipt(n, b.hash, x, b.logs)
    <3>1. BlockOK(n) /\ block_number_to_hash[n] = Keccak[n]
      BY <2>1, Zenon DEF Sealed
    <3>2. n # 0 => n - 1 \in 0 .. block_number /\ block_number_to_hash[n - 1] = Keccak[n - 1]
      BY <2>1, <2>3 DEF Sealed
    <3>3. CASE n = 0
      BY <3>1, <3>3 DEF BlockOK
    <3>4. CASE n # 0
      <4>1. n > 0
        BY <2>3, <3>4
      <4>2. PICK x \in Txns :
              LET b == blocks[Keccak[n]] IN
                /\ b.transactions = << x >>
                /\ x \in DOMAIN transactions /\ x \in DOMAIN receipts
                /\ transactions[x] = LocalizedTxn(n, Keccak[n], x)
                /\ receipts[x] = LocalizedReceipt(n, Keccak[n], x, b.logs)
        BY <3>1, <4>1, Zenon DEF BlockOK
      <4>3. << x >>[1] = x /\ Len(<< x >>) = 1
        BY Zenon
      <4>4. QED
        BY <3>1, <3>2, <3>4, <4>2, <4>3, Zenon DEF BlockOK
    <3>5. QED
      BY <3>3, <3>4, Zenon
  <2>6. QED
    BY <2>1, <2>2, <2>4, <2>5, Zenon DEF MapsAgree, Sealed
<1>2. IInv => MapsAgree
  BY <1>1, Zenon DEF MapsAgree
<1>3. QED
  BY <1>2, Inductive, PTL

-----------------------------------------------------------------------------
(* What a step of AppendOnly may do. *)
LEMMA SameGrows ==
  ASSUME UNCHANGED << mapVars, block_number >>
  PROVE  /\ Grows(blocks, blocks') /\ Grows(block_number_to_hash, block_number_to_hash')
         /\ Grows(transactions, transactions') /\ Grows(receipts, receipts')
         /\ block_number' \in {block_number, block_number + 1}
BY Zenon DEF mapVars, Grows

LEMMA InsertGrows ==
  ASSUME NEW m, NEW k, NEW v, k \notin DOMAIN m
  PROVE  Grows(m, Insert(m, k, v))
BY Zenon DEF Grows, Insert

(* The keys mine_block inserts are new to the four maps. *)
LEMMA StepAppends ==
  ASSUME IInv, NEW t \in Threads, Step(t)
  PROVE  /\ Grows(blocks, blocks') /\ Grows(block_number_to_hash, block_number_to_hash')
         /\ Grows(transactions, transactions') /\ Grows(receipts, receipts')
         /\ block_number' \in {block_number, block_number + 1}
<1>1. CASE CheckTxn(t)
  BY <1>1, SameGrows, Zenon DEF CheckTxn, chainVars
<1>2. CASE Query(t)
  <2>1. UNCHANGED chainVars
    BY <1>2, Zenon DEF Query, AcquireRead, Lookup, ReadBestNumber, ReadTxnOfBest, ResolveFrom,
                ResolveTo, FetchBlock, BeginSimulation, SimulateRead, SimulateDone,
                SimulateErr, SimulatePanic, TakeState, HandleRead, HandleDone, ReadKey
  <2>2. QED
    BY <2>1, SameGrows, SMTT(20) DEF chainVars
<1>3. CASE AcquireWrite(t) \/ Execute(t) \/ ExecuteErr(t) \/ MinePanic(t) \/ CommitKey(t)
  BY <1>3, SameGrows, Zenon
  DEF AcquireWrite, Execute, ExecuteErr, MinePanic, CommitKey, chainVars
<1>4. CASE SetBlockNumber(t)
  <2>1. BlockIs(t, block_number + 1)
    BY <1>4, Zenon DEF SetBlockNumber, IInv, ChainInv, MinerInv
  <2>2. QED
    BY <1>4, <2>1, Zenon DEF SetBlockNumber, BlockIs, Grows, mapVars
<1>5. CASE StoreTxn(t)
  <2>1. req[t].txn \notin DOMAIN transactions
    BY <1>5, Zenon DEF StoreTxn, IInv, ChainInv, MinerInv
  <2>2. Grows(transactions, transactions')
    BY <1>5, <2>1, InsertGrows, Zenon DEF StoreTxn
  <2>3. QED
    BY <1>5, <2>2, Zenon DEF StoreTxn, Grows
<1>6. CASE StoreReceipt(t)
  <2>1. req[t].txn \notin DOMAIN receipts
    BY <1>6, Zenon DEF StoreReceipt, IInv, ChainInv, LateInv, Late
  <2>2. Grows(receipts, receipts')
    BY <1>6, <2>1, InsertGrows, Zenon DEF StoreReceipt
  <2>3. QED
    BY <1>6, <2>2, Zenon DEF StoreReceipt, Grows
<1>7. CASE StoreBlock(t)
  <2>1. pc[t] = "block" /\ pc[t] \in Late
    BY <1>7, Zenon DEF StoreBlock, Late
  <2>2. DOMAIN blocks = HashesTo(block_number - 1) /\ block[t].hash = Keccak[block_number]
    BY <2>1, LateFacts, Zenon DEF IInv, ChainInv, LateInv, BlockIs
  <2>3. block[t].hash \notin DOMAIN blocks
    BY <2>1, <2>2, LateFacts, KeccakFacts, Zenon DEF HashesTo
  <2>4. Grows(blocks, blocks')
    BY <1>7, <2>3, InsertGrows, Zenon DEF StoreBlock
  <2>5. QED
    BY <1>7, <2>4, Zenon DEF StoreBlock, Grows
<1>8. CASE StoreIndex(t)
  <2>1. pc[t] \in Late
    BY <1>8, Zenon DEF StoreIndex, Late
  <2>2. block[t].number \notin DOMAIN block_number_to_hash
    BY <2>1, LateFacts, Zenon DEF BlockIs, Sealed
  <2>3. Grows(block_number_to_hash, block_number_to_hash')
    BY <1>8, <2>2, InsertGrows, Zenon DEF StoreIndex
  <2>4. QED
    BY <1>8, <2>3, Zenon DEF StoreIndex, Grows
<1>9. QED
  BY <1>1, <1>2, <1>3, <1>4, <1>5, <1>6, <1>7, <1>8, Zenon DEF Step, MineBlock

(* No step of any thread removes or rewrites a block, an index entry, a     *)
(* transaction or a receipt: the HashMap::insert calls of mine_block never  *)
(* meet an existing key.                                                    *)
THEOREM AppendOnlyAlways == Spec => AppendOnly
<1>1. ASSUME IInv, Next
      PROVE  /\ Grows(blocks, blocks') /\ Grows(block_number_to_hash, block_number_to_hash')
             /\ Grows(transactions, transactions') /\ Grows(receipts, receipts')
             /\ block_number' \in {block_number, block_number + 1}
  <2>1. PICK t \in Threads : (\E r \in Requests : Call(t, r)) \/ Step(t) \/ Return(t)
    BY <1>1, Zenon DEF Next
  <2>2. QED
    BY <1>1, <2>1, StepAppends, SameGrows, Zenon DEF Call, Return, chainVars
<1>2. QED
  BY <1>1, Inductive, PTL DEF Spec, AppendOnly

-----------------------------------------------------------------------------
(* The chain as readers see it. *)
LEMMA HeightIs ==
  ASSUME NEW n \in Nat, DOMAIN block_number_to_hash = 0 .. n
  PROVE  Height = n
BY DEF Height

LEMMA ChainHeight ==
  ASSUME IInv
  PROVE  /\ Height \in BlockNumbers /\ Height \in Nat /\ Sealed(Height)
         /\ DOMAIN block_number_to_hash = 0 .. Height
         /\ (\A t \in Threads : pc[t] \notin Late) =>
              /\ Height = block_number
              /\ DOMAIN blocks = HashesTo(Height) /\ DOMAIN transactions = DOMAIN receipts
         /\ \A t \in Threads : pc[t] \in Late => Height = block_number - 1
<1>1. CASE \A t \in Threads : pc[t] \notin Late
  <2>1. /\ Sealed(block_number) /\ block_number \in BlockNumbers
        /\ DOMAIN blocks = HashesTo(block_number) /\ DOMAIN transactions = DOMAIN receipts
    BY <1>1, Zenon DEF IInv, ChainInv, EarlyInv, TypeOK, ChainTypeOK
  <2>2. block_number \in Nat
    BY <2>1, BoundsAssumption DEF BlockNumbers
  <2>3. Height = block_number
    BY <2>1, <2>2, HeightIs, Zenon DEF Sealed
  <2>4. QED
    BY <1>1, <2>1, <2>2, <2>3, Zenon DEF Sealed
<1>2. ASSUME NEW t \in Threads, pc[t] \in Late
      PROVE  /\ Height \in BlockNumbers /\ Height \in Nat /\ Sealed(Height)
             /\ DOMAIN block_number_to_hash = 0 .. Height /\ Height = block_number - 1
  <2>1. Sealed(block_number - 1) /\ block_number - 1 \in Nat /\ block_number - 1 \in BlockNumbers
    BY <1>2, LateFacts, Zenon
  <2>2. Height = block_number - 1
    BY <2>1, HeightIs, Zenon DEF Sealed
  <2>3. QED
    BY <2>1, <2>2, Zenon DEF Sealed
<1>3. QED
  BY <1>1, <1>2, Zenon

(* A step of t leaves the other tasks alone, and no step mends the lock. *)
LEMMA OthersUntouched ==
  ASSUME IInv, Shape, NEW t \in Threads, Step(t) \/ Return(t) \/ \E r \in Requests : Call(t, r)
  PROVE  /\ \A u \in Threads \ {t} : Untouched(u)
         /\ Shape' /\ (poisoned => poisoned')
<1> USE DEF Finish, Goto, reqVars, lockVars, localVars, rangeVars
<1>1. /\ DOMAIN req = Threads /\ DOMAIN since = Threads /\ DOMAIN pc = Threads
      /\ DOMAIN block = Threads /\ DOMAIN todo = Threads /\ DOMAIN seen = Threads
  BY Zenon DEF IInv, TypeOK, TasksTypeOK
<1>2. CASE \E r \in Requests : Call(t, r)
  <2>1. PICK r \in Requests : Call(t, r)
    BY <1>2, Zenon
  <2>2. QED
    BY <1>1, <2>1, Zenon DEF Untouched, Shape, Call
<1>3. CASE Return(t)
  BY <1>1, <1>3, Zenon DEF Untouched, Shape, Return
<1>4. CASE CheckTxn(t)
  BY <1>1, <1>4, Zenon DEF Untouched, Shape, CheckTxn
<1>5. CASE AcquireWrite(t)
  BY <1>1, <1>5, Zenon DEF Untouched, Shape, AcquireWrite
<1>6. CASE Execute(t)
  BY <1>1, <1>6, Zenon DEF Untouched, Shape, Execute, PoisonWrite
<1>7. CASE ExecuteErr(t)
  BY <1>1, <1>7, Zenon DEF Untouched, Shape, ExecuteErr, PoisonWrite, ReleaseWrite
<1>8. CASE MinePanic(t)
  BY <1>1, <1>8, Zenon DEF Untouched, Shape, MinePanic, PoisonWrite
<1>9. CASE CommitKey(t)
  BY <1>1, <1>9, Zenon DEF Untouched, Shape, CommitKey
<1>10. CASE SetBlockNumber(t)
  BY <1>1, <1>10, Zenon DEF Untouched, Shape, SetBlockNumber
<1>11. CASE StoreTxn(t)
  BY <1>1, <1>11, Zenon DEF Untouched, Shape, StoreTxn
<1>12. CASE StoreReceipt(t)
  BY <1>1, <1>12, Zenon DEF Untouched, Shape, StoreReceipt
<1>13. CASE StoreBlock(t)
  BY <1>1, <1>13, Zenon DEF Untouched, Shape, StoreBlock
<1>14. CASE StoreIndex(t)
  BY <1>1, <1>14, Zenon DEF Untouched, Shape, StoreIndex, ReleaseWrite
<1>15. CASE AcquireRead(t)
  BY <1>1, <1>15, Zenon DEF Untouched, Shape, AcquireRead
<1>16. CASE Lookup(t)
  BY <1>1, <1>16, Zenon DEF Untouched, Shape, Lookup, ReleaseRead
<1>17. CASE ReadBestNumber(t)
  BY <1>1, <1>17, Zenon DEF Untouched, Shape, ReadBestNumber, ReleaseRead
<1>18. CASE ReadTxnOfBest(t)
  BY <1>1, <1>18, Zenon DEF Untouched, Shape, ReadTxnOfBest, ReleaseRead
<1>19. CASE ResolveFrom(t)
  BY <1>1, <1>19, Zenon DEF Untouched, Shape, ResolveFrom, ReleaseRead
<1>20. CASE ResolveTo(t)
  BY <1>1, <1>20, Zenon DEF Untouched, Shape, ResolveTo, ReleaseRead
<1>21. CASE FetchBlock(t)
  BY <1>1, <1>21, Zenon DEF Untouched, Shape, FetchBlock, ReleaseRead
<1>22. CASE BeginSimulation(t)
  BY <1>1, <1>22, Zenon DEF Untouched, Shape, BeginSimulation, ReleaseRead
<1>23. CASE SimulateRead(t)
  BY <1>1, <1>23, Zenon DEF Untouched, Shape, SimulateRead, ReadKey
<1>24. CASE SimulateDone(t)
  BY <1>1, <1>24, Zenon DEF Untouched, Shape, SimulateDone, ReleaseRead
<1>25. CASE SimulateErr(t)
  BY <1>1, <1>25, Zenon DEF Untouched, Shape, SimulateErr, ReleaseRead
<1>26. CASE SimulatePanic(t)
  BY <1>1, <1>26, Zenon DEF Untouched, Shape, SimulatePanic, ReleaseRead
<1>27. CASE TakeState(t)
  BY <1>1, <1>27, Zenon DEF Untouched, Shape, TakeState, ReleaseRead
<1>28. CASE HandleRead(t)
  BY <1>1, <1>28, Zenon DEF Untouched, Shape, HandleRead, ReadKey
<1>29. CASE HandleDone(t)
  BY <1>1, <1>29, Zenon DEF Untouched, Shape, HandleDone
<1>30. QED
  BY <1>2, <1>3, <1>4, <1>5, <1>6, <1>7, <1>8, <1>9, <1>10, <1>11, <1>12, <1>13, <1>14,
     <1>15, <1>16, <1>17, <1>18, <1>19, <1>20, <1>21, <1>22, <1>23, <1>24, <1>25, <1>26,
     <1>27, <1>28, <1>29, Zenon
  DEF Step, MineBlock, Query

(* The maps of ChainState only grow. *)
LEMMA MapsGrow ==
  ASSUME IInv, NEW t \in Threads, Step(t) \/ Return(t) \/ \E r \in Requests : Call(t, r)
  PROVE  /\ Grows(blocks, blocks') /\ Grows(block_number_to_hash, block_number_to_hash')
         /\ Grows(transactions, transactions') /\ Grows(receipts, receipts')
<1>1. CASE Step(t)
  BY <1>1, StepAppends, Zenon
<1>2. CASE Return(t) \/ \E r \in Requests : Call(t, r)
  BY <1>2, SameGrows, Zenon DEF Call, Return, chainVars
<1>3. QED
  BY <1>1, <1>2, Zenon

(* What is found in a map is found again. *)
LEMMA FoundAgain ==
  ASSUME NEW m, NEW n, Grows(m, n), NEW k, Get(m, k) # None
  PROVE  Get(n, k) = Get(m, k)
BY Zenon DEF Get, Grows

LEMMA BlockFoundAgain ==
  ASSUME Grows(blocks, blocks'), Grows(block_number_to_hash, block_number_to_hash'),
         NEW n, GetBlockByNumber(n) # None
  PROVE  GetBlockByNumber(n)' = GetBlockByNumber(n)
<1>1. n \in DOMAIN block_number_to_hash
  BY Zenon DEF GetBlockByNumber
<1>2. n \in DOMAIN block_number_to_hash' /\ block_number_to_hash'[n] = block_number_to_hash[n]
  BY <1>1, Zenon DEF Grows
<1>3. QED
  BY <1>1, <1>2, FoundAgain, Zenon DEF GetBlockByNumber

(* An answer that the chain bears out stays borne out while the chain grows. *)
LEMMA BornOutKept ==
  ASSUME NEW r, NEW x, BornOut(r, x),
         Grows(blocks, blocks'), Grows(block_number_to_hash, block_number_to_hash'),
         Grows(transactions, transactions'), Grows(receipts, receipts')
  PROVE  BornOut(r, x)'
<1>1. ASSUME r.op = "send"
      PROVE  /\ x \in DOMAIN transactions' /\ x \in DOMAIN receipts'
             /\ GetBlockByNumber(receipts[x].block_number)' # None
             /\ GetBlockByNumber(receipts[x].block_number)'[1].transactions = << x >>
  <2>1. /\ x \in DOMAIN transactions /\ x \in DOMAIN receipts
        /\ GetBlockByNumber(receipts[x].block_number) # None
        /\ GetBlockByNumber(receipts[x].block_number)[1].transactions = << x >>
    BY <1>1, Zenon DEF BornOut
  <2>2. receipts'[x] = receipts[x] /\ x \in DOMAIN transactions' /\ x \in DOMAIN receipts'
    BY <2>1, Zenon DEF Grows
  <2>3. PICK i : i = receipts[x].block_number
    BY Zenon
  <2>4. GetBlockByNumber(i)' = GetBlockByNumber(i)
    BY <2>1, <2>3, BlockFoundAgain, Zenon DEF GetBlockByNumber
  <2>5. GetBlockByNumber(receipts[x].block_number)' = GetBlockByNumber(i)'
    BY <2>2, <2>3, Zenon DEF GetBlockByNumber
  <2>6. QED
    BY <2>1, <2>2, <2>3, <2>4, <2>5, Zenon
<1>2. ASSUME r.op = "block", x # None
      PROVE  GetBlockByNumber(x[1].number)' = x /\ Get(blocks', x[1].hash) = x
  <2>1. GetBlockByNumber(x[1].number) = x /\ Get(blocks, x[1].hash) = x
    BY <1>2, Zenon DEF BornOut
  <2>2. PICK i : i = x[1].number
    BY Zenon
  <2>3. GetBlockByNumber(i)' = GetBlockByNumber(i)
    BY <1>2, <2>1, <2>2, BlockFoundAgain, Zenon DEF GetBlockByNumber
  <2>4. GetBlockByNumber(x[1].number)' = GetBlockByNumber(i)'
    BY <2>2, Zenon DEF GetBlockByNumber
  <2>5. Get(blocks', x[1].hash) = x
    BY <1>2, <2>1, FoundAgain, Zenon
  <2>6. QED
    BY <2>1, <2>2, <2>3, <2>4, <2>5, Zenon
<1>3. ASSUME r.op = "txn", x # None
      PROVE  Get(transactions', r.txn) = x
  <2>1. Get(transactions, r.txn) = x
    BY <1>3, Zenon DEF BornOut
  <2>2. QED
    BY <1>3, <2>1, FoundAgain, Zenon
<1>4. ASSUME r.op = "receipt", x # None
      PROVE  Get(receipts', r.txn) = x
  <2>1. Get(receipts, r.txn) = x
    BY <1>4, Zenon DEF BornOut
  <2>2. QED
    BY <1>4, <2>1, FoundAgain, Zenon
<1>5. ASSUME r.op = "txnAt", x # None
      PROVE  Get(transactions', x[1].signed) = x
  <2>1. Get(transactions, x[1].signed) = x
    BY <1>5, Zenon DEF BornOut
  <2>2. QED
    BY <1>5, <2>1, FoundAgain, Zenon
<1>6. QED
  BY <1>1, <1>2, <1>3, <1>4, <1>5, Zenon DEF BornOut

(* A task keeps what it holds and its answer through a step of another one. *)
LEMMA OthersKept ==
  ASSUME NEW u \in Threads, Progress(u), Answer(u), Untouched(u),
         poisoned => poisoned', pc[u] = "simulate" => mkvs' = mkvs,
         Grows(blocks, blocks'), Grows(block_number_to_hash, block_number_to_hash'),
         Grows(transactions, transactions'), Grows(receipts, receipts')
  PROVE  Progress(u)' /\ Answer(u)'
<1>1. \A n : Reached(n) => Reached(n)'
  BY Zenon DEF Reached, Grows
<1>2. ASSUME pc[u] = "simulate"
      PROVE  { << a, mkvs'[a] >> : a \in req[u].keys \ todo[u] }
               = { << a, mkvs[a] >> : a \in req[u].keys \ todo[u] }
  BY <1>2, Zenon
<1>3. Progress(u)'
  BY <1>1, <1>2, Zenon DEF Progress, Untouched
<1>4. Answer(u)'
  <2>1. BornOut(req[u], res[u].val) => BornOut(req[u], res[u].val)'
    <3>1. PICK r, x : r = req[u] /\ x = res[u].val
      BY Zenon
    <3>2. BornOut(r, x) => BornOut(r, x)'
      BY BornOutKept, Zenon DEF BornOut
    <3>3. QED
      BY <3>1, <3>2, Zenon DEF Untouched, BornOut
  <2>2. QED
    BY <2>1, Zenon DEF Answer, Untouched
<1>5. QED
  BY <1>3, <1>4, Zenon

LEMMA QueryFields ==
  ASSUME NEW r \in Requests
  PROVE  /\ r.op \in {"send", "block", "txn", "receipt", "txnAt", "logs", "simulate", "state"}
         /\ r.op \in {"send", "txn", "receipt"} => r.txn \in Txns
         /\ r.op \in {"block", "txnAt"} => r.id \in BlockIds
         /\ r.op = "txnAt" => r.index \in Nat
         /\ r.op = "logs" => r.from \in BlockIds /\ r.to \in BlockIds
BY RequestsAssumption, Zenon DEF RequestType

LEMMA ReplyFields ==
  /\ Panicked # NoReply /\ Panicked.tag # "ok"
  /\ \A x : /\ Ok(x) # NoReply /\ Ok(x) # Panicked /\ Ok(x).tag = "ok" /\ Ok(x).val = x
            /\ Err(x) # NoReply /\ Err(x) # Panicked /\ Err(x).tag # "ok"
  /\ \A x, y : Ok(x) # Err(y) /\ (Ok(x) = Ok(y) => x = y)
BY Zenon DEF Ok, Err, Panicked, NoReply

LEMMA OptionFacts ==
  \A x, y : Some(x) # None /\ Some(x)[1] = x /\ (Some(x) = Some(y) => x = y)
BY Zenon DEF Some, None

(* A task that holds the read lock sees a complete chain. *)
LEMMA ReaderSees ==
  ASSUME IInv, NEW t \in Threads, pc[t] \in ReaderLabels
  PROVE  /\ Sealed(block_number) /\ DOMAIN blocks = HashesTo(block_number)
         /\ block_number \in Nat /\ block_number \in BlockNumbers
         /\ DOMAIN transactions = DOMAIN receipts
         /\ \A u \in Threads : pc[u] \notin Late
<1>1. \A u \in Threads : pc[u] \notin Late
  BY NoWriter, Zenon DEF IInv, Late, WriterLabels
<1>2. block_number \in BlockNumbers
  BY Zenon DEF IInv, TypeOK, ChainTypeOK
<1>3. QED
  BY <1>1, <1>2, BoundsAssumption DEF IInv, ChainInv, EarlyInv, BlockNumbers

(* A block found by its number. *)
LEMMA FoundByNumber ==
  ASSUME NEW n \in Nat, Sealed(n), NEW i \in 0 .. n
  PROVE  /\ GetBlockByNumber(i) = Some(blocks[Keccak[i]]) /\ GetBlockByNumber(i) # None
         /\ Keccak[i] \in DOMAIN blocks
         /\ blocks[Keccak[i]].number = i /\ blocks[Keccak[i]].hash = Keccak[i]
         /\ i > 0 => \E x \in Txns :
                       /\ blocks[Keccak[i]].transactions = << x >>
                       /\ Get(transactions, x) = Some(LocalizedTxn(i, Keccak[i], x))
<1>1. /\ i \in DOMAIN block_number_to_hash /\ block_number_to_hash[i] = Keccak[i]
      /\ Keccak[i] \in DOMAIN blocks /\ BlockOK(i)
  BY Zenon DEF Sealed
<1>2. GetBlockByNumber(i) = Some(blocks[Keccak[i]])
  BY <1>1, Zenon DEF GetBlockByNumber, Get
<1>3. i > 0 => \E x \in Txns :
                 /\ blocks[Keccak[i]].transactions = << x >>
                 /\ Get(transactions, x) = Some(LocalizedTxn(i, Keccak[i], x))
  BY <1>1, Zenon DEF BlockOK, Get
<1>4. QED
  BY <1>1, <1>2, <1>3, OptionFacts, Zenon DEF BlockOK

LEMMA LatestTag ==
  ASSUME NEW id \in BlockIds
  PROVE  id.tag = "latest" <=> id = Latest
BY DEF BlockIds, Latest

(* get_block finds a block of the chain, and always one for Latest. *)
LEMMA FoundById ==
  ASSUME IInv, NEW t \in Threads, pc[t] \in ReaderLabels, NEW id \in BlockIds
  PROVE  /\ \/ GetBlock(id) = None
            \/ \E i \in 0 .. block_number : GetBlock(id) = Some(blocks[Keccak[i]])
         /\ ~ ExpectFails(id)
<1>1. /\ Sealed(block_number) /\ DOMAIN blocks = HashesTo(block_number)
      /\ block_number \in Nat /\ block_number \in 0 .. block_number
  BY ReaderSees
<1>2. CASE id = Latest
  <2>1. GetBlock(id) = GetBlockByNumber(block_number)
    BY <1>2, Zenon DEF GetBlock, Latest
  <2>2. QED
    BY <1>1, <2>1, FoundByNumber, Zenon DEF ExpectFails
<1>3. CASE id \in [tag : {"number"}, number : Nat]
  <2>1. id.tag = "number" /\ id.tag # "latest"
    BY <1>3, Zenon
  <2>2. GetBlock(id) = GetBlockByNumber(id.number)
    BY <2>1, Zenon DEF GetBlock
  <2>3. id.number \notin 0 .. block_number => GetBlock(id) = None
    BY <1>1, <2>2, Zenon DEF GetBlockByNumber, Sealed
  <2>4. id.number \in 0 .. block_number => GetBlock(id) = Some(blocks[Keccak[id.number]])
    <3> SUFFICES ASSUME id.number \in 0 .. block_number
                 PROVE  GetBlockByNumber(id.number) = Some(blocks[Keccak[id.number]])
      BY <2>2, Zenon
    <3> QED
      BY <1>1, FoundByNumber, Zenon
  <2>5. ~ ExpectFails(id)
    BY <2>1, Zenon DEF ExpectFails
  <2>6. QED
    BY <2>3, <2>4, <2>5, Zenon
<1>4. CASE id \in [tag : {"hash"}, hash : Hashes]
  <2>1. id.tag = "hash" /\ id.tag # "latest"
    BY <1>4, Zenon
  <2>2. GetBlock(id) = Get(blocks, id.hash)
    BY <2>1, Zenon DEF GetBlock
  <2>3. QED
    BY <1>1, <2>1, <2>2, Zenon DEF Get, HashesTo, ExpectFails
<1>5. QED
  BY <1>2, <1>3, <1>4, Zenon DEF BlockIds

-----------------------------------------------------------------------------
(* A task that gets its reply holds nothing else. *)
LEMMA Finished ==
  ASSUME NEW t \in Threads, Progress(t), pc[t] # "idle", Shape,
         t \in DOMAIN pc, NEW x, x # NoReply, Finish(t, x),
         req'[t] = req[t], since'[t] = since[t],
         Grows(block_number_to_hash, block_number_to_hash')
  PROVE  Progress(t)' /\ pc'[t] = "done" /\ res'[t] = x
<1>1. pc'[t] = "done" /\ res'[t] = x
  BY Zenon DEF Finish, Goto, Shape
<1>2. Reached(since[t])'
  BY Zenon DEF Progress, Reached, Grows
<1>3. QED
  BY <1>1, <1>2, Zenon DEF Progress, WriterLabels, Reached

(* The task dies, or is refused. *)
LEMMA NoAnswer ==
  ASSUME NEW t \in Threads, NEW x, res'[t] = x,
         \/ x = Panicked /\ (poisoned' \/ req'[t].op = "simulate")
         \/ \E e : x = Err(e)
  PROVE  Answer(t)'
<1>1. x.tag # "ok" /\ x # Ok(None)
  BY ReplyFields, Zenon
<1>2. x = Panicked => poisoned' \/ req'[t].op = "simulate"
  BY ReplyFields, Zenon
<1>3. QED
  BY <1>1, <1>2, Zenon DEF Answer

(* The task has an answer. *)
LEMMA Answered ==
  ASSUME NEW t \in Threads, NEW x, res'[t] = Ok(x), req'[t] = req[t],
         BornOut(req[t], x)', req[t].op # "txnAt"
  PROVE  Answer(t)'
<1>1. req'[t] # [op |-> "txnAt", id |-> Latest, index |-> 0]
  OBVIOUS
<1>2. BornOut(req[t], res[t].val)'
  BY ReplyFields, Zenon DEF BornOut
<1>3. QED
  BY <1>1, <1>2, ReplyFields, Zenon DEF Answer

LEMMA AnsweredAt ==
  ASSUME NEW t \in Threads, NEW x, res'[t] = Ok(x), req'[t] = req[t], BornOut(req[t], x)',
         req[t].id # Latest \/ req[t].index # 0 \/ x # None \/ from'[t] = Some(0)
  PROVE  Answer(t)'
<1>1. BornOut(req[t], res[t].val)'
  BY ReplyFields, Zenon DEF BornOut
<1>2. req[t] = [op |-> "txnAt", id |-> Latest, index |-> 0] =>
        req[t].id = Latest /\ req[t].index = 0
  OBVIOUS
<1>3. QED
  BY <1>1, <1>2, ReplyFields, Zenon DEF Answer

(* The task goes on without an answer. *)
LEMMA GoesOn ==
  ASSUME NEW t \in Threads, Progress(t), pc[t] \notin {"idle", "done"}, res'[t] = res[t],
         pc'[t] \notin {"idle", "done"}, req'[t] = req[t], since'[t] = since[t],
         Grows(block_number_to_hash, block_number_to_hash')
  PROVE  /\ (pc'[t] = "idle" <=> req'[t] = NoRequest)
         /\ (pc'[t] = "done" <=> res'[t] # NoReply)
         /\ Reached(since[t])' /\ Answer(t)'
<1>1. res'[t] = NoReply /\ req'[t] # NoRequest
  BY Zenon DEF Progress
<1>2. Reached(since[t])'
  BY Zenon DEF Progress, Reached, Grows
<1>3. Answer(t)'
  BY <1>1, ReplyFields, Zenon DEF Answer
<1>4. QED
  BY <1>1, <1>2, <1>3, Zenon

LEMMA MiningGoesOn ==
  ASSUME NEW t \in Threads, Progress(t),
         pc[t] \in {"check", "write"} \cup WriterLabels,
         NEW l \in {"write"} \cup WriterLabels, t \in DOMAIN pc, Goto(t, l),
         Refusal(req[t].txn) = None,
         res'[t] = res[t], req'[t] = req[t], since'[t] = since[t], seen'[t] = seen[t],
         Grows(block_number_to_hash, block_number_to_hash')
  PROVE  Progress(t)' /\ Answer(t)'
<1>1. pc'[t] = l
  BY Zenon DEF Goto
<1>2. /\ pc[t] \notin {"idle", "done", "simulate", "handle"}
      /\ l \notin {"idle", "done", "read2", "reading2", "fetch", "fetching", "simulate", "handle"}
  BY Zenon DEF WriterLabels
<1>3. seen'[t] = {}
  BY <1>2, Zenon DEF Progress
<1>4. QED
  BY <1>1, <1>2, <1>3, GoesOn, Zenon DEF Progress

(* Submitting a transaction, up to the last insert of mine_block. *)
LEMMA MiningOwn ==
  ASSUME IInv, Shape, PoisonInv, NEW t \in Threads, Progress(t),
         \/ CheckTxn(t) \/ AcquireWrite(t) \/ Execute(t) \/ ExecuteErr(t) \/ MinePanic(t)
         \/ CommitKey(t) \/ SetBlockNumber(t) \/ StoreTxn(t) \/ StoreReceipt(t) \/ StoreBlock(t)
  PROVE  Progress(t)' /\ Answer(t)'
<1> USE DEF reqVars, lockVars, localVars
<1>0. /\ Grows(block_number_to_hash, block_number_to_hash') /\ t \in DOMAIN pc
      /\ \A u : Panicked # NoReply /\ Err(u) # NoReply
  BY MapsGrow, ReplyFields, Zenon DEF IInv, TypeOK, TasksTypeOK, Step, MineBlock
<1>1. CASE CheckTxn(t)
  <2>1. pc[t] = "check" /\ req' = req /\ since' = since /\ seen' = seen
    BY <1>1, Zenon DEF CheckTxn
  <2>2. CASE Refusal(req[t].txn) = None
    BY <1>0, <1>1, <2>1, <2>2, MiningGoesOn, Zenon DEF CheckTxn
  <2>3. CASE Refusal(req[t].txn) # None
    <3>1. PICK e : Finish(t, Err(e))
      BY <1>1, <2>3, Zenon DEF CheckTxn
    <3>2. QED
      BY <1>0, <2>1, <3>1, Finished, NoAnswer, Zenon
  <2>4. QED
    BY <2>2, <2>3, Zenon
<1>2. CASE AcquireWrite(t)
  <2>1. pc[t] = "write" /\ req' = req /\ since' = since /\ seen' = seen /\ poisoned' = poisoned
    BY <1>2, Zenon DEF AcquireWrite
  <2>2. Refusal(req[t].txn) = None
    BY <2>1, Zenon DEF Progress
  <2>3. CASE poisoned
    BY <1>0, <1>2, <2>1, <2>3, Finished, NoAnswer, Zenon DEF AcquireWrite
  <2>4. CASE ~ poisoned
    BY <1>0, <1>2, <2>1, <2>2, <2>4, MiningGoesOn, Zenon DEF AcquireWrite, WriterLabels
  <2>5. QED
    BY <2>3, <2>4, Zenon
<1>3. CASE pc[t] \in WriterLabels /\ PoisonWrite(t) /\ req' = req /\ since' = since
  BY <1>0, <1>3, Finished, NoAnswer, Zenon DEF PoisonWrite, WriterLabels
<1>4. CASE Execute(t) \/ ExecuteErr(t) \/ MinePanic(t)
  <2>1. pc[t] \in WriterLabels /\ req' = req /\ since' = since /\ seen' = seen
    BY <1>4, Zenon DEF Execute, ExecuteErr, MinePanic, WriterLabels
  <2>2. CASE PoisonWrite(t)
    BY <1>3, <2>1, <2>2, Zenon
  <2>3. CASE ~ PoisonWrite(t) /\ Execute(t)
    <3>1. Goto(t, "commit") /\ res' = res
      BY <2>3, Zenon DEF Execute
    <3>2. Refusal(req[t].txn) = None
      BY <2>1, Zenon DEF Progress
    <3>3. QED
      BY <1>0, <2>1, <3>1, <3>2, MiningGoesOn, Zenon DEF WriterLabels
  <2>4. CASE ~ PoisonWrite(t) /\ ExecuteErr(t)
    <3>1. Finish(t, Err("not executed"))
      BY <2>4, Zenon DEF ExecuteErr
    <3>2. QED
      BY <1>0, <2>1, <3>1, Finished, NoAnswer, Zenon DEF WriterLabels
  <2>5. QED
    BY <1>4, <2>2, <2>3, <2>4, Zenon DEF MinePanic
<1>5. CASE \/ CommitKey(t) \/ SetBlockNumber(t) \/ StoreTxn(t) \/ StoreReceipt(t)
           \/ StoreBlock(t)
  <2>1. /\ pc[t] \in WriterLabels /\ req' = req /\ since' = since /\ seen' = seen /\ res' = res
        /\ \E l \in WriterLabels : Goto(t, l)
    BY <1>5, Zenon
    DEF CommitKey, SetBlockNumber, StoreTxn, StoreReceipt, StoreBlock, WriterLabels
  <2>2. Refusal(req[t].txn) = None
    BY <2>1, Zenon DEF Progress
  <2>3. QED
    BY <1>0, <2>1, <2>2, MiningGoesOn, Zenon
<1>6. QED
  BY <1>1, <1>2, <1>4, <1>5, Zenon

(* The last insert of mine_block, and the answer to send_raw_transaction. *)
LEMMA StoreIndexOwn ==
  ASSUME IInv, Shape, NEW t \in Threads, Progress(t), StoreIndex(t)
  PROVE  Progress(t)' /\ Answer(t)'
<1>n. PICK n, x : n = block_number /\ x = req[t].txn
  BY Zenon
<1>0. /\ Grows(block_number_to_hash, block_number_to_hash') /\ t \in DOMAIN pc
      /\ pc[t] = "index" /\ pc[t] \in Late /\ pc[t] \in WriterLabels
  BY MapsGrow, Zenon
  DEF IInv, TypeOK, TasksTypeOK, Step, MineBlock, StoreIndex, Late, WriterLabels
<1>1. Progress(t)' /\ res'[t] = Ok(x) /\ req' = req
  BY <1>0, <1>n, Finished, ReplyFields, Zenon DEF StoreIndex, reqVars
<1>2. /\ x \in DOMAIN transactions /\ x \in DOMAIN receipts
      /\ receipts[x] = LocalizedReceipt(n, Keccak[n], x, block[t].logs)
      /\ DOMAIN blocks = HashesTo(n) /\ blocks[Keccak[n]] = block[t]
      /\ DOMAIN transactions = DOMAIN receipts
  <2>1. LateInv
    BY Zenon DEF IInv, ChainInv
  <2>2. QED
    BY <1>0, <1>n, <2>1, Zenon DEF LateInv
<1>3. receipts[x].block_number = n
  BY <1>2 DEF LocalizedReceipt
<1>4. block[t].number = n /\ block[t].hash = Keccak[n] /\ block[t].transactions = << x >>
      /\ n \in Nat
  BY <1>0, <1>n, LateFacts DEF BlockIs
<1>5. n \in DOMAIN block_number_to_hash' /\ block_number_to_hash'[n] = Keccak[n]
  <2>1. block_number_to_hash' = Insert(block_number_to_hash, n, Keccak[n])
    BY <1>4, Zenon DEF StoreIndex
  <2>2. QED
    BY <2>1, Zenon DEF Insert
<1>6. Keccak[n] \in DOMAIN blocks
  BY <1>2, <1>4 DEF HashesTo
<1>7. GetBlockByNumber(receipts[x].block_number)' = Some(block[t])
  <2>1. receipts'[x].block_number = n /\ blocks' = blocks
    BY <1>3, Zenon DEF StoreIndex
  <2>2. QED
    BY <1>2, <1>5, <1>6, <2>1, Zenon DEF GetBlockByNumber, Get
<1>8. /\ GetBlockByNumber(receipts[x].block_number)' # None
      /\ GetBlockByNumber(receipts[x].block_number)'[1].transactions = << x >>
  BY <1>4, <1>7, OptionFacts, Zenon
<1>9. req[t].op = "send"
  BY <1>0, Miner, Zenon
<1>10. BornOut(req[t], x)'
  BY <1>1, <1>2, <1>8, <1>9, Zenon DEF StoreIndex, BornOut
<1>11. QED
  BY <1>1, <1>9, <1>10, Answered, Zenon

LEMMA CallOwn ==
  ASSUME IInv, Shape, NEW t \in Threads, Progress(t), NEW r \in Requests, Call(t, r)
  PROVE  Progress(t)' /\ Answer(t)'
<1>1. /\ DOMAIN pc = Threads /\ DOMAIN req = Threads /\ DOMAIN since = Threads
      /\ Reached(Height) /\ r # NoRequest
  BY ChainHeight, RequestFields DEF IInv, TypeOK, TasksTypeOK, Reached
<1>2. pc[t] = "idle" /\ res[t] = NoReply /\ seen[t] = {}
  BY Zenon DEF Call, Progress
<1>3. /\ pc'[t] \in {"check", "read"} /\ req'[t] = r /\ since'[t] = Height
      /\ res'[t] = NoReply /\ seen'[t] = {}
  BY <1>1, <1>2, Zenon DEF Call, Goto, localVars
<1>4. Reached(since[t])'
  BY <1>1, <1>3, Zenon DEF Call, Reached, chainVars, mapVars
<1>5. Progress(t)'
  BY <1>1, <1>3, <1>4, Zenon DEF Progress, WriterLabels
<1>6. QED
  BY <1>3, <1>5, ReplyFields, Zenon DEF Answer

LEMMA ReturnOwn ==
  ASSUME IInv, Shape, NEW t \in Threads, Progress(t), Return(t)
  PROVE  Progress(t)' /\ Answer(t)'
<1>1. /\ DOMAIN pc = Threads /\ DOMAIN req = Threads /\ DOMAIN since = Threads
      /\ DOMAIN seen = Threads /\ Reached(0)
  BY ChainHeight DEF IInv, TypeOK, TasksTypeOK, Reached
<1>2. /\ pc'[t] = "idle" /\ req'[t] = NoRequest /\ since'[t] = 0
      /\ res'[t] = NoReply /\ seen'[t] = {}
  BY <1>1, Zenon DEF Return, Goto, Shape
<1>3. Reached(since[t])'
  BY <1>1, <1>2, Zenon DEF Return, Reached, chainVars, mapVars
<1>4. Progress(t)'
  BY <1>2, <1>3, Zenon DEF Progress, WriterLabels
<1>5. QED
  BY <1>2, <1>4, ReplyFields, Zenon DEF Answer

(* Waiting for the read lock. *)
LEMMA AcquireReadOwn ==
  ASSUME IInv, Shape, NEW t \in Threads, Progress(t), AcquireRead(t)
  PROVE  Progress(t)' /\ Answer(t)'
<1> USE DEF reqVars, localVars, rangeVars
<1>0. /\ Grows(block_number_to_hash, block_number_to_hash') /\ t \in DOMAIN pc
      /\ pc[t] \in Waiting /\ pc[t] \notin {"idle", "done"}
  BY MapsGrow, Zenon DEF IInv, TypeOK, TasksTypeOK, Step, Query, AcquireRead, Waiting
<1>1. req' = req /\ since' = since /\ seen' = seen /\ from' = from /\ upto' = upto
      /\ poisoned' = poisoned
  BY Zenon DEF AcquireRead
<1>2. CASE poisoned
  BY <1>0, <1>1, <1>2, Finished, NoAnswer, ReplyFields, Zenon DEF AcquireRead
<1>3. CASE ~ poisoned
  <2>1. /\ pc[t] = "read" => pc'[t] = "reading"
        /\ pc[t] = "read2" => pc'[t] = "reading2"
        /\ pc[t] = "fetch" => pc'[t] = "fetching"
        /\ res' = res
    BY <1>0, <1>3, Zenon DEF AcquireRead, Goto, Holding
  <2>2. pc'[t] \notin {"idle", "done"}
    BY <1>0, <2>1, Zenon DEF Waiting
  <2>3. /\ (pc'[t] = "idle" <=> req'[t] = NoRequest)
        /\ (pc'[t] = "done" <=> res'[t] # NoReply)
        /\ Reached(since[t])' /\ Answer(t)'
    BY <1>0, <1>1, <2>1, <2>2, GoesOn, Zenon
  <2>4. \A n : Reached(n) => Reached(n)'
    BY <1>0, Zenon DEF Reached, Grows
  <2>5. Progress(t)'
    BY <1>0, <1>1, <2>1, <2>3, <2>4, Zenon DEF Progress, Waiting, WriterLabels, Reached
  <2>6. QED
    BY <2>3, <2>5, Zenon
<1>4. QED
  BY <1>2, <1>3, Zenon

(* A transaction found in a block is found by its hash too. *)
LEMMA TxnFound ==
  ASSUME NEW n \in Nat, Sealed(n), GenesisInv, NEW i \in 0 .. n, NEW index \in Nat
  PROVE  LET y == TxnIn(Some(blocks[Keccak[i]]), index) IN
           /\ y # None => Get(transactions, y[1].signed) = y
           /\ i > 0 /\ index = 0 => y # None
<1> DEFINE b == blocks[Keccak[i]]
           y == TxnIn(Some(b), index)
<1>1. y = IF index + 1 \in DOMAIN b.transactions
          THEN Some(LocalizedTxn(b.number, b.hash, b.transactions[index + 1])) ELSE None
  BY OptionFacts, Zenon DEF TxnIn
<1>2. b.number = i /\ b.hash = Keccak[i]
  BY FoundByNumber, Zenon
<1>3. CASE i = 0
  <2>1. b.transactions = << >>
    BY <1>3 DEF GenesisInv, Genesis
  <2>2. QED
    BY <1>1, <1>3, <2>1
<1>4. CASE i # 0
  <2>1. PICK x \in Txns : /\ b.transactions = << x >>
                          /\ Get(transactions, x) = Some(LocalizedTxn(i, Keccak[i], x))
    <3>1. i > 0
      BY <1>4
    <3>2. QED
      BY <3>1, FoundByNumber, Zenon
  <2> HIDE DEF b, y
  <2>2. /\ index + 1 \in DOMAIN b.transactions <=> index = 0
        /\ b.transactions[1] = x
    BY <2>1
  <2>3. index = 0 => y = Some(LocalizedTxn(i, Keccak[i], x))
    BY <1>1, <1>2, <2>2
  <2>4. index # 0 => y = None
    BY <1>1, <2>2, Zenon
  <2>5. Some(LocalizedTxn(i, Keccak[i], x))[1].signed = x
    BY Zenon DEF LocalizedTxn, Some
  <2>6. (y # None => Get(transactions, y[1].signed) = y) /\ (i > 0 /\ index = 0 => y # None)
    BY <2>1, <2>3, <2>4, <2>5, OptionFacts, Zenon
  <2>7. QED
    BY <2>6, Zenon DEF y, b
<1>5. QED
  BY <1>3, <1>4, Zenon

(* Queries that are answered after one look at the maps. *)
LEMMA LookupOwn ==
  ASSUME IInv, Shape, GenesisInv, NEW t \in Threads, Progress(t), Lookup(t)
  PROVE  Progress(t)' /\ Answer(t)'
<1>0. /\ Grows(block_number_to_hash, block_number_to_hash') /\ t \in DOMAIN pc
      /\ pc[t] = "reading" /\ pc[t] \in ReaderLabels /\ req' = req /\ since' = since
      /\ UNCHANGED << chainVars, mapVars >>
  BY MapsGrow, Zenon
  DEF IInv, TypeOK, TasksTypeOK, Step, Query, Lookup, ReaderLabels, reqVars, chainVars
<1>1. req[t] \in Requests
  BY <1>0, Zenon DEF Progress, IInv, TypeOK, TasksTypeOK
<1>2. /\ Sealed(block_number) /\ block_number \in Nat
  BY <1>0, ReaderSees, Zenon
<1>3. ASSUME NEW x, Finish(t, Ok(x)), BornOut(req[t], x), req[t].op # "txnAt"
      PROVE  Progress(t)' /\ Answer(t)'
  <2>1. Progress(t)' /\ res'[t] = Ok(x)
    BY <1>0, <1>3, Finished, ReplyFields, Zenon
  <2>2. BornOut(req[t], x)'
    <3>1. PICK r : r = req[t]
      BY Zenon
    <3>2. BornOut(r, x)'
      BY <1>0, <1>3, <3>1, Zenon DEF BornOut, GetBlockByNumber, mapVars
    <3>3. QED
      BY <1>0, <3>1, <3>2, Zenon DEF BornOut
  <2>3. QED
    BY <1>0, <1>3, <2>1, <2>2, Answered, Zenon
<1>4. CASE req[t].op = "block"
  <2>1. req[t].id \in BlockIds
    BY <1>1, <1>4, QueryFields, Zenon
  <2>2. ~ ExpectFails(req[t].id)
    BY <1>0, <2>1, FoundById, Zenon
  <2>3. Finish(t, Ok(GetBlock(req[t].id)))
    BY <1>4, <2>2, Zenon DEF Lookup
  <2>4. PICK x : x = GetBlock(req[t].id)
    BY Zenon
  <2>5. BornOut(req[t], x)
    <3>1. CASE x = None
      BY <1>4, <3>1, Zenon DEF BornOut
    <3>2. ASSUME NEW i \in 0 .. block_number, x = Some(blocks[Keccak[i]])
          PROVE  GetBlockByNumber(x[1].number) = x /\ Get(blocks, x[1].hash) = x
      <4>1. /\ GetBlockByNumber(i) = x /\ x[1].number = i /\ x[1].hash = Keccak[i]
            /\ Keccak[i] \in DOMAIN blocks
        BY <1>2, <3>2, FoundByNumber, OptionFacts, Zenon
      <4>2. QED
        BY <3>2, <4>1, Zenon DEF Get
    <3>3. QED
      BY <1>0, <1>4, <2>1, <2>4, <3>1, <3>2, FoundById, Zenon DEF BornOut
  <2>6. QED
    BY <1>3, <1>4, <2>3, <2>4, <2>5, Zenon
<1>5. CASE req[t].op = "txn"
  BY <1>3, <1>5, Zenon DEF Lookup, BornOut
<1>6. CASE req[t].op = "receipt"
  BY <1>3, <1>6, Zenon DEF Lookup, BornOut
<1>7. CASE req[t].op = "txnAt"
  <2>1. req[t].id \in BlockIds /\ req[t].index \in Nat
    BY <1>1, <1>7, QueryFields, Zenon
  <2>2. PICK x : x = TxnIn(GetBlock(req[t].id), req[t].index)
    BY Zenon
  <2>3. Finish(t, Ok(x)) /\ req[t].id # Latest
    BY <1>7, <2>2, Zenon DEF Lookup
  <2>4. Progress(t)' /\ res'[t] = Ok(x)
    BY <1>0, <2>3, Finished, ReplyFields, Zenon
  <2>5. x # None => Get(transactions, x[1].signed) = x
    <3>1. CASE GetBlock(req[t].id) = None
      BY <2>2, <3>1, Zenon DEF TxnIn
    <3>2. ASSUME NEW i \in 0 .. block_number, GetBlock(req[t].id) = Some(blocks[Keccak[i]])
          PROVE  x # None => Get(transactions, x[1].signed) = x
      BY <1>2, <2>1, <2>2, <3>2, TxnFound, Zenon
    <3>3. QED
      BY <1>0, <2>1, <3>1, <3>2, FoundById, Zenon
  <2>6. BornOut(req[t], x)'
    BY <1>0, <1>7, <2>5, Zenon DEF BornOut, chainVars, mapVars
  <2>7. QED
    BY <1>0, <2>3, <2>4, <2>6, AnsweredAt, Zenon
<1>8. QED
  BY <1>4, <1>5, <1>6, <1>7, Zenon DEF Lookup

(* The facts a query under the read lock starts from. *)
LEMMA Reading ==
  ASSUME IInv, NEW t \in Threads, Progress(t), pc[t] \in ReaderLabels
  PROVE  /\ t \in DOMAIN pc /\ req[t] \in Requests /\ pc[t] \notin {"idle", "done"}
         /\ Sealed(block_number) /\ block_number \in Nat /\ block_number \in BlockNumbers
         /\ block_number \in 0 .. block_number
         /\ \A i : Reached(i) <=> i \in 0 .. block_number
         /\ since[t] \in 0 .. block_number
<1>1. pc[t] \notin {"idle", "done"}
  BY Zenon DEF ReaderLabels
<1>2. t \in DOMAIN pc /\ req[t] \in Requests
  BY <1>1, Zenon DEF IInv, TypeOK, TasksTypeOK, Progress
<1>3. Sealed(block_number) /\ block_number \in Nat /\ block_number \in BlockNumbers
  BY ReaderSees, Zenon
<1>4. \A i : Reached(i) <=> i \in 0 .. block_number
  BY <1>3, Zenon DEF Sealed, Reached
<1>5. block_number \in 0 .. block_number /\ since[t] \in 0 .. block_number
  BY <1>3, <1>4 DEF Progress
<1>6. QED
  BY <1>1, <1>2, <1>3, <1>4, <1>5, Zenon

LEMMA ReadBestNumberOwn ==
  ASSUME IInv, Shape, NEW t \in Threads, Progress(t), ReadBestNumber(t)
  PROVE  Progress(t)' /\ Answer(t)'
<1>0. /\ Grows(block_number_to_hash, block_number_to_hash')
      /\ pc[t] = "reading" /\ pc[t] \in ReaderLabels /\ req' = req /\ since' = since
      /\ res' = res /\ seen' = seen
      /\ block_number_to_hash' = block_number_to_hash
  BY MapsGrow, Zenon
  DEF Step, Query, ReadBestNumber, ReaderLabels, reqVars, chainVars, mapVars
<1>1. /\ t \in DOMAIN pc /\ block_number \in BlockNumbers /\ Reached(block_number)
      /\ since[t] <= block_number
  BY <1>0, Reading
<1>2. pc'[t] = "read2" /\ from'[t] = Some(block_number)
  BY <1>1, Zenon DEF ReadBestNumber, Goto, Shape
<1>3. /\ (pc'[t] = "idle" <=> req'[t] = NoRequest)
      /\ (pc'[t] = "done" <=> res'[t] # NoReply)
      /\ Reached(since[t])' /\ Answer(t)'
  BY <1>0, <1>2, GoesOn, Zenon
<1>4. seen'[t] = {}
  BY <1>0, Zenon DEF Progress
<1>5. req'[t].op = "txnAt" /\ req'[t].id = Latest
  BY <1>0, Zenon DEF ReadBestNumber
<1>6. /\ from'[t] # None /\ from'[t][1] = block_number
      /\ \E n \in BlockNumbers : from'[t] = Some(n) /\ n \in DOMAIN block_number_to_hash'
  BY <1>0, <1>1, <1>2, OptionFacts, Zenon DEF Reached
<1>7. Progress(t)'
  BY <1>0, <1>1, <1>2, <1>3, <1>4, <1>5, <1>6, Zenon DEF Progress, WriterLabels, Reached
<1>8. QED
  BY <1>3, <1>7, Zenon

LEMMA ReadTxnOfBestOwn ==
  ASSUME IInv, Shape, GenesisInv, NEW t \in Threads, Progress(t), ReadTxnOfBest(t)
  PROVE  Progress(t)' /\ Answer(t)'
<1>0. /\ Grows(block_number_to_hash, block_number_to_hash')
      /\ pc[t] = "reading2" /\ pc[t] \in ReaderLabels /\ req' = req /\ since' = since
      /\ from' = from /\ req[t].op = "txnAt" /\ transactions' = transactions
  BY MapsGrow, Zenon
  DEF Step, Query, ReadTxnOfBest, ReaderLabels, reqVars, chainVars, mapVars, localVars, rangeVars
<1>1. /\ t \in DOMAIN pc /\ block_number \in Nat /\ Sealed(block_number)
      /\ req[t] \in Requests /\ pc[t] \notin {"idle", "done"}
  BY <1>0, Reading, Zenon
<1>2. PICK i \in 0 .. block_number : from[t] = Some(i) /\ from[t][1] = i
  <2>1. PICK i \in BlockNumbers : from[t] = Some(i) /\ Reached(i)
    BY <1>0, Zenon DEF Progress
  <2>2. i \in 0 .. block_number
    BY <1>0, <2>1, Reading, Zenon
  <2>3. QED
    BY <2>1, <2>2, OptionFacts, Zenon
<1>3. req[t].index \in Nat
  BY <1>0, <1>1, QueryFields, Zenon
<1>4. PICK x : x = TxnIn(Some(blocks[Keccak[i]]), req[t].index)
  BY Zenon
<1>5. /\ x # None => Get(transactions, x[1].signed) = x
      /\ i > 0 /\ req[t].index = 0 => x # None
  BY <1>1, <1>3, <1>4, TxnFound, Zenon
<1>6. Finish(t, Ok(x))
  BY <1>1, <1>2, <1>4, FoundByNumber, Zenon DEF ReadTxnOfBest
<1>7. Progress(t)' /\ res'[t] = Ok(x)
  BY <1>0, <1>1, <1>6, Finished, ReplyFields, Zenon
<1>8. BornOut(req[t], x)'
  BY <1>0, <1>5, Zenon DEF BornOut
<1>9. req[t].index # 0 \/ x # None \/ from'[t] = Some(0)
  BY <1>0, <1>2, <1>5
<1>10. QED
  BY <1>0, <1>7, <1>8, <1>9, AnsweredAt, Zenon

(* The number of a block that get_block finds. *)
LEMMA NumberFound ==
  ASSUME IInv, NEW t \in Threads, Progress(t), pc[t] \in ReaderLabels, NEW id \in BlockIds
  PROVE  /\ ~ ExpectFails(id)
         /\ NumberOf(GetBlock(id)) # None =>
              \E i \in BlockNumbers : NumberOf(GetBlock(id)) = Some(i) /\ Reached(i)
<1>1. ~ ExpectFails(id)
  BY FoundById, Zenon
<1>2. CASE GetBlock(id) = None
  BY <1>1, <1>2, Zenon DEF NumberOf
<1>3. ASSUME NEW i \in 0 .. block_number, GetBlock(id) = Some(blocks[Keccak[i]])
      PROVE  NumberOf(GetBlock(id)) = Some(i) /\ Reached(i) /\ i \in BlockNumbers
  <2>1. /\ Sealed(block_number) /\ block_number \in Nat /\ Reached(i)
        /\ block_number \in BlockNumbers
    BY Reading, Zenon
  <2>2. blocks[Keccak[i]].number = i
    BY <2>1, FoundByNumber, Zenon
  <2>3. i \in BlockNumbers
    BY <2>1, BoundsAssumption DEF BlockNumbers
  <2>4. QED
    BY <1>3, <2>1, <2>2, <2>3, OptionFacts, Zenon DEF NumberOf
<1>4. QED
  BY <1>1, <1>2, <1>3, FoundById, Zenon

LEMMA ResolveFromOwn ==
  ASSUME IInv, Shape, NEW t \in Threads, Progress(t), ResolveFrom(t)
  PROVE  Progress(t)' /\ Answer(t)'
<1>0. /\ Grows(block_number_to_hash, block_number_to_hash')
      /\ pc[t] = "reading" /\ pc[t] \in ReaderLabels /\ req' = req /\ since' = since
      /\ seen' = seen /\ req[t].op = "logs"
      /\ block_number_to_hash' = block_number_to_hash
  BY MapsGrow, Zenon
  DEF Step, Query, ResolveFrom, ReaderLabels, reqVars, chainVars, mapVars
<1>1. t \in DOMAIN pc /\ req[t] \in Requests
  BY <1>0, Reading, Zenon
<1>2. req[t].from \in BlockIds
  BY <1>0, <1>1, QueryFields, Zenon
<1>3. PICK f : f = NumberOf(GetBlock(req[t].from))
  BY Zenon
<1>4. /\ ~ ExpectFails(req[t].from)
      /\ f # None => \E i \in BlockNumbers : f = Some(i) /\ Reached(i)
  BY <1>0, <1>2, <1>3, NumberFound, Zenon
<1>5. pc'[t] = "read2" /\ from'[t] = f /\ res' = res
  BY <1>1, <1>3, <1>4, Zenon DEF ResolveFrom, Goto, Shape
<1>6. /\ (pc'[t] = "idle" <=> req'[t] = NoRequest)
      /\ (pc'[t] = "done" <=> res'[t] # NoReply)
      /\ Reached(since[t])' /\ Answer(t)'
  BY <1>0, <1>5, GoesOn, Zenon
<1>7. seen'[t] = {}
  BY <1>0, Zenon DEF Progress
<1>8. from'[t] # None =>
        \E i \in BlockNumbers : from'[t] = Some(i) /\ i \in DOMAIN block_number_to_hash'
  BY <1>0, <1>4, <1>5, Zenon DEF Reached
<1>9. Progress(t)'
  BY <1>0, <1>5, <1>6, <1>7, <1>8, Zenon DEF Progress, WriterLabels, Reached
<1>10. QED
  BY <1>6, <1>9, Zenon

LEMMA ResolveToOwn ==
  ASSUME IInv, Shape, NEW t \in Threads, Progress(t), ResolveTo(t)
  PROVE  Progress(t)' /\ Answer(t)'
<1>0. /\ Grows(block_number_to_hash, block_number_to_hash')
      /\ pc[t] = "reading2" /\ pc[t] \in ReaderLabels /\ req' = req /\ since' = since
      /\ seen' = seen /\ req[t].op = "logs" /\ from' = from
      /\ block_number_to_hash' = block_number_to_hash
  BY MapsGrow, Zenon
  DEF Step, Query, ResolveTo, ReaderLabels, reqVars, chainVars, mapVars
<1>1. t \in DOMAIN pc /\ req[t] \in Requests /\ pc[t] \notin {"idle", "done"}
  BY <1>0, Reading, Zenon
<1>2. req[t].to \in BlockIds
  BY <1>0, <1>1, QueryFields, Zenon
<1>3. PICK g : g = NumberOf(GetBlock(req[t].to))
  BY Zenon
<1>4. /\ ~ ExpectFails(req[t].to)
      /\ g # None => \E i \in BlockNumbers : g = Some(i) /\ Reached(i)
  BY <1>0, <1>2, <1>3, NumberFound, Zenon
<1>5. upto'[t] = g
  BY <1>3, Zenon DEF ResolveTo, Shape
<1>6. CASE from[t] = None \/ g = None
  <2>1. Finish(t, Err("block not found"))
    BY <1>3, <1>4, <1>6, Zenon DEF ResolveTo
  <2>2. Progress(t)' /\ res'[t] = Err("block not found")
    BY <1>0, <1>1, <2>1, Finished, ReplyFields, Zenon
  <2>3. QED
    BY <2>2, NoAnswer, Zenon
<1>7. CASE from[t] # None /\ g # None
  <2>1. PICK i \in BlockNumbers : from[t] = Some(i) /\ Reached(i)
    BY <1>0, <1>7, Zenon DEF Progress
  <2>2. PICK j \in BlockNumbers : g = Some(j) /\ Reached(j)
    BY <1>4, <1>7, Zenon
  <2>3. from[t][1] = i /\ g[1] = j /\ i \in Nat /\ j \in Nat
    BY <2>1, <2>2, OptionFacts, BoundsAssumption DEF BlockNumbers
  <2>4. CASE i > j
    <3>1. Finish(t, Ok(<< >>))
      BY <1>3, <1>4, <1>7, <2>3, <2>4, Zenon DEF ResolveTo
    <3>2. Progress(t)' /\ res'[t] = Ok(<< >>)
      BY <1>0, <1>1, <3>1, Finished, ReplyFields, Zenon
    <3>3. BornOut(req[t], << >>)'
      BY <1>0, Zenon DEF BornOut
    <3>4. QED
      BY <1>0, <3>2, <3>3, Answered, Zenon
  <2>5. CASE i <= j
    <3>1. Goto(t, "fetch") /\ res' = res
      <4>1. ~ (from[t][1] > g[1])
        BY <2>3, <2>5
      <4>2. QED
        BY <1>3, <1>4, <1>7, <4>1, Zenon DEF ResolveTo
    <3>2. pc'[t] = "fetch"
      BY <1>1, <3>1, Zenon DEF Goto
    <3>3. /\ (pc'[t] = "idle" <=> req'[t] = NoRequest)
          /\ (pc'[t] = "done" <=> res'[t] # NoReply)
          /\ Reached(since[t])' /\ Answer(t)'
      BY <1>0, <1>1, <3>1, <3>2, GoesOn, Zenon
    <3>4. seen'[t] = {}
      BY <1>0, Zenon DEF Progress
    <3>5. from'[t] = Some(i) /\ upto'[t] = Some(j) /\ j \in DOMAIN block_number_to_hash'
      BY <1>0, <1>5, <2>1, <2>2, Zenon DEF Reached
    <3>6. Progress(t)'
      BY <1>0, <2>5, <3>2, <3>3, <3>4, <3>5, Zenon DEF Progress, WriterLabels, Reached
    <3>7. QED
      BY <3>3, <3>6, Zenon
  <2>6. QED
    BY <2>3, <2>4, <2>5
<1>8. QED
  BY <1>6, <1>7, Zenon

LEMMA FetchBlockOwn ==
  ASSUME IInv, Shape, NEW t \in Threads, Progress(t), FetchBlock(t)
  PROVE  Progress(t)' /\ Answer(t)'
<1>0. /\ Grows(block_number_to_hash, block_number_to_hash')
      /\ pc[t] = "fetching" /\ pc[t] \in ReaderLabels /\ req' = req /\ since' = since
      /\ seen' = seen /\ upto' = upto
      /\ block_number_to_hash' = block_number_to_hash
  BY MapsGrow, Zenon
  DEF Step, Query, FetchBlock, ReaderLabels, reqVars, chainVars, mapVars
<1>1. /\ t \in DOMAIN pc /\ Sealed(block_number) /\ block_number \in Nat
      /\ pc[t] \notin {"idle", "done"} /\ \A i : Reached(i) <=> i \in 0 .. block_number
  BY <1>0, Reading, Zenon
<1>2. PICK i \in BlockNumbers, j \in BlockNumbers :
        from[t] = Some(i) /\ upto[t] = Some(j) /\ i <= j /\ Reached(j)
  BY <1>0, Zenon DEF Progress
<1>3. req[t].op = "logs"
  BY <1>0, Zenon DEF Progress
<1>4. i \in Nat /\ j \in Nat /\ i \in 0 .. block_number /\ i + 1 \in Nat
  BY <1>1, <1>2, BoundsAssumption DEF BlockNumbers
<1>5. from[t][1] = i /\ GetBlockByNumber(from[t][1]) # None
  <2>1. from[t][1] = i
    BY <1>2, OptionFacts, Zenon
  <2>2. GetBlockByNumber(i) # None
    BY <1>1, <1>4, FoundByNumber, Zenon
  <2>3. QED
    BY <2>1, <2>2, Zenon
<1>6. from'[t] = Some(i + 1)
  BY <1>5, Zenon DEF FetchBlock, Shape
<1>7. CASE from[t] = upto[t]
  <2>1. PICK x : Finish(t, Ok(x))
    BY <1>5, <1>7, Zenon DEF FetchBlock
  <2>2. Progress(t)' /\ res'[t] = Ok(x)
    BY <1>0, <1>1, <2>1, Finished, ReplyFields, Zenon
  <2>3. BornOut(req[t], x)'
    BY <1>0, <1>3, Zenon DEF BornOut
  <2>4. QED
    BY <1>0, <1>3, <2>2, <2>3, Answered, Zenon
<1>8. CASE from[t] # upto[t]
  <2>1. Goto(t, "fetch") /\ res' = res
    BY <1>5, <1>8, Zenon DEF FetchBlock
  <2>2. pc'[t] = "fetch"
    BY <1>1, <2>1, Zenon DEF Goto
  <2>3. /\ (pc'[t] = "idle" <=> req'[t] = NoRequest)
        /\ (pc'[t] = "done" <=> res'[t] # NoReply)
        /\ Reached(since[t])' /\ Answer(t)'
    BY <1>0, <1>1, <2>1, <2>2, GoesOn, Zenon
  <2>4. seen'[t] = {}
    BY <1>0, Zenon DEF Progress
  <2>5. i # j
    BY <1>2, <1>8, Zenon
  <2>6. i + 1 <= j /\ i + 1 \in BlockNumbers
    BY <1>2, <1>4, <2>5, BoundsAssumption DEF BlockNumbers
  <2>7. upto'[t] = Some(j) /\ j \in DOMAIN block_number_to_hash'
    BY <1>0, <1>2, Zenon DEF Reached
  <2>8. Progress(t)'
    BY <1>0, <1>3, <1>6, <2>2, <2>3, <2>4, <2>6, <2>7, Zenon DEF Progress, WriterLabels, Reached
  <2>9. QED
    BY <2>3, <2>8, Zenon
<1>9. QED
  BY <1>7, <1>8, Zenon

LEMMA BeginSimulationOwn ==
  ASSUME IInv, Shape, NEW t \in Threads, Progress(t), BeginSimulation(t)
  PROVE  Progress(t)' /\ Answer(t)'
<1>0. /\ Grows(block_number_to_hash, block_number_to_hash')
      /\ pc[t] = "reading" /\ pc[t] \in ReaderLabels /\ req' = req /\ since' = since
      /\ seen' = seen /\ req[t].op = "simulate"
  BY MapsGrow, Zenon DEF Step, Query, BeginSimulation, ReaderLabels, reqVars
<1>1. /\ t \in DOMAIN pc /\ t \in DOMAIN todo /\ pc[t] \notin {"idle", "done"}
      /\ GetBlockByNumber(block_number) # None
  BY <1>0, Reading, FoundByNumber, Zenon DEF IInv, TypeOK, TasksTypeOK
<1>2. /\ pc'[t] = "simulate" /\ todo'[t] = req[t].keys /\ res' = res
  BY <1>1, Zenon DEF BeginSimulation, Goto
<1>3. /\ (pc'[t] = "idle" <=> req'[t] = NoRequest)
      /\ (pc'[t] = "done" <=> res'[t] # NoReply)
      /\ Reached(since[t])' /\ Answer(t)'
  BY <1>0, <1>1, <1>2, GoesOn, Zenon
<1>4. seen'[t] = {}
  BY <1>0, Zenon DEF Progress
<1>5. { << a, mkvs'[a] >> : a \in req'[t].keys \ todo'[t] } = {}
  BY <1>0, <1>2, Zenon
<1>6. Progress(t)'
  BY <1>0, <1>2, <1>3, <1>4, <1>5, Zenon DEF Progress, WriterLabels
<1>7. QED
  BY <1>3, <1>6, Zenon

(* One key read by a simulation, under the read lock, or through a handle.  *)
LEMMA ReadKeyOwn ==
  ASSUME IInv, Shape, NEW t \in Threads, Progress(t), SimulateRead(t) \/ HandleRead(t)
  PROVE  Progress(t)' /\ Answer(t)'
<1>0. /\ Grows(block_number_to_hash, block_number_to_hash') /\ ReadKey(t)
      /\ pc[t] \in {"simulate", "handle"}
      /\ pc' = pc /\ req' = req /\ since' = since /\ res' = res /\ mkvs' = mkvs
  BY MapsGrow, Zenon
  DEF Step, Query, SimulateRead, HandleRead, ReadKey, reqVars, chainVars
<1>1. t \in DOMAIN todo /\ t \in DOMAIN seen
  BY Zenon DEF IInv, TypeOK, TasksTypeOK
<1>2. PICK a \in todo[t] : /\ seen'[t] = seen[t] \cup { << a, mkvs[a] >> }
                           /\ todo'[t] = todo[t] \ {a}
  BY <1>0, <1>1, Zenon DEF ReadKey
<1>3. /\ (pc'[t] = "idle" <=> req'[t] = NoRequest)
      /\ (pc'[t] = "done" <=> res'[t] # NoReply)
      /\ Reached(since[t])' /\ Answer(t)'
  BY <1>0, GoesOn, Zenon
<1>4. CASE pc[t] = "handle"
  BY <1>0, <1>3, <1>4, Zenon DEF Progress, WriterLabels
<1>5. CASE pc[t] = "simulate"
  <2>1. /\ req[t].op = "simulate" /\ todo[t] \subseteq req[t].keys
        /\ seen[t] = { << c, mkvs[c] >> : c \in req[t].keys \ todo[t] }
    BY <1>5, Zenon DEF Progress
  <2>2. seen'[t] = { << c, mkvs'[c] >> : c \in req'[t].keys \ todo'[t] }
    BY <1>0, <1>2, <2>1, Zenon
  <2>3. todo'[t] \subseteq req'[t].keys
    BY <1>0, <1>2, <2>1, Zenon
  <2>4. Progress(t)'
    BY <1>0, <1>3, <1>5, <2>1, <2>2, <2>3, Zenon DEF Progress, WriterLabels
  <2>5. QED
    BY <1>3, <2>4, Zenon
<1>6. QED
  BY <1>0, <1>4, <1>5, Zenon

LEMMA SimulateEndOwn ==
  ASSUME IInv, Shape, NEW t \in Threads, Progress(t),
         SimulateDone(t) \/ SimulateErr(t) \/ SimulatePanic(t)
  PROVE  Progress(t)' /\ Answer(t)'
<1>0. /\ Grows(block_number_to_hash, block_number_to_hash') /\ t \in DOMAIN pc
      /\ pc[t] = "simulate" /\ req' = req /\ since' = since
  BY MapsGrow, Zenon
  DEF IInv, TypeOK, TasksTypeOK, Step, Query, SimulateDone, SimulateErr, SimulatePanic, reqVars
<1>1. req[t].op = "simulate"
  BY <1>0, Zenon DEF Progress
<1>2. CASE SimulateDone(t)
  <2>1. PICK x : Finish(t, Ok(x))
    BY <1>2, Zenon DEF SimulateDone
  <2>2. Progress(t)' /\ res'[t] = Ok(x)
    BY <1>0, <2>1, Finished, ReplyFields, Zenon
  <2>3. BornOut(req[t], x)'
    BY <1>0, <1>1, Zenon DEF BornOut
  <2>4. QED
    BY <1>0, <1>1, <2>2, <2>3, Answered, Zenon
<1>3. CASE SimulateErr(t)
  <2>1. Finish(t, Err("not executed"))
    BY <1>3, Zenon DEF SimulateErr
  <2>2. Progress(t)' /\ res'[t] = Err("not executed")
    BY <1>0, <2>1, Finished, ReplyFields, Zenon
  <2>3. QED
    BY <2>2, NoAnswer, Zenon
<1>4. CASE SimulatePanic(t)
  <2>1. Finish(t, Panicked)
    BY <1>4, Zenon DEF SimulatePanic
  <2>2. Progress(t)' /\ res'[t] = Panicked
    BY <1>0, <2>1, Finished, ReplyFields, Zenon
  <2>3. QED
    BY <1>0, <1>1, <2>2, NoAnswer, Zenon
<1>5. QED
  BY <1>2, <1>3, <1>4, Zenon

LEMMA TakeStateOwn ==
  ASSUME IInv, Shape, NEW t \in Threads, Progress(t), TakeState(t)
  PROVE  Progress(t)' /\ Answer(t)'
<1>0. /\ Grows(block_number_to_hash, block_number_to_hash') /\ t \in DOMAIN pc
      /\ pc[t] = "reading" /\ req' = req /\ since' = since /\ res' = res
      /\ Goto(t, "handle") /\ req[t].op = "state"
  BY MapsGrow, Zenon DEF IInv, TypeOK, TasksTypeOK, Step, Query, TakeState, reqVars
<1>1. pc'[t] = "handle"
  BY <1>0, Zenon DEF Goto
<1>2. /\ (pc'[t] = "idle" <=> req'[t] = NoRequest)
      /\ (pc'[t] = "done" <=> res'[t] # NoReply)
      /\ Reached(since[t])' /\ Answer(t)'
  BY <1>0, <1>1, GoesOn, Zenon
<1>3. QED
  BY <1>0, <1>1, <1>2, Zenon DEF Progress, WriterLabels

LEMMA HandleDoneOwn ==
  ASSUME IInv, Shape, NEW t \in Threads, Progress(t), HandleDone(t)
  PROVE  Progress(t)' /\ Answer(t)'
<1>0. /\ Grows(block_number_to_hash, block_number_to_hash') /\ t \in DOMAIN pc
      /\ pc[t] = "handle" /\ req' = req /\ since' = since
  BY MapsGrow, Zenon DEF IInv, TypeOK, TasksTypeOK, Step, Query, HandleDone, reqVars
<1>1. req[t].op = "state"
  BY <1>0, Zenon DEF Progress
<1>2. PICK x : Finish(t, Ok(x))
  BY Zenon DEF HandleDone
<1>3. Progress(t)' /\ res'[t] = Ok(x)
  BY <1>0, <1>2, Finished, ReplyFields, Zenon
<1>4. BornOut(req[t], x)'
  BY <1>0, <1>1, Zenon DEF BornOut
<1>5. QED
  BY <1>0, <1>1, <1>3, <1>4, Answered, Zenon

(* A task's own step keeps what it holds and what it was told in order. *)
LEMMA OwnStep ==
  ASSUME IInv, Shape, GenesisInv, PoisonInv, NEW t \in Threads, Progress(t),
         Step(t) \/ Return(t) \/ \E r \in Requests : Call(t, r)
  PROVE  Progress(t)' /\ Answer(t)'
BY MiningOwn, StoreIndexOwn, CallOwn, ReturnOwn, AcquireReadOwn, LookupOwn,
   ReadBestNumberOwn, ReadTxnOfBestOwn, ResolveFromOwn, ResolveToOwn, FetchBlockOwn,
   BeginSimulationOwn, ReadKeyOwn, SimulateEndOwn, TakeStateOwn, HandleDoneOwn, Zenon
DEF Step, MineBlock, Query

(* The state database changes only while mine_block holds the lock. *)
LEMMA DatabaseKept ==
  ASSUME IInv, NEW t \in Threads, Step(t) \/ Return(t) \/ \E r \in Requests : Call(t, r),
         NEW u \in Threads, pc[u] = "simulate"
  PROVE  mkvs' = mkvs
<1>1. CASE CommitKey(t)
  <2>1. pc[t] \in WriterLabels
    BY <1>1, Zenon DEF CommitKey, WriterLabels
  <2>2. pc[u] \notin ReaderLabels \/ u = t
    BY <2>1, OnlyWriter, Zenon DEF IInv
  <2>3. QED
    BY <1>1, <2>2, Zenon DEF CommitKey, ReaderLabels
<1>2. CASE ~ CommitKey(t)
  BY <1>2, Zenon
  DEF Step, MineBlock, Query, Return, Call, CheckTxn, AcquireWrite, Execute, ExecuteErr,
      MinePanic, SetBlockNumber, StoreTxn, StoreReceipt, StoreBlock, StoreIndex, AcquireRead,
      Lookup, ReadBestNumber, ReadTxnOfBest, ResolveFrom, ResolveTo, FetchBlock,
      BeginSimulation, SimulateRead, SimulateDone, SimulateErr, SimulatePanic, TakeState,
      HandleRead, HandleDone, ReadKey, chainVars
<1>3. QED
  BY <1>1, <1>2, Zenon

(* A panic under the write lock leaves the lock to nobody, and a poisoned   *)
(* lock is never taken.                                                     *)
LEMMA PoisonKept ==
  ASSUME IInv, PoisonInv, NEW t \in Threads,
         Step(t) \/ Return(t) \/ \E r \in Requests : Call(t, r)
  PROVE  PoisonInv'
<1>1. CASE pc[t] \in WriterLabels /\ PoisonWrite(t)
  <2>1. writers = {t} /\ readers = {}
    BY <1>1, OnlyWriter, Zenon DEF IInv
  <2>2. QED
    BY <1>1, <2>1, Zenon DEF PoisonWrite, PoisonInv
<1>2. CASE ~ (pc[t] \in WriterLabels /\ PoisonWrite(t))
  <2>1. /\ poisoned' = poisoned
        /\ poisoned => writers' \subseteq writers /\ readers' \subseteq readers
    <3>1. CASE MineBlock(t) \/ CheckTxn(t)
      BY <1>2, <3>1, Zenon
      DEF MineBlock, CheckTxn, AcquireWrite, Execute, ExecuteErr, MinePanic, CommitKey,
          SetBlockNumber, StoreTxn, StoreReceipt, StoreBlock, StoreIndex, ReleaseWrite,
          lockVars, WriterLabels
    <3>2. CASE Query(t)
      BY <3>2, Zenon
      DEF Query, AcquireRead, Lookup, ReadBestNumber, ReadTxnOfBest, ResolveFrom, ResolveTo,
          FetchBlock, BeginSimulation, SimulateRead, SimulateDone, SimulateErr, SimulatePanic,
          TakeState, HandleRead, HandleDone, ReadKey, ReleaseRead, lockVars
    <3>3. CASE Return(t) \/ \E r \in Requests : Call(t, r)
      BY <3>3, Zenon DEF Return, Call, lockVars
    <3>4. QED
      BY <3>1, <3>2, <3>3, Zenon DEF Step
  <2>2. QED
    BY <2>1, Zenon DEF PoisonInv
<1>3. QED
  BY <1>1, <1>2, Zenon

LEMMA InitRInv == Init => RInv
<1> SUFFICES ASSUME Init PROVE RInv
  BY Zenon
<1>1. Shape /\ GenesisInv /\ PoisonInv
  BY Zenon DEF Init, Shape, GenesisInv, PoisonInv
<1>2. ASSUME NEW t \in Threads PROVE Progress(t) /\ Answer(t)
  <2>1. /\ pc[t] = "idle" /\ req[t] = NoRequest /\ res[t] = NoReply /\ since[t] = 0
        /\ seen[t] = {} /\ DOMAIN block_number_to_hash = {0}
    BY Zenon DEF Init
  <2>2. QED
    BY <2>1, ReplyFields, Zenon DEF Progress, Answer, WriterLabels, Reached
<1>3. QED
  BY <1>1, <1>2, Zenon DEF RInv

LEMMA NextRInv == IInv /\ RInv /\ [Next]_vars => RInv'
<1> SUFFICES ASSUME IInv, RInv, [Next]_vars PROVE RInv'
  BY Zenon
<1>1. CASE UNCHANGED vars
  <2>1. UNCHANGED << req, since, res, pc, writers, readers, poisoned, mkvs, block_number,
                     blocks, block_number_to_hash, transactions, receipts, block, todo, seen,
                     from, upto >>
    BY <1>1, Zenon
    DEF vars, reqVars, lockVars, chainVars, mapVars, localVars, rangeVars
  <2>2. ASSUME NEW u \in Threads PROVE Progress(u)' /\ Answer(u)'
    <3>1. Progress(u) /\ Answer(u)
      BY Zenon DEF RInv
    <3>2. Untouched(u)
      BY <2>1, Zenon DEF Untouched
    <3>3. /\ Grows(blocks, blocks') /\ Grows(block_number_to_hash, block_number_to_hash')
          /\ Grows(transactions, transactions') /\ Grows(receipts, receipts')
      BY <2>1, Zenon DEF Grows
    <3>4. (poisoned => poisoned') /\ mkvs' = mkvs
      BY <2>1, Zenon
    <3>5. QED
      BY <3>1, <3>2, <3>3, <3>4, OthersKept, Zenon
  <2>3. QED
    BY <2>1, <2>2, Zenon DEF RInv, Shape, GenesisInv, PoisonInv
<1>2. CASE Next
  <2>1. PICK t \in Threads : Step(t) \/ Return(t) \/ \E r \in Requests : Call(t, r)
    BY <1>2, Zenon DEF Next
  <2>2. Shape /\ GenesisInv /\ PoisonInv /\ \A u \in Threads : Progress(u) /\ Answer(u)
    BY Zenon DEF RInv
  <2>3. Progress(t)' /\ Answer(t)'
    BY <2>1, <2>2, OwnStep, Zenon
  <2>4. /\ Shape' /\ PoisonInv' /\ (poisoned => poisoned')
        /\ \A u \in Threads \ {t} : Untouched(u)
    BY <2>1, <2>2, OthersUntouched, PoisonKept, Zenon
  <2>5. /\ Grows(blocks, blocks') /\ Grows(block_number_to_hash, block_number_to_hash')
        /\ Grows(transactions, transactions') /\ Grows(receipts, receipts')
    BY <2>1, MapsGrow, Zenon
  <2>6. ASSUME NEW u \in Threads \ {t} PROVE Progress(u)' /\ Answer(u)'
    <3>1. pc[u] = "simulate" => mkvs' = mkvs
      BY <2>1, DatabaseKept, Zenon
    <3>2. QED
      BY <2>2, <2>4, <2>5, <3>1, OthersKept, Zenon
  <2>7. GenesisInv'
    <3>1. Keccak[0] \in DOMAIN blocks
      BY ChainHeight DEF Sealed
    <3>2. QED
      BY <2>2, <2>5, <3>1, Zenon DEF GenesisInv, Grows
  <2>8. QED
    BY <2>3, <2>4, <2>6, <2>7, Zenon DEF RInv
<1>3. QED
  BY <1>1, <1>2, Zenon

(* What a task holds between two acquisitions of the lock stays what the    *)
(* chain holds, and its answer is borne out by the chain from then on       *)
(* (blockchain.rs:119-566): for any number of threads, accounts,            *)
(* transactions and requests and any bound on the chain.                    *)
THEOREM AnswersInductive == Spec => []RInv
BY InitRInv, NextRInv, Inductive, PTL DEF Spec

(* No expect() on the best block, or on a block of a log range, ever fires  *)
(* ("best block must exist", "block should exist"): a task dies only on a   *)
(* poisoned lock or in the simulator.                                       *)
THEOREM ExpectsHoldAlways == Spec => []ExpectsHold
<1>1. RInv => ExpectsHold
  BY Zenon DEF RInv, Answer, ExpectsHold
<1>2. QED
  BY <1>1, AnswersInductive, PTL

(* What a client was told stays true: an acknowledged transaction keeps its *)
(* receipt and its block, and a block, transaction or receipt once returned *)
(* is found again unchanged, whatever the other threads do.                 *)
THEOREM AnswersStayTrueAlways == Spec => []AnswersStayTrue
<1>1. RInv => AnswersStayTrue
  BY Zenon DEF RInv, Answer, AnswersStayTrue
<1>2. QED
  BY <1>1, AnswersInductive, PTL

(* get_txn(Latest) takes the lock twice, and finds at the second the        *)
(* transaction of the best block it picked at the first.                    *)
THEOREM LatestTxnFoundAlways == Spec => []LatestTxnFound
<1>1. RInv => LatestTxnFound
  BY Zenon DEF RInv, Answer, LatestTxnFound
<1>2. QED
  BY <1>1, AnswersInductive, PTL
=============================================================================

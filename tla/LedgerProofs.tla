---------------------------- MODULE LedgerProofs ----------------------------
(***************************************************************************)
(* LedgerInv!DInv is kept by every step of Blockchain, for every number of *)
(* threads, accounts, transactions and requests.                           *)
(*                                                                         *)
(* First the mined chain: its entries are the blocks of ChainState, one    *)
(* step appends to it and the others leave it alone.  Then the steps that  *)
(* touch neither chain nor database (QuietDInv), those of a handle of      *)
(* state(), and mine_block from the execution to the last insert.  What is *)
(* needed of the account that a chain leaves is stated as AccountLaws;     *)
(* RefinementProofs proves these laws from the theorems on finite sets.    *)
(***************************************************************************)
EXTENDS BlockchainProofs, LedgerInv

(* A function on 1 .. n is a sequence. *)
LEMMA IsSequence ==
  ASSUME NEW S, NEW n \in Nat, NEW f \in [1 .. n -> S]
  PROVE  f \in Seq(S) /\ Len(f) = n
OBVIOUS

(* A block as mine_block fills it in. *)
LEMMA MinedEntry ==
  ASSUME NEW i, NEW h, NEW x, NEW k \in Nat
  PROVE  /\ NewBlock(i, h, x, k).transactions[1] = x
         /\ Len(NewBlock(i, h, x, k).logs) = k
BY DEF NewBlock

(* The mined chain is a sequence, and its entries are those of the blocks.  *)
LEMMA ChainEntries ==
  ASSUME IInv, FilledInv
  PROVE  /\ MinedChain \in Seq([txn : Txns, logs : Nat]) /\ Len(MinedChain) = Height
         /\ \A i \in 1 .. Height :
              /\ MinedChain[i].txn \in Txns /\ MinedChain[i].logs \in 0 .. MaxLogs
              /\ blocks[Keccak[i]] =
                   NewBlock(i, Keccak[i - 1], MinedChain[i].txn, MinedChain[i].logs)
<1>1. /\ Height \in Nat /\ DOMAIN block_number_to_hash = 0 .. Height
      /\ \A i \in 0 .. Height : block_number_to_hash[i] = Keccak[i]
  BY ChainHeight, Zenon DEF Sealed
<1>2. ASSUME NEW i \in 1 .. Height
      PROVE  /\ MinedChain[i].txn \in Txns /\ MinedChain[i].logs \in 0 .. MaxLogs
             /\ MinedChain[i] \in [txn : Txns, logs : Nat]
             /\ blocks[Keccak[i]] =
                  NewBlock(i, Keccak[i - 1], MinedChain[i].txn, MinedChain[i].logs)
  <2>1. i \in 0 .. Height /\ i # 0
    BY <1>1
  <2>2. block_number_to_hash[i] = Keccak[i] /\ i \in DOMAIN block_number_to_hash \ {0}
    BY <1>1, <2>1, Zenon
  <2>3. PICK x \in Txns, k \in 0 .. MaxLogs : blocks[Keccak[i]] = NewBlock(i, Keccak[i - 1], x, k)
    BY <2>2, Zenon DEF FilledInv
  <2>4. k \in Nat
    BY BoundsAssumption
  <2>5. MinedChain[i] = [txn |-> x, logs |-> k]
    <3>1. MinedChain[i] = LET b == blocks[block_number_to_hash[i]]
                          IN  [txn |-> b.transactions[1], logs |-> Len(b.logs)]
      BY Zenon DEF MinedChain
    <3>2. QED
      BY <2>2, <2>3, <2>4, <3>1, MinedEntry
  <2>6. QED
    BY <2>3, <2>4, <2>5
<1>3. MinedChain \in [1 .. Height -> [txn : Txns, logs : Nat]]
  <2>1. MinedChain = [i \in 1 .. Height |-> MinedChain[i]]
    BY Zenon DEF MinedChain
  <2>2. QED
    BY <1>2, <2>1, Zenon
<1>4. MinedChain \in Seq([txn : Txns, logs : Nat]) /\ Len(MinedChain) = Height
  BY <1>1, <1>3, IsSequence, Zenon
<1>5. QED
  BY <1>2, <1>4, Zenon

(* Every block the chain reaches is the ledger's. *)
LEMMA BlockAtIs ==
  ASSUME IInv, GenesisInv, FilledInv, NEW i \in 0 .. Height
  PROVE  L!BlockAt(i) = blocks[Keccak[i]]
<1>1. CASE i = 0
  BY <1>1, Zenon DEF GenesisInv, L!BlockAt, L!Genesis, Genesis, L!None, L!ZeroHash, ZeroHash
<1>2. CASE i # 0
  <2>1. i \in 1 .. Height
    BY <1>2, ChainHeight
  <2>2. blocks[Keccak[i]] = NewBlock(i, Keccak[i - 1], MinedChain[i].txn, MinedChain[i].logs)
    BY <2>1, ChainEntries, Zenon
  <2>3. QED
    BY <1>2, <2>2, Zenon DEF L!BlockAt, L!NewBlock, NewBlock, L!LogEntry, LogEntry
<1>3. QED
  BY <1>1, <1>2, Zenon

(* ChainState::get_block_by_number finds every block up to the height. *)
LEMMA ByNumber ==
  ASSUME IInv, NEW i \in 0 .. Height
  PROVE  GetBlockByNumber(i) = Some(blocks[Keccak[i]])
<1>1. i \in DOMAIN block_number_to_hash /\ block_number_to_hash[i] = Keccak[i]
      /\ Keccak[i] \in DOMAIN blocks
  BY ChainHeight, Zenon DEF Sealed
<1>2. QED
  BY <1>1, Zenon DEF GetBlockByNumber, Get

(* What a block identifier stands for. *)
LEMMA ResolveIs ==
  ASSUME NEW id \in BlockIds, NEW n \in BlockNumbers
  PROVE  \/ L!Resolve(id, n) = None
         \/ \E i \in 0 .. n : L!Resolve(id, n) = Some(i)
<1>1. CASE id = Latest
  BY <1>1, BoundsAssumption DEF Latest, L!Resolve, L!Some, Some, BlockNumbers
<1>2. CASE id \in [tag : {"number"}, number : Nat]
  <2>1. id.tag = "number" /\ id.number \in Nat
    BY <1>2
  <2>2. L!Resolve(id, n) = IF id.number <= n THEN Some(id.number) ELSE None
    BY <2>1, Zenon DEF L!Resolve, L!Some, Some, L!None, None
  <2>3. QED
    BY <2>1, <2>2 DEF BlockNumbers
<1>3. CASE id \in [tag : {"hash"}, hash : Hashes]
  BY <1>3 DEF L!Resolve, L!Some, Some, L!None, None
<1>4. QED
  BY <1>1, <1>2, <1>3, Zenon DEF BlockIds

(* get_block finds what the ledger says while no block is half stored. *)
LEMMA GetBlockIs ==
  ASSUME IInv, \A t \in Threads : pc[t] \notin Late, NEW id \in BlockIds
  PROVE  /\ L!Resolve(id, Height) = None => GetBlock(id) = None
         /\ \A i \in 0 .. Height :
              L!Resolve(id, Height) = Some(i) => GetBlock(id) = Some(blocks[Keccak[i]])
         /\ id.tag = "latest" => L!Resolve(id, Height) = Some(Height)
<1>1. /\ Height \in Nat /\ Height \in BlockNumbers /\ Height = block_number
      /\ DOMAIN block_number_to_hash = 0 .. Height /\ DOMAIN blocks = HashesTo(Height)
  BY ChainHeight, Zenon
<1>2. CASE id = Latest
  <2>1. L!Resolve(id, Height) = Some(Height) /\ GetBlock(id) = GetBlockByNumber(Height)
    BY <1>1, <1>2 DEF Latest, L!Resolve, L!Some, Some, GetBlock
  <2>2. \A i : Some(Height) = Some(i) => i = Height
    BY DEF Some
  <2>3. Some(Height) # None /\ Height \in 0 .. Height
    BY <1>1 DEF Some, None
  <2>4. QED
    BY <2>1, <2>2, <2>3, ByNumber, Zenon
<1>3. CASE id \in [tag : {"number"}, number : Nat]
  <2>1. id.tag = "number" /\ id.number \in Nat /\ GetBlock(id) = GetBlockByNumber(id.number)
    BY <1>3 DEF GetBlock
  <2>2. CASE id.number <= Height
    <3>1. L!Resolve(id, Height) = Some(id.number) /\ id.number \in 0 .. Height
      BY <1>1, <2>1, <2>2 DEF L!Resolve, L!Some, Some
    <3>2. Some(id.number) # None /\ \A i : Some(id.number) = Some(i) => i = id.number
      BY DEF Some, None
    <3>3. QED
      BY <2>1, <3>1, <3>2, ByNumber
  <2>3. CASE ~ (id.number <= Height)
    <3>1. L!Resolve(id, Height) = None /\ id.number \notin 0 .. Height
      BY <1>1, <2>1, <2>3 DEF L!Resolve, L!None, None
    <3>2. \A i : Some(i) # None
      BY DEF Some, None
    <3>3. QED
      BY <1>1, <2>1, <3>1, <3>2 DEF GetBlockByNumber
  <2>4. QED
    BY <2>2, <2>3, Zenon
<1>4. CASE id \in [tag : {"hash"}, hash : Hashes]
  <2>1. id.tag = "hash" /\ GetBlock(id) = Get(blocks, id.hash)
    BY <1>4 DEF GetBlock
  <2>2. \A i, j : Some(i) # None /\ (Some(i) = Some(j) => i = j)
    BY DEF Some, None
  <2>3. CASE \E m \in 0 .. Height : Keccak[m] = id.hash
    <3> DEFINE m == CHOOSE j \in 0 .. Height : Keccak[j] = id.hash
    <3>1. m \in 0 .. Height /\ Keccak[m] = id.hash
      BY <2>3, Zenon
    <3>2. L!Resolve(id, Height) = Some(m)
      BY <2>1, <2>3 DEF L!Resolve, L!Some, Some
    <3> HIDE DEF m
    <3>3. GetBlock(id) = Some(blocks[Keccak[m]])
      BY <1>1, <2>1, <3>1, Zenon DEF Get, HashesTo
    <3>4. QED
      BY <2>1, <2>2, <3>2, <3>3
  <2>4. CASE ~ \E m \in 0 .. Height : Keccak[m] = id.hash
    <3>1. L!Resolve(id, Height) = None
      BY <2>1, <2>4 DEF L!Resolve, L!None, None
    <3>2. GetBlock(id) = None
      BY <1>1, <2>1, <2>4, Zenon DEF Get, HashesTo
    <3>3. QED
      BY <2>1, <2>2, <3>1, <3>2
  <2>5. QED
    BY <2>3, <2>4, Zenon
<1>5. QED
  BY <1>2, <1>3, <1>4, Zenon DEF BlockIds

-----------------------------------------------------------------------------
(* What AccountOf gives.  These facts rest on the theory of finite sets, and *)
(* are proved in RefinementProofs.                                           *)
AccountLaws ==
  /\ \A c, a : AccountOf(c, 0, a) = [nonce |-> 0, written |-> 0]
  /\ \A c, a : \A n \in Nat :
       /\ AccountOf(c, n, a).nonce \in Nat /\ AccountOf(c, n, a).written \in 0 .. n
       /\ a = c[n + 1].txn.sender =>
            AccountOf(c, n + 1, a).nonce = AccountOf(c, n, a).nonce + 1
       /\ a # c[n + 1].txn.sender =>
            AccountOf(c, n + 1, a).nonce = AccountOf(c, n, a).nonce
       /\ a \in Touched(c[n + 1].txn) => AccountOf(c, n + 1, a).written = n + 1
       /\ a \notin Touched(c[n + 1].txn) =>
            AccountOf(c, n + 1, a).written = AccountOf(c, n, a).written
  /\ \A c, a : \A m, n \in Nat : m <= n =>
       /\ AccountOf(c, m, a).nonce <= AccountOf(c, n, a).nonce
       /\ AccountOf(c, m, a).written <= AccountOf(c, n, a).written

(* An account is its nonce and the block that wrote it last. *)
LEMMA AccountFields ==
  ASSUME NEW c, NEW n, NEW a
  PROVE  AccountOf(c, n, a) = [nonce   |-> AccountOf(c, n, a).nonce,
                               written |-> AccountOf(c, n, a).written]
BY DEF AccountOf

(* The account laws, one by one: the type of an account. *)
LEMMA TypeLaw ==
  ASSUME AccountLaws, NEW c, NEW n \in Nat, NEW a
  PROVE  AccountOf(c, n, a).nonce \in Nat /\ AccountOf(c, n, a).written \in 0 .. n
BY Zenon DEF AccountLaws

(* An account only grows with the blocks. *)
LEMMA GrowthLaw ==
  ASSUME AccountLaws, NEW c, NEW m \in Nat, NEW n \in Nat, m <= n, NEW a
  PROVE  /\ AccountOf(c, m, a).nonce <= AccountOf(c, n, a).nonce
         /\ AccountOf(c, m, a).written <= AccountOf(c, n, a).written
BY Zenon DEF AccountLaws

(* What block n + 1 does to an account. *)
LEMMA BlockLaw ==
  ASSUME AccountLaws, NEW c, NEW n \in Nat, NEW a
  PROVE  /\ a = c[n + 1].txn.sender =>
              AccountOf(c, n + 1, a).nonce = AccountOf(c, n, a).nonce + 1
         /\ a # c[n + 1].txn.sender =>
              AccountOf(c, n + 1, a).nonce = AccountOf(c, n, a).nonce
         /\ a \in Touched(c[n + 1].txn) => AccountOf(c, n + 1, a).written = n + 1
         /\ a \notin Touched(c[n + 1].txn) =>
              AccountOf(c, n + 1, a).written = AccountOf(c, n, a).written
<1>1. \A d, b : \A k \in Nat :
        /\ b = d[k + 1].txn.sender =>
             AccountOf(d, k + 1, b).nonce = AccountOf(d, k, b).nonce + 1
        /\ b # d[k + 1].txn.sender =>
             AccountOf(d, k + 1, b).nonce = AccountOf(d, k, b).nonce
        /\ b \in Touched(d[k + 1].txn) => AccountOf(d, k + 1, b).written = k + 1
        /\ b \notin Touched(d[k + 1].txn) =>
             AccountOf(d, k + 1, b).written = AccountOf(d, k, b).written
  BY DEF AccountLaws
<1>2. QED
  BY <1>1, Zenon

(* Two chains with the same first n entries give the same accounts. *)
LEMMA AccountSame ==
  ASSUME NEW c, NEW d, NEW n \in Nat, NEW a, \A i \in 1 .. n : d[i] = c[i]
  PROVE  AccountOf(d, n, a) = AccountOf(c, n, a)
<1>1. Sent(d, n, a) = Sent(c, n, a) /\ Writes(d, n, a) = Writes(c, n, a)
  BY Zenon DEF Sent, Writes
<1>2. QED
  BY <1>1, Zenon DEF AccountOf

-----------------------------------------------------------------------------
(* Every step but the last insert of mine_block leaves the ledger's chain   *)
(* alone.                                                                   *)
LEMMA SameChain ==
  ASSUME IInv, Grows(blocks, blocks'), block_number_to_hash' = block_number_to_hash
  PROVE  Height' = Height /\ MinedChain' = MinedChain
<1>1. Height' = Height
  BY Zenon DEF Height
<1>2. ASSUME NEW n \in 1 .. Height
      PROVE  blocks'[block_number_to_hash'[n]] = blocks[block_number_to_hash[n]]
  <2>1. n \in 0 .. Height
    BY ChainHeight
  <2>2. block_number_to_hash[n] \in DOMAIN blocks
    BY <2>1, ChainHeight, Zenon DEF Sealed
  <2>3. QED
    BY <2>2, Zenon DEF Grows
<1>3. MinedChain' = MinedChain
  BY <1>1, <1>2, Zenon DEF MinedChain
<1>4. QED
  BY <1>1, <1>3, Zenon

(* The last insert of mine_block appends the block's transaction. *)
LEMMA NewChain ==
  ASSUME IInv, FilledInv, NEW t \in Threads, BuiltInv(t), StoreIndex(t)
  PROVE  /\ Height' = Height + 1 /\ block[t].number = Height + 1
         /\ \E k \in 0 .. MaxLogs :
              MinedChain' = Append(MinedChain, [txn |-> req[t].txn, logs |-> k])
         /\ \A i \in 1 .. Height : MinedChain'[i] = MinedChain[i]
         /\ MinedChain'[Height + 1].txn = req[t].txn
<1>1. /\ pc[t] = "index" /\ pc[t] \in Late /\ pc[t] \in Building
      /\ blocks' = blocks
  BY Zenon DEF StoreIndex, Late, Building, WriterLabels
<1>2. /\ Height \in Nat /\ block_number = Height + 1 /\ block[t].number = Height + 1
      /\ block[t].hash = Keccak[Height + 1] /\ DOMAIN block_number_to_hash = 0 .. Height
  <2>1. /\ Height \in Nat /\ Height = block_number - 1
        /\ DOMAIN block_number_to_hash = 0 .. Height
    BY <1>1, ChainHeight, Zenon
  <2>2. block_number \in Nat /\ BlockIs(t, block_number)
    BY <1>1, LateFacts
  <2>3. QED
    BY <2>1, <2>2 DEF BlockIs
<1>3. blocks[Keccak[Height + 1]] = block[t]
  <2>1. LateInv
    BY Zenon DEF IInv, ChainInv
  <2>2. QED
    BY <1>1, <1>2, <2>1, Zenon DEF LateInv
<1>4. PICK k \in 0 .. MaxLogs :
        block[t] = NewBlock(Height + 1, Keccak[Height], req[t].txn, k)
  <2>1. Height + 1 - 1 = Height
    BY <1>2
  <2>2. \E k \in 0 .. MaxLogs : block[t] =
          NewBlock(block[t].number, Keccak[block[t].number - 1], req[t].txn, k)
    BY <1>1, Zenon DEF BuiltInv
  <2>3. Keccak[block[t].number - 1] = Keccak[Height] /\ block[t].number = Height + 1
    BY <1>2
  <2>4. QED
    BY <2>2, <2>3, Zenon
<1>5. /\ DOMAIN block_number_to_hash' = 0 .. (Height + 1)
      /\ block_number_to_hash'[Height + 1] = Keccak[Height + 1]
      /\ \A i \in 0 .. Height : block_number_to_hash'[i] = block_number_to_hash[i]
  <2>1. block_number_to_hash' =
          Insert(block_number_to_hash, Height + 1, Keccak[Height + 1])
    BY <1>2, Zenon DEF StoreIndex
  <2>2. QED
    BY <1>2, <2>1 DEF Insert
<1>6. Height' = Height + 1
  <2>1. PICK n \in Nat : n = Height + 1
    BY <1>2
  <2>2. Height' = CHOOSE i \in 0 .. n : \A m \in 0 .. n : m <= i
    BY <1>5, <2>1, Zenon DEF Height
  <2>3. QED
    BY <2>1, <2>2
<1>7. k \in Nat
  BY BoundsAssumption
<1>8. MinedChain' = [i \in 1 .. (Height + 1) |->
                       LET b == blocks[block_number_to_hash'[i]]
                       IN  [txn |-> b.transactions[1], logs |-> Len(b.logs)]]
  BY <1>1, <1>6, Zenon DEF MinedChain
<1>9. MinedChain'[Height + 1] = [txn |-> req[t].txn, logs |-> k]
  <2>1. Height + 1 \in 1 .. (Height + 1)
    BY <1>2
  <2>2. /\ MinedChain'[Height + 1].txn = block[t].transactions[1]
        /\ MinedChain'[Height + 1] = [txn  |-> block[t].transactions[1],
                                      logs |-> Len(block[t].logs)]
    <3>1. MinedChain'[Height + 1] = [txn  |-> block[t].transactions[1],
                                     logs |-> Len(block[t].logs)]
      BY <1>3, <1>5, <1>8, <2>1, Zenon
    <3>2. QED
      BY <3>1
  <2>3. block[t].transactions[1] = req[t].txn /\ Len(block[t].logs) = k
    <3>1. PICK b : b = NewBlock(Height + 1, Keccak[Height], req[t].txn, k)
      BY Zenon
    <3>2. b.transactions[1] = req[t].txn /\ Len(b.logs) = k
      BY <1>7, <3>1, MinedEntry
    <3>3. QED
      BY <1>4, <3>1, <3>2, Zenon
  <2>4. QED
    BY <2>2, <2>3
<1>10. ASSUME NEW i \in 1 .. Height
       PROVE  MinedChain'[i] = MinedChain[i]
  <2>1. i \in 1 .. (Height + 1) /\ i \in 0 .. Height
    BY <1>2
  <2>2. MinedChain'[i] = LET b == blocks[block_number_to_hash[i]]
                         IN  [txn |-> b.transactions[1], logs |-> Len(b.logs)]
    BY <1>5, <1>8, <2>1, Zenon
  <2>3. QED
    BY <2>2, Zenon DEF MinedChain
<1>11. MinedChain' = Append(MinedChain, [txn |-> req[t].txn, logs |-> k])
  <2>1. /\ MinedChain \in Seq([txn : Txns, logs : Nat]) /\ Len(MinedChain) = Height
    BY ChainEntries, Zenon
  <2>2. Append(MinedChain, [txn |-> req[t].txn, logs |-> k]) =
          [i \in 1 .. (Height + 1) |->
             IF i = Height + 1 THEN [txn |-> req[t].txn, logs |-> k] ELSE MinedChain[i]]
    BY <2>1
  <2>3. MinedChain' = [i \in 1 .. (Height + 1) |-> MinedChain'[i]]
    BY <1>8, Zenon
  <2>4. \A i \in 1 .. (Height + 1) : i # Height + 1 => i \in 1 .. Height
    BY <1>2
  <2>5. \A i \in 1 .. (Height + 1) :
          MinedChain'[i] =
            IF i = Height + 1 THEN [txn |-> req[t].txn, logs |-> k] ELSE MinedChain[i]
    BY <1>9, <1>10, <2>4, Zenon
  <2>6. QED
    BY <2>2, <2>3, <2>5, Zenon
<1>12. MinedChain'[Height + 1].txn = req[t].txn
  BY <1>9
<1>13. QED
  BY <1>2, <1>6, <1>10, <1>11, <1>12, Zenon

-----------------------------------------------------------------------------
(* block_number_to_hash changes only at the last insert of mine_block. *)
LEMMA IndexKept ==
  ASSUME NEW t \in Threads, Step(t) \/ Return(t) \/ \E r \in Requests : Call(t, r),
         ~ StoreIndex(t)
  PROVE  block_number_to_hash' = block_number_to_hash
BY Zenon
DEF Step, MineBlock, Query, Return, Call, CheckTxn, AcquireWrite, Execute, ExecuteErr,
    MinePanic, CommitKey, SetBlockNumber, StoreTxn, StoreReceipt, StoreBlock, AcquireRead,
    Lookup, ReadBestNumber, ReadTxnOfBest, ResolveFrom, ResolveTo, FetchBlock,
    BeginSimulation, SimulateRead, SimulateDone, SimulateErr, SimulatePanic, TakeState,
    HandleRead, HandleDone, ReadKey, chainVars, mapVars

(* What the chain made of the accounts so far stays. *)
LEMMA PastKept ==
  ASSUME IInv, FilledInv, NEW t \in Threads, BuiltInv(t),
         Step(t) \/ Return(t) \/ \E r \in Requests : Call(t, r)
  PROVE  \A a : \A n \in 0 .. Height :
           AccountOf(MinedChain', n, a) = AccountOf(MinedChain, n, a)
<1>1. CASE StoreIndex(t)
  <2>1. Height \in Nat /\ \A i \in 1 .. Height : MinedChain'[i] = MinedChain[i]
    BY <1>1, NewChain, ChainHeight, Zenon
  <2>2. ASSUME NEW n \in 0 .. Height, NEW a
        PROVE  AccountOf(MinedChain', n, a) = AccountOf(MinedChain, n, a)
    <3>1. n \in Nat /\ \A i \in 1 .. n : i \in 1 .. Height
      BY <2>1
    <3>2. \A i \in 1 .. n : MinedChain'[i] = MinedChain[i]
      BY <2>1, <3>1, Zenon
    <3>3. PICK c, d : c = MinedChain /\ d = MinedChain'
      BY Zenon
    <3>4. AccountOf(d, n, a) = AccountOf(c, n, a)
      BY <3>1, <3>2, <3>3, AccountSame, Zenon
    <3>5. QED
      BY <3>3, <3>4, Zenon
  <2>3. QED
    BY <2>2, Zenon
<1>2. CASE ~ StoreIndex(t)
  BY <1>2, IndexKept, MapsGrow, SameChain, Zenon
<1>3. QED
  BY <1>1, <1>2, Zenon

(* A call was made at a height the chain has reached. *)
LEMMA SinceReached ==
  ASSUME IInv, NEW u \in Threads, Progress(u)
  PROVE  since[u] \in 0 .. Height
BY ChainHeight, Zenon DEF Progress, Reached

(* Whoever a step leaves alone keeps its part of the invariant. *)
LEMMA OthersDatabase ==
  ASSUME IInv, NEW u \in Threads, Progress(u), Untouched(u),
         \A a : \A n \in 0 .. Height :
           AccountOf(MinedChain', n, a) = AccountOf(MinedChain, n, a),
         Height' = Height \/ pc[u] \notin Building,
         BuiltInv(u), CommitInv(u), HandleInv(u)
  PROVE  BuiltInv(u)' /\ CommitInv(u)' /\ HandleInv(u)'
<1>1. BuiltInv(u)'
  BY Zenon DEF BuiltInv, Untouched
<1>2. since[u] \in 0 .. Height /\ Height \in 0 .. Height
  BY SinceReached, ChainHeight
<1>3. CommitInv(u)'
  BY <1>2, Zenon DEF CommitInv, Untouched, Building
<1>4. \A v, a : NotBehind(v, since[u], a) => NotBehind(v, since[u], a)'
  BY <1>2, Zenon DEF NotBehind, Untouched
<1>5. HandleInv(u)'
  BY <1>4, Zenon DEF HandleInv, Untouched, NotBehind
<1>6. QED
  BY <1>1, <1>3, <1>5, Zenon

(* The tasks that are neither mining nor answering a state request. *)
LEMMA NoHandle ==
  ASSUME NEW t \in Threads, pc'[t] \notin Building, pc'[t] # "handle",
         pc'[t] = "done" => req'[t].op # "state" \/ res'[t].tag # "ok"
  PROVE  BuiltInv(t)' /\ CommitInv(t)' /\ HandleInv(t)'
BY Zenon DEF BuiltInv, CommitInv, HandleInv, Building, WriterLabels

(* A step of t that changes neither the chain nor the database. *)
Quiet(t) ==
  /\ UNCHANGED << mkvs, mapVars >>
  /\ pc[t] \notin Late /\ pc'[t] \notin Building
  /\ pc[t] \in Building => poisoned'

(* Such a step keeps the invariant, whatever the other tasks do. *)
LEMMA QuietDInv ==
  ASSUME IInv, RInv, DInv, NEW t \in Threads,
         Step(t) \/ Return(t) \/ \E r \in Requests : Call(t, r),
         Quiet(t), HandleInv(t)'
  PROVE  DInv'
<1>1. /\ UNCHANGED << mkvs, blocks, block_number_to_hash, transactions >>
      /\ pc[t] \notin Late /\ pc'[t] \notin Building /\ (pc[t] \in Building => poisoned')
  BY Zenon DEF Quiet, mapVars
<1>2. /\ \A u \in Threads \ {t} : Untouched(u)
      /\ poisoned => poisoned'
  BY OthersUntouched, Zenon DEF RInv
<1>3. Height' = Height /\ MinedChain' = MinedChain
  BY <1>1, SameChain, Zenon DEF Grows
<1>4. FilledInv'
  BY <1>1, Zenon DEF DInv, FilledInv
<1>5. ASSUME NEW x \in DOMAIN transactions'
      PROVE  PlacedInv(x)'
  <2>1. PlacedInv(x)
    BY <1>1, <1>5, Zenon DEF DInv
  <2>2. \A u \in Threads : pc[u] \in Late => pc'[u] = pc[u] /\ req'[u] = req[u]
    BY <1>1, <1>2, Zenon DEF Untouched
  <2>3. QED
    BY <1>1, <2>1, <2>2, Zenon DEF PlacedInv, Reached
<1>6. ASSUME NEW u \in Threads
      PROVE  BuiltInv(u)' /\ CommitInv(u)' /\ HandleInv(u)'
  <2>1. CASE u = t
    BY <1>1, <2>1, Zenon DEF BuiltInv, CommitInv, Building, WriterLabels
  <2>2. CASE u # t
    BY <1>2, <1>3, <2>2, OthersDatabase, Zenon DEF DInv, RInv
  <2>3. QED
    BY <2>1, <2>2, Zenon
<1>7. ASSUME ~ poisoned', NEW a \in Accounts
      PROVE  AccountInv(a)'
  <2>1. AccountInv(a)
    BY <1>2, <1>7, Zenon DEF DInv
  <2>2. pc[t] \notin Building /\ pc'[t] \notin Building
    BY <1>1, <1>7, Zenon
  <2>3. ASSUME NEW u \in Threads
        PROVE  /\ Committed(u, a)' <=> Committed(u, a)
               /\ Committed(u, a) => AfterBlock(u, a)' = AfterBlock(u, a)
    <3>1. CASE u = t
      BY <2>2, <3>1, Zenon DEF Committed
    <3>2. CASE u # t
      <4>1. Untouched(u)
        BY <1>2, <3>2, Zenon
      <4>2. QED
        BY <1>3, <4>1, Zenon DEF Committed, AfterBlock, Untouched
    <3>3. QED
      BY <3>1, <3>2, Zenon
  <2>4. QED
    BY <1>1, <1>3, <2>1, <2>3, Zenon DEF AccountInv
<1>8. ASSUME NEW a \in Accounts
      PROVE  NotBehind(mkvs[a], Height, a)'
  BY <1>1, <1>3, Zenon DEF DInv, NotBehind
<1>9. QED
  BY <1>4, <1>5, <1>6, <1>7, <1>8, Zenon DEF DInv

(* Requests, replies and queries other than those of a handle are quiet. *)
LEMMA QuietSteps ==
  ASSUME IInv, RInv, NEW t \in Threads,
         \/ Return(t) \/ \E r \in Requests : Call(t, r)
         \/ CheckTxn(t) \/ AcquireWrite(t) \/ ExecuteErr(t) \/ MinePanic(t)
         \/ Query(t) /\ ~ TakeState(t) /\ ~ HandleRead(t) /\ ~ HandleDone(t)
  PROVE  Quiet(t) /\ HandleInv(t)'
<1> USE DEF chainVars, mapVars
<1>0. DOMAIN pc = Threads /\ DOMAIN res = Threads /\ Progress(t)
  BY Zenon DEF RInv, Shape, IInv, TypeOK, TasksTypeOK
<1>1. ASSUME UNCHANGED chainVars, pc[t] \notin Late, pc'[t] \notin Building,
             pc[t] \in Building => poisoned', pc'[t] # "handle",
             pc'[t] = "done" => req'[t].op # "state" \/ res'[t].tag # "ok"
      PROVE  Quiet(t) /\ HandleInv(t)'
  BY <1>1, NoHandle, Zenon DEF Quiet
<1>2. CASE Return(t)
  <2>1. UNCHANGED chainVars /\ pc[t] = "done" /\ pc'[t] = "idle"
    BY <1>0, <1>2, Zenon DEF Return, Goto
  <2>2. QED
    BY <1>1, <2>1, Zenon DEF Late, Building, WriterLabels
<1>3. CASE \E r \in Requests : Call(t, r)
  <2>1. UNCHANGED chainVars /\ pc[t] = "idle" /\ pc'[t] \in {"check", "read"}
    BY <1>0, <1>3, Zenon DEF Call, Goto
  <2>2. QED
    BY <1>1, <2>1, Zenon DEF Late, Building, WriterLabels
<1>4. CASE CheckTxn(t) \/ AcquireWrite(t)
  <2>1. /\ UNCHANGED chainVars /\ pc[t] \in {"check", "write"} /\ req' = req
        /\ pc'[t] \in {"write", "execute", "done"}
    BY <1>0, <1>4, Zenon DEF CheckTxn, AcquireWrite, Goto, Finish, reqVars
  <2>2. req[t].op = "send"
    BY <2>1, Zenon DEF IInv, ChainInv, MinerInv
  <2>3. QED
    BY <1>1, <2>1, <2>2, Zenon DEF Late, Building, WriterLabels
<1>5. CASE ExecuteErr(t) \/ MinePanic(t)
  <2>1. /\ UNCHANGED chainVars /\ pc[t] \in {"execute", "commit"} /\ req' = req
        /\ pc'[t] = "done" /\ (pc[t] = "commit" => poisoned')
    BY <1>0, <1>5, Zenon DEF ExecuteErr, MinePanic, Goto, Finish, PoisonWrite, reqVars
  <2>2. req[t].op = "send"
    BY <2>1, Zenon DEF IInv, ChainInv, MinerInv, WriterLabels
  <2>3. QED
    BY <1>1, <2>1, <2>2, Zenon DEF Late, Building, WriterLabels
<1>6. CASE AcquireRead(t)
  <2>1. /\ UNCHANGED chainVars /\ pc[t] \in Waiting
        /\ pc'[t] \in {"reading", "reading2", "fetching", "done"}
        /\ pc'[t] = "done" => res'[t].tag # "ok"
    BY <1>0, <1>6, ReplyFields, Zenon
    DEF AcquireRead, Goto, Finish, Waiting, Holding
  <2>2. QED
    BY <1>1, <2>1, Zenon DEF Late, Building, WriterLabels, Waiting
<1>7. CASE Lookup(t) \/ ReadBestNumber(t) \/ ReadTxnOfBest(t) \/ ResolveFrom(t) \/ ResolveTo(t)
  <2>1. /\ UNCHANGED chainVars /\ pc[t] \in {"reading", "reading2"} /\ req' = req
        /\ req[t].op # "state"
    BY <1>7, Zenon
    DEF Lookup, ReadBestNumber, ReadTxnOfBest, ResolveFrom, ResolveTo, reqVars
  <2>2. pc'[t] \in {"read2", "fetch", "done"}
    BY <1>0, <1>7, Zenon
    DEF Lookup, ReadBestNumber, ReadTxnOfBest, ResolveFrom, ResolveTo, Goto, Finish
  <2>3. QED
    BY <1>1, <2>1, <2>2, Zenon DEF Late, Building, WriterLabels
<1>8. CASE FetchBlock(t) \/ SimulateDone(t) \/ SimulateErr(t) \/ SimulatePanic(t)
  <2>1. /\ UNCHANGED chainVars /\ pc[t] \in {"fetching", "simulate"} /\ req' = req
        /\ pc'[t] \in {"fetch", "done"}
    BY <1>0, <1>8, Zenon
    DEF FetchBlock, SimulateDone, SimulateErr, SimulatePanic, Goto, Finish, reqVars
  <2>2. req[t].op \in {"logs", "simulate"}
    BY <1>0, <2>1, Zenon DEF Progress
  <2>3. QED
    BY <1>1, <2>1, <2>2, Zenon DEF Late, Building, WriterLabels
<1>9. CASE BeginSimulation(t) \/ SimulateRead(t)
  <2>1. /\ UNCHANGED chainVars /\ pc[t] \in {"reading", "simulate"} /\ req' = req
    BY <1>9, Zenon DEF BeginSimulation, SimulateRead, ReadKey, reqVars
  <2>2. pc'[t] \in {"simulate", "done"} /\ (pc'[t] = "done" => req[t].op # "state")
    BY <1>0, <1>9, Zenon DEF BeginSimulation, SimulateRead, ReadKey, Goto, Finish
  <2>3. QED
    BY <1>1, <2>1, <2>2, Zenon DEF Late, Building, WriterLabels
<1>10. QED
  BY <1>2, <1>3, <1>4, <1>5, <1>6, <1>7, <1>8, <1>9, Zenon DEF Query

(* What is no older than the chain is no older than any of its blocks. *)
LEMMA NotOlder ==
  ASSUME AccountLaws, IInv, NEW a \in Accounts, NotBehind(mkvs[a], Height, a), NEW n \in 0 .. Height
  PROVE  NotBehind(mkvs[a], n, a)
<1>1. Height \in Nat /\ n \in Nat /\ n <= Height
  BY ChainHeight
<1>2. mkvs[a].nonce \in Nat /\ mkvs[a].written \in Nat
  BY BoundsAssumption DEF IInv, TypeOK, ChainTypeOK, AccountStates, BlockNumbers
<1>3. PICK c, old, now : /\ c = MinedChain /\ old = AccountOf(c, n, a)
                         /\ now = AccountOf(c, Height, a)
  BY Zenon
<1>4. /\ old.nonce \in Nat /\ old.written \in Nat /\ now.nonce \in Nat /\ now.written \in Nat
  BY <1>1, <1>3, TypeLaw
<1>5. old.nonce <= now.nonce /\ old.written <= now.written
  BY <1>1, <1>3, GrowthLaw, Zenon
<1>6. mkvs[a].nonce >= now.nonce /\ mkvs[a].written >= now.written
  BY <1>3, Zenon DEF NotBehind
<1>7. mkvs[a].nonce >= old.nonce /\ mkvs[a].written >= old.written
  BY <1>2, <1>4, <1>5, <1>6
<1>8. QED
  BY <1>3, <1>7, Zenon DEF NotBehind

(* A handle of state() reads the database as it is, never behind its call. *)
LEMMA HandleSteps ==
  ASSUME AccountLaws, IInv, RInv, DInv, NEW t \in Threads,
         TakeState(t) \/ HandleRead(t) \/ HandleDone(t)
  PROVE  Quiet(t) /\ HandleInv(t)'
<1>0. /\ DOMAIN pc = Threads /\ DOMAIN res = Threads /\ DOMAIN seen = Threads
      /\ Progress(t) /\ HandleInv(t) /\ todo[t] \subseteq Accounts
  BY Zenon DEF RInv, Shape, IInv, TypeOK, TasksTypeOK, DInv
<1>1. UNCHANGED chainVars /\ since' = since /\ req' = req /\ pc[t] \in {"reading", "handle"}
  BY Zenon DEF TakeState, HandleRead, HandleDone, ReadKey, reqVars
<1>2. pc'[t] \in {"handle", "done"}
  BY <1>0, Zenon DEF TakeState, HandleRead, HandleDone, ReadKey, Goto, Finish
<1>3. Quiet(t)
  BY <1>1, <1>2, Zenon DEF Quiet, chainVars, Late, Building, WriterLabels
<1>4. Height' = Height /\ MinedChain' = MinedChain /\ since[t] \in 0 .. Height
  BY <1>0, <1>1, SameChain, SinceReached, Zenon DEF Grows, chainVars, mapVars
<1>5. \A v, a : NotBehind(v, since[t], a) => NotBehind(v, since[t], a)'
  BY <1>1, <1>4, Zenon DEF NotBehind
<1>6. CASE TakeState(t)
  <2>1. pc'[t] = "handle" /\ seen' = seen /\ pc[t] = "reading"
    BY <1>0, <1>6, Zenon DEF TakeState, Goto
  <2>2. seen[t] = {}
    BY <1>0, <2>1, Zenon DEF Progress
  <2>3. HandleInv(t)'
    BY <2>1, <2>2, Zenon DEF HandleInv
  <2>4. QED
    BY <1>3, <2>3, Zenon
<1>7. CASE HandleRead(t)
  <2>1. PICK a \in todo[t] : seen'[t] = seen[t] \cup { << a, mkvs[a] >> }
    BY <1>0, <1>7, Zenon DEF HandleRead, ReadKey
  <2>2. pc'[t] = "handle" /\ pc[t] = "handle"
    BY <1>7, Zenon DEF HandleRead, ReadKey
  <2>3. NotBehind(mkvs[a], since[t], a)
    BY <1>0, <1>4, <2>1, NotOlder, Zenon DEF DInv
  <2>4. ASSUME NEW p \in seen'[t]
        PROVE  NotBehind(p[2], since[t], p[1])
    <3>1. CASE p \in seen[t]
      BY <1>0, <2>2, <3>1, Zenon DEF HandleInv
    <3>2. CASE p = << a, mkvs[a] >>
      <4>1. p[1] = a /\ p[2] = mkvs[a]
        BY <3>2
      <4>2. QED
        BY <2>3, <4>1, Zenon
    <3>3. QED
      BY <2>1, <2>4, <3>1, <3>2, Zenon
  <2>5. HandleInv(t)'
    BY <1>1, <1>5, <2>2, <2>4, Zenon DEF HandleInv, NotBehind
  <2>6. QED
    BY <1>3, <2>5, Zenon
<1>8. CASE HandleDone(t)
  <2>1. pc'[t] = "done" /\ pc[t] = "handle" /\ res'[t] = Ok(seen[t])
    BY <1>0, <1>8, Zenon DEF HandleDone, Finish, Goto
  <2>2. res'[t].val = seen[t]
    BY <2>1, ReplyFields, Zenon
  <2>3. HandleInv(t)'
    BY <1>0, <1>1, <1>5, <2>1, <2>2, Zenon DEF HandleInv, NotBehind
  <2>4. QED
    BY <1>3, <2>3, Zenon
<1>9. QED
  BY <1>6, <1>7, <1>8, Zenon

-----------------------------------------------------------------------------
(* While t mines, nobody else does, and every other task keeps its part.    *)
LEMMA MiningAlone ==
  ASSUME IInv, RInv, DInv, NEW t \in Threads, pc[t] \in WriterLabels, Step(t)
  PROVE  /\ ~ poisoned
         /\ \A u \in Threads \ {t} :
              /\ Untouched(u) /\ pc[u] \notin Late
              /\ BuiltInv(u)' /\ CommitInv(u)' /\ HandleInv(u)'
              /\ \A a : ~ Committed(u, a) /\ ~ Committed(u, a)'
         /\ \A a \in Accounts : /\ Committed(t, a) => mkvs[a] = AfterBlock(t, a)
                                /\ ~ Committed(t, a) => mkvs[a] = AccountOf(MinedChain, Height, a)
<1>1. ~ poisoned
  BY OnlyWriter, Zenon DEF IInv, RInv, PoisonInv
<1>2. ASSUME NEW u \in Threads \ {t}
      PROVE  /\ Untouched(u) /\ pc[u] \notin Late /\ pc[u] \notin Building
             /\ BuiltInv(u)' /\ CommitInv(u)' /\ HandleInv(u)'
             /\ \A a : ~ Committed(u, a) /\ ~ Committed(u, a)'
  <2>1. Untouched(u)
    BY OthersUntouched, Zenon DEF RInv
  <2>2. pc[u] \notin Late /\ pc[u] \notin Building
    BY OnlyWriter, Zenon DEF IInv, Late, Building, WriterLabels
  <2>3. BuiltInv(u)' /\ CommitInv(u)' /\ HandleInv(u)'
    <3>1. \A a : \A n \in 0 .. Height : AccountOf(MinedChain', n, a) = AccountOf(MinedChain, n, a)
      BY PastKept, Zenon DEF DInv
    <3>2. QED
      BY <2>1, <2>2, <3>1, OthersDatabase, Zenon DEF RInv, DInv
  <2>4. QED
    BY <2>1, <2>2, <2>3, Zenon DEF Committed, Untouched
<1>3. ASSUME NEW a \in Accounts
      PROVE  /\ Committed(t, a) => mkvs[a] = AfterBlock(t, a)
             /\ ~ Committed(t, a) => mkvs[a] = AccountOf(MinedChain, Height, a)
  BY <1>1, <1>2, Zenon DEF DInv, AccountInv
<1>4. QED
  BY <1>1, <1>2, <1>3, Zenon

(* The parts of the invariant about stored blocks and transactions, when    *)
(* the index does not change.                                               *)
LEMMA StoredKept ==
  ASSUME IInv, DInv, Grows(blocks, blocks'),
         block_number_to_hash' = block_number_to_hash,
         \A x \in DOMAIN transactions' :
           \/ x \in DOMAIN transactions /\ transactions'[x] = transactions[x]
           \/ /\ ~ Reached(transactions'[x].block_number)
              /\ \E u \in Threads : pc'[u] \in Late \ {"txn"} /\ req'[u].txn = x,
         \A u \in Threads : pc[u] \in Late \ {"txn"} =>
                              pc'[u] \in Late \ {"txn"} /\ req'[u] = req[u]
  PROVE  FilledInv' /\ \A x \in DOMAIN transactions' : PlacedInv(x)'
<1>1. \A i \in DOMAIN block_number_to_hash : blocks'[Keccak[i]] = blocks[Keccak[i]]
  BY ChainHeight, Zenon DEF Sealed, Grows
<1>2. FilledInv'
  <2>1. SUFFICES ASSUME NEW i \in DOMAIN block_number_to_hash \ {0}
                 PROVE  \E x \in Txns, k \in 0 .. MaxLogs :
                          blocks'[Keccak[i]] = NewBlock(i, Keccak[i - 1], x, k)
    BY Zenon DEF FilledInv
  <2>2. PICK x \in Txns, k \in 0 .. MaxLogs :
          blocks[Keccak[i]] = NewBlock(i, Keccak[i - 1], x, k)
    BY Zenon DEF DInv, FilledInv
  <2>3. blocks'[Keccak[i]] = NewBlock(i, Keccak[i - 1], x, k)
    BY <1>1, <2>2, Zenon
  <2>4. QED
    BY <2>3, Zenon
<1>3. ASSUME NEW x \in DOMAIN transactions'
      PROVE  PlacedInv(x)'
  <2>1. CASE x \in DOMAIN transactions /\ transactions'[x] = transactions[x]
    <3>1. PICK i : i = transactions[x].block_number
      BY Zenon
    <3>2. IF i \in DOMAIN block_number_to_hash THEN blocks[Keccak[i]].transactions = << x >>
          ELSE \E u \in Threads : pc[u] \in Late \ {"txn"} /\ req[u].txn = x
      BY <2>1, <3>1, Zenon DEF DInv, PlacedInv, Reached
    <3>3. IF i \in DOMAIN block_number_to_hash THEN blocks'[Keccak[i]].transactions = << x >>
          ELSE \E u \in Threads : pc'[u] \in Late \ {"txn"} /\ req'[u].txn = x
      BY <1>1, <3>2, Zenon
    <3>4. transactions'[x].block_number = i
      BY <2>1, <3>1, Zenon
    <3>5. QED
      BY <3>3, <3>4, Zenon DEF PlacedInv, Reached
  <2>2. CASE /\ ~ Reached(transactions'[x].block_number)
             /\ \E u \in Threads : pc'[u] \in Late \ {"txn"} /\ req'[u].txn = x
    BY <2>2, Zenon DEF PlacedInv, Reached
  <2>3. QED
    BY <1>3, <2>1, <2>2, Zenon
<1>4. QED
  BY <1>2, <1>3, Zenon

(* state.apply succeeds: the block is built and nothing is committed yet. *)
LEMMA ExecuteDInv ==
  ASSUME IInv, RInv, DInv, NEW t \in Threads, Execute(t)
  PROVE  DInv'
<1>0. /\ pc[t] = "execute" /\ pc[t] \in WriterLabels /\ Step(t)
      /\ DOMAIN pc = Threads /\ DOMAIN block = Threads /\ DOMAIN todo = Threads
      /\ UNCHANGED << mkvs, blocks, block_number_to_hash, transactions, req >>
  BY Zenon DEF Execute, WriterLabels, Step, MineBlock, IInv, TypeOK, TasksTypeOK,
               chainVars, mapVars, reqVars
<1>1. /\ ~ poisoned
      /\ \A u \in Threads \ {t} :
           /\ Untouched(u) /\ pc[u] \notin Late
           /\ BuiltInv(u)' /\ CommitInv(u)' /\ HandleInv(u)'
           /\ \A a : ~ Committed(u, a) /\ ~ Committed(u, a)'
      /\ \A a \in Accounts : ~ Committed(t, a) => mkvs[a] = AccountOf(MinedChain, Height, a)
  BY <1>0, MiningAlone, Zenon
<1>2. /\ Height = block_number /\ Height \in Nat /\ Sealed(Height) /\ Height \in 0 .. Height
      /\ \A u \in Threads : pc[u] \notin Late
  <2>1. \A u \in Threads : pc[u] \notin Late
    BY <1>0, <1>1, Zenon DEF Late
  <2>2. QED
    BY <2>1, ChainHeight
<1>3. Height' = Height /\ MinedChain' = MinedChain
  BY <1>0, SameChain, Zenon DEF Grows
<1>4. /\ GetBlockByNumber(block_number) # None
      /\ GetBlockByNumber(block_number)[1].hash = Keccak[Height]
  <2>1. /\ GetBlockByNumber(Height) = Some(blocks[Keccak[Height]])
        /\ GetBlockByNumber(Height) # None /\ blocks[Keccak[Height]].hash = Keccak[Height]
    BY <1>2, FoundByNumber, Zenon
  <2>2. GetBlockByNumber(Height)[1] = blocks[Keccak[Height]]
    BY <2>1, OptionFacts, Zenon
  <2>3. QED
    BY <1>2, <2>1, <2>2, Zenon
<1>5. PICK k \in 0 .. MaxLogs :
        /\ block'[t] = NewBlock(Height + 1, Keccak[Height], req[t].txn, k)
        /\ todo'[t] = Touched(req[t].txn) /\ pc'[t] = "commit"
        /\ req[t].txn.nonce = mkvs[req[t].txn.sender].nonce
  BY <1>0, <1>2, <1>4, Zenon DEF Execute, Goto
<1>6. FilledInv' /\ \A x \in DOMAIN transactions' : PlacedInv(x)'
  BY <1>0, <1>2, StoredKept, Zenon DEF Grows
<1>7. BuiltInv(t)'
  <2>1. block'[t].number = Height + 1 /\ block'[t].number - 1 = Height
    BY <1>2, <1>5 DEF NewBlock
  <2>2. block'[t] = NewBlock(block'[t].number, Keccak[block'[t].number - 1], req'[t].txn, k)
    <3>1. Keccak[block'[t].number - 1] = Keccak[Height]
      BY <2>1, Zenon
    <3>2. QED
      BY <1>0, <1>5, <2>1, <3>1, Zenon
  <2>3. QED
    BY <2>2, Zenon DEF BuiltInv
<1>8. CommitInv(t)'
  <2>1. ~ Committed(t, req[t].txn.sender)
    BY <1>0, Zenon DEF Committed, Building
  <2>2. req[t].txn.nonce = AccountOf(MinedChain, Height, req[t].txn.sender).nonce
    BY <1>0, <1>1, <1>5, <2>1, Miner, Zenon
  <2>3. QED
    BY <1>0, <1>3, <1>5, <2>2, Zenon DEF CommitInv, Building
<1>9. HandleInv(t)'
  BY <1>5, Zenon DEF HandleInv
<1>10. ASSUME NEW a \in Accounts
       PROVE  AccountInv(a)' /\ NotBehind(mkvs[a], Height, a)'
  <2>1. ~ Committed(t, a) /\ ~ Committed(t, a)'
    BY <1>0, <1>5, Zenon DEF Committed, Building
  <2>2. AccountInv(a)'
    BY <1>0, <1>1, <1>3, <2>1, Zenon DEF AccountInv
  <2>3. NotBehind(mkvs[a], Height, a)'
    BY <1>0, <1>3, Zenon DEF DInv, NotBehind
  <2>4. QED
    BY <2>2, <2>3, Zenon
<1>11. QED
  BY <1>1, <1>6, <1>7, <1>8, <1>9, <1>10, Zenon DEF DInv

(* One account of the commit. *)
LEMMA CommitKeyDInv ==
  ASSUME AccountLaws, IInv, RInv, DInv, NEW t \in Threads, CommitKey(t)
  PROVE  DInv'
<1>0. /\ pc[t] = "commit" /\ pc[t] \in WriterLabels /\ pc[t] \in Building /\ Step(t)
      /\ DOMAIN pc = Threads /\ DOMAIN todo = Threads /\ DOMAIN mkvs = Accounts
      /\ UNCHANGED << blocks, block_number_to_hash, transactions, req, block >>
      /\ todo[t] \subseteq Accounts
  BY Zenon DEF CommitKey, WriterLabels, Building, Step, MineBlock, IInv, TypeOK,
               TasksTypeOK, ChainTypeOK, mapVars, reqVars
<1>1. /\ ~ poisoned
      /\ \A u \in Threads \ {t} :
           /\ Untouched(u) /\ pc[u] \notin Late
           /\ BuiltInv(u)' /\ CommitInv(u)' /\ HandleInv(u)'
           /\ \A a : ~ Committed(u, a) /\ ~ Committed(u, a)'
      /\ \A a \in Accounts : /\ Committed(t, a) => mkvs[a] = AfterBlock(t, a)
                             /\ ~ Committed(t, a) => mkvs[a] = AccountOf(MinedChain, Height, a)
  BY <1>0, MiningAlone, Zenon
<1>2. \A u \in Threads : pc[u] \notin Late
  BY <1>0, <1>1, Zenon DEF Late
<1>3. Height' = Height /\ MinedChain' = MinedChain
  BY <1>0, SameChain, Zenon DEF Grows
<1>4. Height = block_number /\ Height \in Nat /\ block[t].number = Height + 1
  <2>1. BlockIs(t, block_number + 1)
    BY <1>0, Zenon DEF IInv, ChainInv, MinerInv
  <2>2. QED
    BY <1>2, <2>1, ChainHeight DEF BlockIs
<1>5. PICK b \in todo[t] :
        /\ mkvs' = [mkvs EXCEPT ![b] =
                      [nonce   |-> IF b = req[t].txn.sender THEN @.nonce + 1 ELSE @.nonce,
                       written |-> block[t].number]]
        /\ todo'[t] = todo[t] \ {b}
        /\ pc'[t] = IF todo[t] = {b} THEN "number" ELSE "commit"
  BY <1>0, Zenon DEF CommitKey, Goto
<1>6. /\ todo[t] \subseteq Touched(req[t].txn) /\ pc'[t] \in Building
      /\ req[t].txn.nonce = AccountOf(MinedChain, Height, req[t].txn.sender).nonce
  BY <1>0, <1>5, Zenon DEF DInv, CommitInv, Building, WriterLabels
<1>7. FilledInv' /\ \A x \in DOMAIN transactions' : PlacedInv(x)'
  BY <1>0, <1>2, StoredKept, Zenon DEF Grows
<1>8. BuiltInv(t)'
  BY <1>0, Zenon DEF DInv, BuiltInv
<1>9. CommitInv(t)'
  <2>1. pc'[t] = "commit" => todo'[t] \subseteq Touched(req'[t].txn)
    BY <1>0, <1>5, <1>6, Zenon
  <2>2. pc'[t] # "commit" => todo'[t] = {}
    BY <1>5, Zenon
  <2>3. QED
    BY <1>0, <1>3, <1>6, <2>1, <2>2, Zenon DEF CommitInv
<1>10. HandleInv(t)'
  BY <1>5, Zenon DEF HandleInv
<1>11. PICK now : now = AccountOf(MinedChain, Height, b)
  BY Zenon
<1>12. mkvs[b] = now /\ now.nonce \in Nat /\ now.written \in 0 .. Height
  <2>1. mkvs[b] = now
    BY <1>0, <1>1, <1>5, <1>11, Zenon DEF Committed
  <2>2. QED
    BY <1>4, <1>11, <2>1, TypeLaw, Zenon
<1>13. mkvs'[b] = [nonce   |-> now.nonce + (IF b = req[t].txn.sender THEN 1 ELSE 0),
                   written |-> Height + 1]
  <2>1. mkvs'[b] = [nonce   |-> IF b = req[t].txn.sender THEN now.nonce + 1 ELSE now.nonce,
                    written |-> Height + 1]
    BY <1>0, <1>4, <1>5, <1>12, Zenon
  <2>2. now.nonce + 0 = now.nonce
    BY <1>12
  <2>3. CASE b = req[t].txn.sender
    BY <2>1, <2>3
  <2>4. CASE b # req[t].txn.sender
    BY <2>1, <2>2, <2>4
  <2>5. QED
    BY <2>3, <2>4, Zenon
<1>14. ASSUME NEW a \in Accounts
       PROVE  AccountInv(a)' /\ NotBehind(mkvs[a], Height, a)'
  <2>1. CASE a = b
    <3>1. Committed(t, a)' /\ mkvs'[a] = AfterBlock(t, a)'
      BY <1>0, <1>3, <1>4, <1>5, <1>6, <1>11, <1>13, <2>1, Zenon DEF Committed, AfterBlock
    <3>2. mkvs'[a].nonce >= now.nonce /\ mkvs'[a].written >= now.written
      BY <1>4, <1>12, <1>13, <2>1
    <3>3. QED
      BY <1>3, <1>11, <2>1, <3>1, <3>2, Zenon DEF AccountInv, NotBehind
  <2>2. CASE a # b
    <3>1. mkvs'[a] = mkvs[a]
      BY <1>0, <1>5, <2>2, Zenon
    <3>2. /\ Committed(t, a)' <=> Committed(t, a)
          /\ AfterBlock(t, a)' = AfterBlock(t, a)
      BY <1>0, <1>3, <1>5, <1>6, <2>2, Zenon DEF Committed, AfterBlock
    <3>3. AccountInv(a)'
      <4>1. CASE Committed(t, a)
        <5>1. Committed(t, a)' /\ mkvs'[a] = AfterBlock(t, a)'
          BY <1>1, <3>1, <3>2, <4>1, Zenon
        <5>2. QED
          BY <5>1, Zenon DEF AccountInv
      <4>2. CASE ~ Committed(t, a)
        <5>1. \A u \in Threads : ~ Committed(u, a)'
          BY <1>1, <3>2, <4>2, Zenon
        <5>2. mkvs'[a] = AccountOf(MinedChain', Height', a)
          BY <1>1, <1>3, <3>1, <4>2, Zenon
        <5>3. QED
          BY <5>1, <5>2, Zenon DEF AccountInv
      <4>3. QED
        BY <4>1, <4>2, Zenon
    <3>4. NotBehind(mkvs[a], Height, a)'
      BY <1>3, <3>1, Zenon DEF DInv, NotBehind
    <3>5. QED
      BY <3>3, <3>4, Zenon
  <2>3. QED
    BY <2>1, <2>2, Zenon
<1>15. QED
  BY <1>1, <1>7, <1>8, <1>9, <1>10, <1>14, Zenon DEF DInv

(* The inserts of mine_block but the last: the database and the index stay. *)
LEMMA InsertDInv ==
  ASSUME IInv, RInv, DInv, NEW t \in Threads,
         SetBlockNumber(t) \/ StoreTxn(t) \/ StoreReceipt(t) \/ StoreBlock(t)
  PROVE  DInv'
<1>0. /\ pc[t] \in {"number", "txn", "receipt", "block"}
      /\ pc'[t] \in {"txn", "receipt", "block", "index"} /\ Step(t)
      /\ UNCHANGED << mkvs, block_number_to_hash, req, block, todo >>
      /\ \/ transactions' = transactions
         \/ /\ pc[t] = "txn" /\ pc'[t] = "receipt"
            /\ transactions' = Insert(transactions, req[t].txn,
                                 LocalizedTxn(block[t].number, block[t].hash, req[t].txn))
  <2>1. DOMAIN pc = Threads
    BY Zenon DEF IInv, TypeOK, TasksTypeOK
  <2>2. Step(t)
    BY Zenon DEF Step, MineBlock
  <2>3. QED
    BY <2>1, <2>2, Zenon DEF SetBlockNumber, StoreTxn, StoreReceipt, StoreBlock, Goto,
                             reqVars, mapVars, localVars
<1>1. /\ pc[t] \in WriterLabels /\ pc[t] \in Building \ {"commit"}
      /\ pc'[t] \in Building \ {"commit"} /\ pc'[t] \in Late
      /\ pc'[t] # "handle" /\ pc'[t] # "done"
  BY <1>0, Zenon DEF Building, WriterLabels, Late
<1>2. /\ ~ poisoned
      /\ \A u \in Threads \ {t} :
           /\ Untouched(u) /\ pc[u] \notin Late
           /\ BuiltInv(u)' /\ CommitInv(u)' /\ HandleInv(u)'
           /\ \A a : ~ Committed(u, a) /\ ~ Committed(u, a)'
      /\ \A a \in Accounts : /\ Committed(t, a) => mkvs[a] = AfterBlock(t, a)
                             /\ ~ Committed(t, a) => mkvs[a] = AccountOf(MinedChain, Height, a)
  BY <1>0, <1>1, MiningAlone, Zenon
<1>3. Grows(blocks, blocks')
  BY <1>0, StepAppends, Zenon
<1>4. Height' = Height /\ MinedChain' = MinedChain
  BY <1>0, <1>3, SameChain, Zenon
<1>5. ASSUME NEW x \in DOMAIN transactions'
      PROVE  \/ x \in DOMAIN transactions /\ transactions'[x] = transactions[x]
             \/ /\ ~ Reached(transactions'[x].block_number)
                /\ \E u \in Threads : pc'[u] \in Late \ {"txn"} /\ req'[u].txn = x
  <2>1. CASE transactions' = transactions
    BY <1>5, <2>1, Zenon
  <2>2. CASE /\ pc[t] = "txn" /\ pc'[t] = "receipt"
             /\ transactions' = Insert(transactions, req[t].txn,
                                  LocalizedTxn(block[t].number, block[t].hash, req[t].txn))
    <3>1. CASE x = req[t].txn
      <4>1. transactions'[x].block_number = block[t].number
        BY <2>2, <3>1 DEF Insert, LocalizedTxn
      <4>2. pc[t] \in Late /\ pc'[t] \in Late \ {"txn"}
        BY <2>2, Zenon DEF Late
      <4>3. Height \in Nat /\ DOMAIN block_number_to_hash = 0 .. Height
            /\ Height = block_number - 1
        BY <4>2, ChainHeight, Zenon
      <4>4. block[t].number = block_number /\ block_number \in Nat
        BY <4>2, LateFacts DEF BlockIs
      <4>5. ~ Reached(transactions'[x].block_number)
        BY <4>1, <4>3, <4>4 DEF Reached
      <4>6. QED
        BY <1>0, <3>1, <4>2, <4>5, Zenon
    <3>2. CASE x # req[t].txn
      BY <1>5, <2>2, <3>2, Zenon DEF Insert
    <3>3. QED
      BY <3>1, <3>2, Zenon
  <2>3. QED
    BY <1>0, <2>1, <2>2, Zenon
<1>6. \A u \in Threads : pc[u] \in Late \ {"txn"} =>
                           pc'[u] \in Late \ {"txn"} /\ req'[u] = req[u]
  <2>1. pc[t] \in Late \ {"txn"} => pc'[t] \in Late \ {"txn"}
    <3>1. DOMAIN pc = Threads
      BY Zenon DEF IInv, TypeOK, TasksTypeOK
    <3>2. QED
      BY <3>1, Zenon DEF SetBlockNumber, StoreTxn, StoreReceipt, StoreBlock, Goto, Late
  <2>2. QED
    BY <1>0, <1>2, <2>1, Zenon
<1>7. FilledInv' /\ \A x \in DOMAIN transactions' : PlacedInv(x)'
  BY <1>0, <1>3, <1>5, <1>6, StoredKept, Zenon
<1>8. BuiltInv(t)' /\ CommitInv(t)' /\ HandleInv(t)'
  <2>1. BuiltInv(t)'
    BY <1>0, <1>1, Zenon DEF DInv, BuiltInv
  <2>2. CommitInv(t)'
    BY <1>0, <1>1, <1>4, Zenon DEF DInv, CommitInv
  <2>3. HandleInv(t)'
    BY <1>1, Zenon DEF HandleInv
  <2>4. QED
    BY <2>1, <2>2, <2>3, Zenon
<1>9. ASSUME NEW a \in Accounts
      PROVE  AccountInv(a)' /\ NotBehind(mkvs[a], Height, a)'
  <2>1. /\ Committed(t, a)' <=> Committed(t, a)
        /\ AfterBlock(t, a)' = AfterBlock(t, a)
    BY <1>0, <1>1, <1>4, Zenon DEF Committed, AfterBlock
  <2>2. AccountInv(a)'
    <3>1. CASE Committed(t, a)
      <4>1. Committed(t, a)' /\ mkvs'[a] = AfterBlock(t, a)'
        BY <1>0, <1>2, <2>1, <3>1, Zenon
      <4>2. QED
        BY <4>1, Zenon DEF AccountInv
    <3>2. CASE ~ Committed(t, a)
      <4>1. \A u \in Threads : ~ Committed(u, a)'
        BY <1>2, <2>1, <3>2, Zenon
      <4>2. mkvs'[a] = AccountOf(MinedChain', Height', a)
        BY <1>0, <1>2, <1>4, <3>2, Zenon
      <4>3. QED
        BY <4>1, <4>2, Zenon DEF AccountInv
    <3>3. QED
      BY <3>1, <3>2, Zenon
  <2>3. NotBehind(mkvs[a], Height, a)'
    BY <1>0, <1>4, Zenon DEF DInv, NotBehind
  <2>4. QED
    BY <2>2, <2>3, Zenon
<1>10. QED
  BY <1>2, <1>7, <1>8, <1>9, Zenon DEF DInv

(* The last insert: the chain the accounts follow grows by the block. *)
LEMMA IndexAccounts ==
  ASSUME AccountLaws, IInv, RInv, DInv, NEW t \in Threads, StoreIndex(t), NEW a \in Accounts
  PROVE  /\ mkvs'[a] = AccountOf(MinedChain', Height', a)
         /\ ~ Committed(t, a)'
         /\ AccountInv(a)' /\ NotBehind(mkvs[a], Height, a)'
<1>0. /\ pc[t] = "index" /\ pc[t] \in WriterLabels /\ pc[t] \in Building /\ pc[t] # "commit"
      /\ pc'[t] = "done" /\ Step(t) /\ mkvs' = mkvs
  <2>1. DOMAIN pc = Threads
    BY Zenon DEF IInv, TypeOK, TasksTypeOK
  <2>2. QED
    BY <2>1, Zenon DEF StoreIndex, Step, MineBlock, WriterLabels, Building, Finish, Goto
<1>1. /\ \A u \in Threads \ {t} : ~ Committed(u, a)'
      /\ Committed(t, a) => mkvs[a] = AfterBlock(t, a)
      /\ ~ Committed(t, a) => mkvs[a] = AccountOf(MinedChain, Height, a)
  BY <1>0, MiningAlone, Zenon
<1>2. /\ Height \in Nat /\ Height' = Height + 1 /\ block[t].number = Height + 1
      /\ \A i \in 1 .. Height : MinedChain'[i] = MinedChain[i]
      /\ MinedChain'[Height + 1].txn = req[t].txn
  BY NewChain, ChainHeight, Zenon DEF DInv
<1>3. todo[t] = {} /\ req[t].txn.sender \in Touched(req[t].txn)
  BY <1>0, Zenon DEF DInv, CommitInv, Touched
<1>4. PICK h, c, d, old, new : /\ h = Height /\ c = MinedChain /\ d = MinedChain'
                               /\ old = AccountOf(c, h, a) /\ new = AccountOf(d, h + 1, a)
  BY Zenon
<1>5. AccountOf(d, h, a) = old
  BY <1>2, <1>4, AccountSame, Zenon
<1>6. /\ new.nonce = old.nonce + (IF a = req[t].txn.sender THEN 1 ELSE 0)
      /\ new.written = IF a \in Touched(req[t].txn) THEN h + 1 ELSE old.written
      /\ old.nonce \in Nat /\ old.written \in 0 .. h /\ h \in Nat
  <2>1. h \in Nat
    BY <1>2, <1>4, Zenon
  <2>2. /\ a = d[h + 1].txn.sender => new.nonce = AccountOf(d, h, a).nonce + 1
        /\ a # d[h + 1].txn.sender => new.nonce = AccountOf(d, h, a).nonce
        /\ a \in Touched(d[h + 1].txn) => new.written = h + 1
        /\ a \notin Touched(d[h + 1].txn) => new.written = AccountOf(d, h, a).written
    <3>1. new = AccountOf(d, h + 1, a)
      BY <1>4, Zenon
    <3>2. /\ a = d[h + 1].txn.sender =>
               AccountOf(d, h + 1, a).nonce = AccountOf(d, h, a).nonce + 1
          /\ a # d[h + 1].txn.sender =>
               AccountOf(d, h + 1, a).nonce = AccountOf(d, h, a).nonce
          /\ a \in Touched(d[h + 1].txn) => AccountOf(d, h + 1, a).written = h + 1
          /\ a \notin Touched(d[h + 1].txn) =>
               AccountOf(d, h + 1, a).written = AccountOf(d, h, a).written
      BY <2>1, BlockLaw, Zenon
    <3>3. QED
      BY <3>1, <3>2, Zenon
  <2>3. old.nonce \in Nat /\ old.written \in 0 .. h
    BY <1>4, <2>1, TypeLaw, Zenon
  <2>4. d[h + 1].txn = req[t].txn
    BY <1>2, <1>4, Zenon
  <2>5. /\ a = req[t].txn.sender => new.nonce = old.nonce + 1
        /\ a # req[t].txn.sender => new.nonce = old.nonce + 0
        /\ a \in Touched(req[t].txn) => new.written = h + 1
        /\ a \notin Touched(req[t].txn) => new.written = old.written
    <3>1. old.nonce + 0 = old.nonce
      BY <2>3
    <3>2. QED
      BY <1>5, <2>2, <2>4, <3>1, Zenon
  <2>6. QED
    BY <2>1, <2>3, <2>5, Zenon
<1>7. /\ new = [nonce |-> new.nonce, written |-> new.written]
      /\ old = [nonce |-> old.nonce, written |-> old.written]
  BY <1>4, AccountFields, Zenon
<1>8. mkvs[a] = new
  <2>1. CASE a \in Touched(req[t].txn)
    <3>1. Committed(t, a)
      BY <1>0, <1>3, <2>1, Zenon DEF Committed
    <3>2. mkvs[a] = [nonce   |-> old.nonce + (IF a = req[t].txn.sender THEN 1 ELSE 0),
                     written |-> h + 1]
      BY <1>1, <1>2, <1>4, <3>1, Zenon DEF AfterBlock
    <3>3. new.written = h + 1
      BY <1>6, <2>1, Zenon
    <3>4. QED
      BY <1>6, <1>7, <3>2, <3>3, Zenon
  <2>2. CASE a \notin Touched(req[t].txn)
    <3>1. ~ Committed(t, a) /\ a # req[t].txn.sender
      BY <1>3, <2>2, Zenon DEF Committed
    <3>2. new.nonce = old.nonce /\ new.written = old.written
      BY <1>6, <2>2, <3>1
    <3>3. QED
      BY <1>1, <1>4, <1>7, <3>1, <3>2, Zenon
  <2>3. QED
    BY <2>1, <2>2, Zenon
<1>9. mkvs'[a] = AccountOf(MinedChain', Height', a) /\ ~ Committed(t, a)'
  <2>1. mkvs'[a] = AccountOf(MinedChain', Height', a)
    BY <1>0, <1>2, <1>4, <1>8, Zenon
  <2>2. ~ Committed(t, a)'
    BY <1>0, Zenon DEF Committed, Building, WriterLabels
  <2>3. QED
    BY <2>1, <2>2, Zenon
<1>10. AccountInv(a)'
  <2>1. \A u \in Threads : ~ Committed(u, a)'
    BY <1>1, <1>9, Zenon
  <2>2. QED
    BY <1>9, <2>1, Zenon DEF AccountInv
<1>11. NotBehind(mkvs[a], Height, a)'
  <2>1. new.nonce \in Nat /\ new.written \in Nat
    BY <1>6
  <2>2. new.nonce >= new.nonce /\ new.written >= new.written
    BY <2>1
  <2>3. mkvs'[a] = new /\ AccountOf(MinedChain', Height', a) = new
    BY <1>0, <1>8, <1>9, Zenon
  <2>4. QED
    BY <2>2, <2>3, Zenon DEF NotBehind
<1>12. QED
  BY <1>9, <1>10, <1>11, Zenon

(* The last insert of mine_block keeps the invariant: the chain catches up   *)
(* with the database.                                                        *)
LEMMA IndexDInv ==
  ASSUME AccountLaws, IInv, RInv, DInv, NEW t \in Threads, StoreIndex(t)
  PROVE  DInv'
<1>0. /\ pc[t] = "index" /\ pc[t] \in WriterLabels /\ pc[t] \in Building /\ pc[t] \in Late
      /\ pc'[t] = "done" /\ Step(t)
      /\ UNCHANGED << blocks, transactions, req >>
      /\ block_number_to_hash' = Insert(block_number_to_hash, block[t].number, block[t].hash)
  <2>1. DOMAIN pc = Threads
    BY Zenon DEF IInv, TypeOK, TasksTypeOK
  <2>2. QED
    BY <2>1, Zenon DEF StoreIndex, Step, MineBlock, WriterLabels, Building, Late, Finish, Goto,
                       reqVars
<1>1. \A u \in Threads \ {t} :
        /\ pc[u] \notin Late
        /\ BuiltInv(u)' /\ CommitInv(u)' /\ HandleInv(u)'
  BY <1>0, MiningAlone, Zenon
<1>2. BuiltInv(t)' /\ CommitInv(t)'
  BY <1>0, Zenon DEF BuiltInv, CommitInv, Building, WriterLabels
<1>3. HandleInv(t)'
  <2>1. req'[t].op # "state"
    BY <1>0, Miner, Zenon
  <2>2. QED
    BY <1>0, <2>1, Zenon DEF HandleInv
<1>4. /\ Height \in Nat /\ block_number = Height + 1 /\ block[t].number = Height + 1
      /\ DOMAIN block_number_to_hash = 0 .. Height
      /\ DOMAIN block_number_to_hash' = (0 .. Height) \cup {Height + 1}
      /\ blocks[Keccak[Height + 1]] = block[t]
      /\ block[t].transactions = << req[t].txn >>
      /\ transactions[req[t].txn].block_number = Height + 1
      /\ (Height + 1) - 1 = Height
  <2>1. /\ Height \in Nat /\ Height = block_number - 1
        /\ DOMAIN block_number_to_hash = 0 .. Height
    BY <1>0, ChainHeight, Zenon
  <2>2. block_number \in Nat /\ BlockIs(t, block_number)
    BY <1>0, LateFacts
  <2>3. block_number = Height + 1 /\ (Height + 1) - 1 = Height
    BY <2>1, <2>2
  <2>4. /\ blocks[Keccak[block_number]] = block[t]
        /\ transactions[req[t].txn] = LocalizedTxn(block_number, Keccak[block_number], req[t].txn)
    BY <1>0, Zenon DEF IInv, ChainInv, LateInv
  <2>5. transactions[req[t].txn].block_number = block_number
    BY <2>4 DEF LocalizedTxn
  <2>6. DOMAIN block_number_to_hash' = DOMAIN block_number_to_hash \cup {block[t].number}
    BY <1>0, Zenon DEF Insert
  <2>7. QED
    BY <2>1, <2>2, <2>3, <2>4, <2>5, <2>6, Zenon DEF BlockIs
<1>5. FilledInv'
  <2>1. SUFFICES ASSUME NEW i \in DOMAIN block_number_to_hash' \ {0}
                 PROVE  \E x \in Txns, k \in 0 .. MaxLogs :
                          blocks[Keccak[i]] = NewBlock(i, Keccak[i - 1], x, k)
    BY <1>0, Zenon DEF FilledInv
  <2>2. CASE i = Height + 1
    <3>1. PICK k \in 0 .. MaxLogs :
            block[t] = NewBlock(block[t].number, Keccak[block[t].number - 1], req[t].txn, k)
      BY <1>0, Zenon DEF DInv, BuiltInv
    <3>2. block[t].number = i /\ blocks[Keccak[i]] = block[t] /\ req[t].txn \in Txns
      BY <1>0, <1>4, <2>2, Miner, Zenon
    <3>3. blocks[Keccak[i]] = NewBlock(i, Keccak[i - 1], req[t].txn, k)
      BY <3>1, <3>2
    <3>4. QED
      BY <3>2, <3>3, Zenon
  <2>3. CASE i \in DOMAIN block_number_to_hash
    BY <2>1, <2>3, Zenon DEF DInv, FilledInv
  <2>4. QED
    BY <1>4, <2>2, <2>3, Zenon
<1>6. ASSUME NEW x \in DOMAIN transactions'
      PROVE  PlacedInv(x)'
  <2>1. PICK i : i = transactions[x].block_number
    BY Zenon
  <2>2. IF i \in DOMAIN block_number_to_hash THEN blocks[Keccak[i]].transactions = << x >>
        ELSE \E u \in Threads : pc[u] \in Late \ {"txn"} /\ req[u].txn = x
    BY <1>0, <1>6, <2>1, Zenon DEF DInv, PlacedInv, Reached
  <2>3. i \in DOMAIN block_number_to_hash' /\ blocks'[Keccak[i]].transactions = << x >>
    <3>1. CASE i \in DOMAIN block_number_to_hash
      BY <1>0, <1>4, <2>2, <3>1, Zenon
    <3>2. CASE i \notin DOMAIN block_number_to_hash
      <4>1. x = req[t].txn
        BY <1>1, <2>2, <3>2, Zenon
      <4>2. i = Height + 1
        BY <1>4, <2>1, <4>1, Zenon
      <4>3. QED
        BY <1>0, <1>4, <4>1, <4>2, Zenon
    <3>3. QED
      BY <3>1, <3>2, Zenon
  <2>4. transactions'[x].block_number = i
    BY <1>0, <2>1, Zenon
  <2>5. QED
    BY <2>3, <2>4, Zenon DEF PlacedInv, Reached
<1>7. \A a \in Accounts : AccountInv(a)' /\ NotBehind(mkvs[a], Height, a)'
  BY IndexAccounts, Zenon
<1>8. QED
  BY <1>1, <1>2, <1>3, <1>5, <1>6, <1>7, Zenon DEF DInv

-----------------------------------------------------------------------------
(* The invariant holds of the genesis block and the empty database. *)
LEMMA InitDInv ==
  ASSUME AccountLaws, Init
  PROVE  DInv
<1>1. /\ DOMAIN block_number_to_hash = {0} /\ DOMAIN transactions = {}
      /\ \A t \in Threads : pc[t] = "idle"
      /\ \A a \in Accounts : mkvs[a] = [nonce |-> 0, written |-> 0]
  <2>1. DOMAIN transactions = {}
    BY DEF Init
  <2>2. QED
    BY <2>1, Zenon DEF Init
<1>2. Height = 0
  <2>1. IInv
    BY InitIInv, Zenon
  <2>2. Height \in Nat /\ DOMAIN block_number_to_hash = 0 .. Height
    BY <2>1, ChainHeight, Zenon
  <2>3. Height \in 0 .. Height
    BY <2>2
  <2>4. QED
    BY <1>1, <2>2, <2>3, Zenon
<1>3. FilledInv /\ \A x \in DOMAIN transactions : PlacedInv(x)
  BY <1>1, Zenon DEF FilledInv
<1>4. \A t \in Threads : /\ BuiltInv(t) /\ CommitInv(t) /\ HandleInv(t)
                         /\ \A a : ~ Committed(t, a)
  BY <1>1, Zenon DEF BuiltInv, CommitInv, HandleInv, Committed, Building, WriterLabels
<1>5. ASSUME NEW a \in Accounts
      PROVE  AccountInv(a) /\ NotBehind(mkvs[a], Height, a)
  <2>1. PICK now : now = AccountOf(MinedChain, Height, a)
    BY Zenon
  <2>2. now = [nonce |-> 0, written |-> 0] /\ mkvs[a] = now
    BY <1>1, <1>2, <2>1, Zenon DEF AccountLaws
  <2>3. mkvs[a].nonce >= now.nonce /\ mkvs[a].written >= now.written
    BY <2>2
  <2>4. AccountInv(a)
    BY <1>4, <2>1, <2>2, Zenon DEF AccountInv
  <2>5. NotBehind(mkvs[a], Height, a)
    BY <2>1, <2>3, Zenon DEF NotBehind
  <2>6. QED
    BY <2>4, <2>5, Zenon
<1>6. QED
  BY <1>3, <1>4, <1>5, Zenon DEF DInv

(* A step of nobody keeps the invariant. *)
LEMMA StutterDInv ==
  ASSUME IInv, DInv, UNCHANGED vars
  PROVE  DInv'
<1>1. UNCHANGED << req, since, res, pc, poisoned, mkvs, blocks, block_number_to_hash,
                   transactions, block, todo, seen >>
  BY Zenon DEF vars, reqVars, lockVars, chainVars, mapVars, localVars, rangeVars
<1>2. Height' = Height /\ MinedChain' = MinedChain
  BY <1>1, SameChain, Zenon DEF Grows
<1>3. FilledInv' /\ \A x \in DOMAIN transactions' : PlacedInv(x)'
  BY <1>1, StoredKept, Zenon DEF Grows
<1>4. \A v, n, a : NotBehind(v, n, a) => NotBehind(v, n, a)'
  BY <1>2, Zenon DEF NotBehind
<1>5. ASSUME NEW t \in Threads PROVE BuiltInv(t)' /\ CommitInv(t)' /\ HandleInv(t)'
  <2>1. BuiltInv(t) /\ CommitInv(t) /\ HandleInv(t)
    BY Zenon DEF DInv
  <2>2. BuiltInv(t)'
    BY <1>1, <2>1, Zenon DEF BuiltInv
  <2>3. CommitInv(t)'
    BY <1>1, <1>2, <2>1, Zenon DEF CommitInv
  <2>4. HandleInv(t)'
    BY <1>1, <1>4, <2>1, Zenon DEF HandleInv
  <2>5. QED
    BY <2>2, <2>3, <2>4, Zenon
<1>6. ASSUME NEW a \in Accounts
      PROVE  (AccountInv(a) => AccountInv(a)') /\ NotBehind(mkvs[a], Height, a)'
  <2>1. NotBehind(mkvs[a], Height, a)'
    BY <1>1, <1>2, Zenon DEF DInv, NotBehind
  <2>2. AccountInv(a) => AccountInv(a)'
    BY <1>1, <1>2, Zenon DEF AccountInv, Committed, AfterBlock
  <2>3. QED
    BY <2>1, <2>2, Zenon
<1>7. QED
  BY <1>1, <1>3, <1>5, <1>6, Zenon DEF DInv

(* Every step of Blockchain keeps the invariant. *)
LEMMA NextDInv ==
  ASSUME AccountLaws, IInv, RInv, DInv, [Next]_vars
  PROVE  DInv'
<1>1. CASE UNCHANGED vars
  BY <1>1, StutterDInv, Zenon
<1>2. CASE Next
  <2>1. PICK t \in Threads : Step(t) \/ Return(t) \/ \E r \in Requests : Call(t, r)
    BY <1>2, Zenon DEF Next
  <2>2. CASE Execute(t)
    BY <2>2, ExecuteDInv, Zenon
  <2>3. CASE CommitKey(t)
    BY <2>3, CommitKeyDInv, Zenon
  <2>4. CASE SetBlockNumber(t) \/ StoreTxn(t) \/ StoreReceipt(t) \/ StoreBlock(t)
    BY <2>4, InsertDInv, Zenon
  <2>5. CASE StoreIndex(t)
    BY <2>5, IndexDInv, Zenon
  <2>6. CASE TakeState(t) \/ HandleRead(t) \/ HandleDone(t)
    BY <2>1, <2>6, HandleSteps, QuietDInv, Zenon
  <2>7. CASE \/ Return(t) \/ \E r \in Requests : Call(t, r)
             \/ CheckTxn(t) \/ AcquireWrite(t) \/ ExecuteErr(t) \/ MinePanic(t)
             \/ Query(t) /\ ~ TakeState(t) /\ ~ HandleRead(t) /\ ~ HandleDone(t)
    BY <2>1, <2>7, QuietSteps, QuietDInv, Zenon
  <2>8. QED
    BY <2>1, <2>2, <2>3, <2>4, <2>5, <2>6, <2>7, Zenon DEF Step, MineBlock
<1>3. QED
  BY <1>1, <1>2, Zenon
=============================================================================

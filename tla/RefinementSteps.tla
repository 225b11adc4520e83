-------------------------- MODULE RefinementSteps ---------------------------
(***************************************************************************)
(* Every step of Blockchain is a step of Ledger or none, and its replies   *)
(* are ones the ledger allows, given the invariants of BlockchainInv,      *)
(* BlockchainAnswers and LedgerInv.                                        *)
(***************************************************************************)
EXTENDS LedgerProofs

(* The ledger counts as the implementation does. *)
LEMMA SameCardinality ==
  ASSUME NEW S
  PROVE  L!Cardinality(S) = Cardinality(S)
BY Zenon DEF L!Cardinality, Cardinality

(* Ledger!AccountAt of the mined chain, before and after a step. *)
LEMMA AccountIs ==
  ASSUME NEW n, NEW a
  PROVE  /\ L!AccountAt(n, a) = AccountOf(MinedChain, n, a)
         /\ L!AccountAt(n, a)' = AccountOf(MinedChain', n, a)
BY SameCardinality, Zenon
DEF L!AccountAt, AccountOf, Sent, Writes, L!Touched, Touched, L!Greatest, Greatest,
    L!Cardinality, Cardinality

(* Between two runs of mine_block nothing is half committed. *)
LEMMA Replayed ==
  IInv /\ DInv => DatabaseIsReplay
<1> SUFFICES ASSUME IInv, DInv, writers = {}, ~ poisoned, NEW a \in Accounts
             PROVE  mkvs[a] = L!AccountAt(Height, a)
  BY Zenon DEF DatabaseIsReplay
<1>1. \A t \in Threads : ~ Committed(t, a)
  BY Zenon DEF IInv, LockInv, Committed, Building
<1>2. mkvs[a] = AccountOf(MinedChain, Height, a)
  BY <1>1, Zenon DEF DInv, AccountInv
<1>3. QED
  BY <1>2, AccountIs, Zenon

-----------------------------------------------------------------------------
(* The data of the ledger is that of the implementation. *)
LEMMA LedgerData ==
  /\ L!None = None /\ L!NoReply = NoReply /\ L!NoRequest = NoRequest
  /\ L!Panicked = Panicked /\ L!Latest = Latest
  /\ \A x : /\ L!Ok(x) = Ok(x) /\ L!Err(x) = Err(x) /\ L!Some(x) = Some(x)
            /\ L!Refusal(x) = Refusal(x)
  /\ \A n, h, x : L!LocalizedTxn(n, h, x) = LocalizedTxn(n, h, x)
  /\ \A n, h, x, s : L!LocalizedReceipt(n, h, x, s) = LocalizedReceipt(n, h, x, s)
BY Zenon
DEF L!None, None, L!NoReply, NoReply, L!NoRequest, NoRequest, L!Panicked, Panicked,
    L!Latest, Latest, L!Ok, Ok, L!Err, Err, L!Some, Some, L!Refusal, Refusal,
    L!LocalizedTxn, LocalizedTxn, L!LocalizedReceipt, LocalizedReceipt

(* The replies of the ledger, request by request. *)
LEMMA BlockReplies ==
  ASSUME NEW t, req[t].op = "block", NEW n, n = L!Resolve(req[t].id, L!Height)
  PROVE  L!Replies(t) = { Ok(IF n = None THEN None ELSE Some(L!BlockAt(n[1]))) }
BY LedgerData, Zenon DEF L!Replies

(* The reply to get_txn_by_hash. *)
LEMMA TxnReplies ==
  ASSUME NEW t, req[t].op = "txn", NEW S, S = L!Mined(req[t].txn),
         NEW n, n = L!Greatest(S)
  PROVE  L!Replies(t) = { Ok(IF S = {} THEN None
                             ELSE Some(LocalizedTxn(n, Keccak[n], req[t].txn))) }
BY LedgerData, Zenon DEF L!Replies

(* The reply to get_txn_receipt_by_hash. *)
LEMMA ReceiptReplies ==
  ASSUME NEW t, req[t].op = "receipt", NEW S, S = L!Mined(req[t].txn),
         NEW n, n = L!Greatest(S)
  PROVE  L!Replies(t) = { Ok(IF S = {} THEN None
                             ELSE Some(LocalizedReceipt(n, Keccak[n], req[t].txn,
                                                        L!BlockAt(n).logs))) }
BY LedgerData, Zenon DEF L!Replies

(* The replies to get_txn; Latest may stand for any height since the call. *)
LEMMA TxnAtReplies ==
  ASSUME NEW t, req[t].op = "txnAt"
  PROVE  L!Replies(t) = { Ok(L!TxnAt(req[t], m)) :
                            m \in IF req[t].id = Latest THEN since[t] .. L!Height
                                  ELSE {L!Height} }
BY LedgerData, Zenon DEF L!Replies

(* The replies to simulate_transaction. *)
LEMMA SimulateReplies ==
  ASSUME NEW t, req[t].op = "simulate"
  PROVE  L!Replies(t) = { Ok(L!Snapshot(L!Height, req[t].keys)), Err("not executed") }
BY LedgerData, Zenon DEF L!Replies

(* The ledger is as high as the chain. *)
LEMMA LedgerHeight ==
  ASSUME IInv, FilledInv
  PROVE  L!Height = Height
BY ChainEntries, Zenon DEF L!Height

(* Where a transaction lies while no block is half stored: in the block its *)
(* entry of transactions names, and in no other.                            *)
LEMMA MinedIs ==
  ASSUME IInv, DInv, \A u \in Threads : pc[u] \notin Late, NEW x \in Txns
  PROVE  /\ x \notin DOMAIN transactions => L!Mined(x) = {}
         /\ x \in DOMAIN transactions =>
              \E i \in 1 .. Height :
                /\ L!Mined(x) = {i}
                /\ transactions[x] = LocalizedTxn(i, Keccak[i], x)
                /\ receipts[x] = LocalizedReceipt(i, Keccak[i], x, blocks[Keccak[i]].logs)
<1>1. /\ Height \in Nat /\ Height = block_number /\ Sealed(Height)
      /\ DOMAIN block_number_to_hash = 0 .. Height
  BY ChainHeight, Zenon
<1>2. L!Mined(x) = { i \in 1 .. Height : MinedChain[i].txn = x }
  BY LedgerHeight, Zenon DEF DInv, L!Mined
<1>3. ASSUME NEW i \in 1 .. Height
      PROVE  /\ blocks[Keccak[i]].transactions = << MinedChain[i].txn >>
             /\ MinedChain[i].txn \in DOMAIN transactions
             /\ transactions[MinedChain[i].txn] = LocalizedTxn(i, Keccak[i], MinedChain[i].txn)
             /\ receipts[MinedChain[i].txn] =
                  LocalizedReceipt(i, Keccak[i], MinedChain[i].txn, blocks[Keccak[i]].logs)
  <2>1. i \in 0 .. Height /\ i > 0
    BY <1>1
  <2>2. PICK y \in Txns :
          /\ blocks[Keccak[i]].transactions = << y >>
          /\ y \in DOMAIN transactions /\ y \in DOMAIN receipts
          /\ transactions[y] = LocalizedTxn(i, Keccak[i], y)
          /\ receipts[y] = LocalizedReceipt(i, Keccak[i], y, blocks[Keccak[i]].logs)
    BY <1>1, <2>1, Zenon DEF Sealed, BlockOK
  <2>3. blocks[Keccak[i]].transactions = << MinedChain[i].txn >>
    <3>1. blocks[Keccak[i]] =
            NewBlock(i, Keccak[i - 1], MinedChain[i].txn, MinedChain[i].logs)
      BY ChainEntries, Zenon DEF DInv
    <3>2. QED
      BY <3>1 DEF NewBlock
  <2>4. MinedChain[i].txn = y
    BY <2>2, <2>3
  <2>5. QED
    BY <2>2, <2>3, <2>4, Zenon
<1>4. CASE x \notin DOMAIN transactions
  BY <1>2, <1>3, <1>4, Zenon
<1>5. CASE x \in DOMAIN transactions
  <2>1. PICK i : i = transactions[x].block_number
    BY Zenon
  <2>2. i \in 1 .. Height /\ i \in DOMAIN block_number_to_hash
    <3>1. i \in 1 .. block_number
      BY <1>5, <2>1, Zenon DEF IInv, ChainInv, TxnsInv
    <3>2. QED
      BY <1>1, <3>1
  <2>3. blocks[Keccak[i]].transactions = << x >>
    BY <1>5, <2>1, <2>2, Zenon DEF DInv, PlacedInv, Reached
  <2>4. MinedChain[i].txn = x
    <3>1. << MinedChain[i].txn >> = << x >>
      BY <1>3, <2>2, <2>3, Zenon
    <3>2. QED
      BY <3>1
  <2>5. ASSUME NEW j \in 1 .. Height, MinedChain[j].txn = x
        PROVE  j = i
    <3>1. transactions[x] = LocalizedTxn(j, Keccak[j], x)
      BY <1>3, <2>5, Zenon
    <3>2. QED
      BY <2>1, <3>1 DEF LocalizedTxn
  <2>6. L!Mined(x) = {i}
    BY <1>2, <2>2, <2>4, <2>5, Zenon
  <2>7. QED
    BY <1>3, <1>5, <2>2, <2>4, <2>6, Zenon
<1>6. QED
  BY <1>4, <1>5, Zenon

(* A transaction mined once is found in that block. *)
LEMMA OnlyOne == \A i \in Nat : L!Greatest({i}) = i
<1> SUFFICES ASSUME NEW i \in Nat PROVE L!Greatest({i}) = i
  BY Zenon
<1>1. \E n \in {i} : \A m \in {i} : m <= n
  OBVIOUS
<1>2. QED
  BY <1>1, Zenon DEF L!Greatest

(* What get_txn finds in a block of the chain is what the ledger holds. *)
LEMMA TxnAtIs ==
  ASSUME IInv, GenesisInv, FilledInv, NEW r, NEW m,
         NEW i \in 0 .. Height, L!Resolve(r.id, m) = Some(i)
  PROVE  L!TxnAt(r, m) = TxnIn(Some(blocks[Keccak[i]]), r.index)
<1>1. PICK b : b = blocks[Keccak[i]]
  BY Zenon
<1>2. b.number = i /\ b.hash = Keccak[i]
  <2>1. Sealed(Height)
    BY ChainHeight, Zenon
  <2>2. QED
    BY <1>1, <2>1, Zenon DEF Sealed, BlockOK
<1>3. L!BlockAt(i) = b
  BY <1>1, BlockAtIs, Zenon
<1>4. L!TxnAt(r, m) = IF r.index + 1 \in DOMAIN b.transactions
                      THEN Some(LocalizedTxn(i, Keccak[i], b.transactions[r.index + 1]))
                      ELSE None
  <2>1. Some(i) # None /\ Some(i)[1] = i
    BY OptionFacts, Zenon
  <2>2. L!TxnAt(r, m) = LET ts == L!BlockAt(i).transactions IN
           IF r.index + 1 \in DOMAIN ts
           THEN Some(LocalizedTxn(i, Keccak[i], ts[r.index + 1])) ELSE None
    BY <2>1, LedgerData, Zenon DEF L!TxnAt
  <2>3. QED
    BY <1>3, <2>2, Zenon
<1>5. TxnIn(Some(b), r.index) = IF r.index + 1 \in DOMAIN b.transactions
                      THEN Some(LocalizedTxn(b.number, b.hash, b.transactions[r.index + 1]))
                      ELSE None
  <2>1. Some(b) # None /\ Some(b)[1] = b
    BY OptionFacts, Zenon
  <2>2. QED
    BY <2>1, Zenon DEF TxnIn
<1>6. L!TxnAt(r, m) = TxnIn(Some(b), r.index)
  <2>1. CASE r.index + 1 \in DOMAIN b.transactions
    <3>1. PICK y : y = b.transactions[r.index + 1]
      BY Zenon
    <3>2. LocalizedTxn(b.number, b.hash, y) = LocalizedTxn(i, Keccak[i], y)
      BY <1>2, Zenon
    <3>3. /\ L!TxnAt(r, m) = Some(LocalizedTxn(i, Keccak[i], y))
          /\ TxnIn(Some(b), r.index) = Some(LocalizedTxn(b.number, b.hash, y))
      BY <1>4, <1>5, <2>1, <3>1, Zenon
    <3>4. QED
      BY <3>2, <3>3, Zenon
  <2>2. CASE ~ (r.index + 1 \in DOMAIN b.transactions)
    BY <1>4, <1>5, <2>2, Zenon
  <2>3. QED
    BY <2>1, <2>2, Zenon
<1>7. QED
  BY <1>1, <1>6, Zenon

-----------------------------------------------------------------------------
(* What a task that holds the read lock can rely on. *)
LEMMA ReaderFacts ==
  ASSUME IInv, RInv, NEW t \in Threads, pc[t] \in ReaderLabels
  PROVE  /\ writers = {} /\ ~ poisoned /\ req[t] \in Requests /\ Height = block_number
         /\ \A u \in Threads : pc[u] \notin Late
         /\ L!Serving(t)
<1>1. /\ writers = {} /\ t \in readers
      /\ \A u \in Threads : pc[u] \notin Late
  BY NoWriter, ReaderSees, Zenon DEF IInv
<1>2. ~ poisoned
  BY <1>1, Zenon DEF RInv, PoisonInv
<1>3. Progress(t)
  BY Zenon DEF RInv
<1>4. req[t] \in Requests /\ pc[t] \notin {"idle", "done"}
  BY <1>3, Reading, Zenon
<1>5. L!Serving(t)
  BY <1>3, <1>4, LedgerData, Zenon DEF L!Serving, Progress
<1>6. QED
  BY <1>1, <1>2, <1>4, <1>5, ChainHeight, Zenon

(* One look at the maps finds what the ledger holds at that moment. *)
LEMMA LookupAllowed ==
  ASSUME IInv, RInv, DInv, NEW t \in Threads, Lookup(t)
  PROVE  \E x \in L!Replies(t) : Finish(t, x)
<1>0. /\ pc[t] = "reading" /\ pc[t] \in ReaderLabels /\ GenesisInv /\ FilledInv
  BY Zenon DEF Lookup, ReaderLabels, RInv, DInv
<1>1. /\ \A u \in Threads : pc[u] \notin Late
      /\ req[t] \in Requests /\ L!Height = Height /\ Height \in BlockNumbers
  BY <1>0, ReaderFacts, LedgerHeight, ChainHeight, Zenon
<1>2. CASE req[t].op = "block"
  <2>1. PICK id \in BlockIds : id = req[t].id
    BY <1>1, <1>2, QueryFields, Zenon
  <2>2. Finish(t, Ok(GetBlock(id)))
    <3>1. ~ ExpectFails(id)
      BY <1>0, FoundById, Zenon
    <3>2. QED
      BY <1>2, <2>1, <3>1, Zenon DEF Lookup
  <2>3. PICK n : n = L!Resolve(id, Height)
    BY Zenon
  <2>4. L!Replies(t) = { Ok(IF n = None THEN None ELSE Some(L!BlockAt(n[1]))) }
    BY <1>1, <1>2, <2>1, <2>3, BlockReplies, Zenon
  <2>5. CASE n = None
    BY <1>1, <2>2, <2>3, <2>4, <2>5, GetBlockIs, Zenon
  <2>6. ASSUME NEW i \in 0 .. Height, n = Some(i)
        PROVE  Ok(GetBlock(id)) \in L!Replies(t)
    <3>1. GetBlock(id) = Some(blocks[Keccak[i]])
      BY <1>1, <2>3, <2>6, GetBlockIs, Zenon
    <3>2. L!BlockAt(i) = blocks[Keccak[i]]
      BY <1>0, BlockAtIs, Zenon
    <3>3. n # None /\ n[1] = i
      BY <2>6, OptionFacts, Zenon
    <3>4. QED
      BY <2>4, <3>1, <3>2, <3>3, Zenon
  <2>7. QED
    BY <1>1, <2>2, <2>3, <2>5, <2>6, ResolveIs, Zenon
<1>3. CASE req[t].op \in {"txn", "receipt"}
  <2>1. PICK x \in Txns : x = req[t].txn
    BY <1>1, <1>3, QueryFields, Zenon
  <2>2. PICK S : S = L!Mined(x)
    BY Zenon
  <2>3. /\ req[t].op = "txn" => Finish(t, Ok(Get(transactions, x)))
        /\ req[t].op = "receipt" => Finish(t, Ok(Get(receipts, x)))
    BY <2>1, Zenon DEF Lookup
  <2>4. DOMAIN transactions = DOMAIN receipts
    BY <1>0, ReaderSees, Zenon
  <2>5. CASE x \notin DOMAIN transactions
    <3>1. S = {} /\ Get(transactions, x) = None /\ Get(receipts, x) = None
      BY <1>1, <2>2, <2>4, <2>5, MinedIs, Zenon DEF Get
    <3>2. CASE req[t].op = "txn"
      <4>1. L!Replies(t) = { Ok(None) }
        BY <2>1, <2>2, <3>1, <3>2, TxnReplies, Zenon
      <4>2. QED
        BY <2>3, <3>1, <3>2, <4>1, Zenon
    <3>3. CASE req[t].op = "receipt"
      <4>1. L!Replies(t) = { Ok(None) }
        BY <2>1, <2>2, <3>1, <3>3, ReceiptReplies, Zenon
      <4>2. QED
        BY <2>3, <3>1, <3>3, <4>1, Zenon
    <3>4. QED
      BY <1>3, <3>2, <3>3, Zenon
  <2>6. CASE x \in DOMAIN transactions
    <3>1. PICK i \in 1 .. Height :
            /\ S = {i} /\ transactions[x] = LocalizedTxn(i, Keccak[i], x)
            /\ receipts[x] = LocalizedReceipt(i, Keccak[i], x, blocks[Keccak[i]].logs)
      BY <1>1, <2>2, <2>6, MinedIs, Zenon
    <3>2. i \in Nat /\ i \in 0 .. Height
      BY <3>1, ChainHeight
    <3>3. S # {} /\ L!Greatest(S) = i /\ L!BlockAt(i) = blocks[Keccak[i]]
      BY <1>0, <3>1, <3>2, OnlyOne, BlockAtIs, Zenon
    <3>4. CASE req[t].op = "txn"
      <4>1. L!Replies(t) = { Ok(Some(LocalizedTxn(i, Keccak[i], x))) }
        BY <2>1, <2>2, <3>3, <3>4, TxnReplies, Zenon
      <4>2. Get(transactions, x) = Some(LocalizedTxn(i, Keccak[i], x))
        BY <2>6, <3>1, Zenon DEF Get
      <4>3. QED
        BY <2>3, <3>4, <4>1, <4>2, Zenon
    <3>5. CASE req[t].op = "receipt"
      <4>1. L!Replies(t) = { Ok(Some(LocalizedReceipt(i, Keccak[i], x, blocks[Keccak[i]].logs))) }
        <5>1. L!Replies(t) = { Ok(IF S = {} THEN None
                                  ELSE Some(LocalizedReceipt(i, Keccak[i], req[t].txn,
                                                             L!BlockAt(i).logs))) }
          <6>1. i = L!Greatest(S) /\ S = L!Mined(req[t].txn)
            BY <2>1, <2>2, <3>3, Zenon
          <6>2. QED
            BY <3>5, <6>1, ReceiptReplies, Zenon
        <5>2. QED
          BY <2>1, <3>3, <5>1, Zenon
      <4>2. Get(receipts, x) =
              Some(LocalizedReceipt(i, Keccak[i], x, blocks[Keccak[i]].logs))
        BY <2>4, <2>6, <3>1, Zenon DEF Get
      <4>3. QED
        BY <2>3, <3>5, <4>1, <4>2, Zenon
    <3>6. QED
      BY <1>3, <3>4, <3>5, Zenon
  <2>7. QED
    BY <2>5, <2>6, Zenon
<1>4. CASE req[t].op = "txnAt"
  <2>1. PICK id \in BlockIds : id = req[t].id
    BY <1>1, <1>4, QueryFields, Zenon
  <2>2. id # Latest /\ Finish(t, Ok(TxnIn(GetBlock(id), req[t].index)))
    BY <1>4, <2>1, Zenon DEF Lookup
  <2>3. L!Replies(t) = { Ok(L!TxnAt(req[t], m)) : m \in {Height} }
    BY <1>1, <1>4, <2>1, <2>2, TxnAtReplies, Zenon
  <2>4. L!TxnAt(req[t], Height) = TxnIn(GetBlock(id), req[t].index)
    <3>1. CASE L!Resolve(id, Height) = None
      <4>1. L!TxnAt(req[t], Height) = None
        BY <2>1, <3>1, LedgerData, Zenon DEF L!TxnAt
      <4>2. GetBlock(id) = None
        BY <1>1, <3>1, GetBlockIs, Zenon
      <4>3. QED
        BY <4>1, <4>2, Zenon DEF TxnIn
    <3>2. ASSUME NEW i \in 0 .. Height, L!Resolve(id, Height) = Some(i)
          PROVE  L!TxnAt(req[t], Height) = TxnIn(GetBlock(id), req[t].index)
      <4>1. L!TxnAt(req[t], Height) = TxnIn(Some(blocks[Keccak[i]]), req[t].index)
        BY <1>0, <2>1, <3>2, TxnAtIs, Zenon
      <4>2. GetBlock(id) = Some(blocks[Keccak[i]])
        BY <1>1, <3>2, GetBlockIs, Zenon
      <4>3. QED
        BY <4>1, <4>2, Zenon
    <3>3. QED
      BY <1>1, <3>1, <3>2, ResolveIs, Zenon
  <2>5. QED
    BY <2>2, <2>3, <2>4, Zenon
<1>5. QED
  BY <1>2, <1>3, <1>4, Zenon DEF Lookup

(* The second look of get_txn(Latest) finds the transaction of a block that *)
(* was the best one at some moment since the call.                          *)
LEMMA ReadTxnAllowed ==
  ASSUME IInv, RInv, DInv, NEW t \in Threads, ReadTxnOfBest(t)
  PROVE  \E x \in L!Replies(t) : Finish(t, x)
<1>0. /\ pc[t] = "reading2" /\ pc[t] \in ReaderLabels /\ req[t].op = "txnAt"
      /\ GenesisInv /\ FilledInv /\ Progress(t)
      /\ Finish(t, Ok(TxnIn(GetBlockByNumber(from[t][1]), req[t].index)))
  BY Zenon DEF ReadTxnOfBest, ReaderLabels, RInv, DInv
<1>1. PICK i \in BlockNumbers : from[t] = Some(i) /\ Reached(i)
  BY <1>0, Zenon DEF Progress
<1>2. /\ from[t][1] = i /\ i \in 0 .. Height /\ since[t] \in 0 .. Height /\ since[t] <= i
      /\ req[t].id = Latest /\ Height \in Nat
  <2>1. from[t][1] = i /\ from[t] # None
    BY <1>1, OptionFacts, Zenon
  <2>2. since[t] <= i /\ req[t].id = Latest
    BY <1>0, <2>1, Zenon DEF Progress
  <2>3. i \in 0 .. Height /\ since[t] \in 0 .. Height /\ Height \in Nat
    BY <1>0, <1>1, ChainHeight, Zenon DEF Progress, Reached
  <2>4. QED
    BY <2>1, <2>2, <2>3, Zenon
<1>3. i \in since[t] .. Height
  BY <1>2
<1>4. L!Replies(t) = { Ok(L!TxnAt(req[t], m)) : m \in since[t] .. Height }
  BY <1>0, <1>2, TxnAtReplies, LedgerHeight, Zenon
<1>5. L!Resolve(req[t].id, i) = Some(i)
  BY <1>2, LedgerData DEF Latest, L!Resolve
<1>6. L!TxnAt(req[t], i) = TxnIn(Some(blocks[Keccak[i]]), req[t].index)
  BY <1>0, <1>2, <1>5, TxnAtIs, Zenon
<1>7. GetBlockByNumber(from[t][1]) = Some(blocks[Keccak[i]])
  BY <1>2, ByNumber, Zenon
<1>8. Finish(t, Ok(L!TxnAt(req[t], i)))
  BY <1>0, <1>6, <1>7, Zenon
<1>9. QED
  BY <1>3, <1>4, <1>8, Zenon

(* simulate_transaction has read the accounts of one block. *)
LEMMA SimulateAllowed ==
  ASSUME IInv, RInv, DInv, NEW t \in Threads, SimulateDone(t) \/ SimulateErr(t)
  PROVE  \E x \in L!Replies(t) : Finish(t, x)
<1>0. /\ pc[t] = "simulate" /\ pc[t] \in ReaderLabels /\ Progress(t)
      /\ \/ todo[t] = {} /\ Finish(t, Ok(seen[t]))
         \/ Finish(t, Err("not executed"))
  BY Zenon DEF SimulateDone, SimulateErr, ReaderLabels, RInv
<1>1. /\ req[t].op = "simulate" /\ req[t] \in Requests /\ writers = {} /\ ~ poisoned
      /\ seen[t] = { << a, mkvs[a] >> : a \in req[t].keys \ todo[t] }
      /\ L!Height = Height
  BY <1>0, ReaderFacts, LedgerHeight, Zenon DEF Progress, DInv
<1>2. L!Replies(t) = { Ok(L!Snapshot(Height, req[t].keys)), Err("not executed") }
  BY <1>1, SimulateReplies, Zenon
<1>3. CASE Finish(t, Err("not executed"))
  BY <1>2, <1>3, Zenon
<1>4. CASE todo[t] = {} /\ Finish(t, Ok(seen[t]))
  <2>1. \A a \in req[t].keys : a \in Accounts
    BY <1>1, RequestFields, Zenon
  <2>2. \A a \in req[t].keys : mkvs[a] = L!AccountAt(Height, a)
    BY <1>1, <2>1, Replayed, Zenon DEF DatabaseIsReplay
  <2>3. seen[t] = { << a, L!AccountAt(Height, a) >> : a \in req[t].keys }
    <3>1. req[t].keys \ todo[t] = req[t].keys
      BY <1>4, Zenon
    <3>2. seen[t] = { << a, mkvs[a] >> : a \in req[t].keys }
      BY <1>1, <3>1, Zenon
    <3>3. QED
      BY <2>2, <3>2
  <2>4. seen[t] = L!Snapshot(Height, req[t].keys)
    BY <2>3, Zenon DEF L!Snapshot
  <2>5. QED
    BY <1>2, <1>4, <2>4, Zenon
<1>5. QED
  BY <1>0, <1>3, <1>4, Zenon

(* The queries end in one atomic step of the ledger. *)
LEMMA QueryStep ==
  ASSUME IInv, RInv, DInv, NEW t \in Threads,
         Lookup(t) \/ ReadTxnOfBest(t) \/ SimulateDone(t) \/ SimulateErr(t)
  PROVE  L!Query(t)
<1>1. \E x \in L!Replies(t) : Finish(t, x)
  BY LookupAllowed, ReadTxnAllowed, SimulateAllowed, Zenon
<1>2. /\ pc[t] \in ReaderLabels /\ Progress(t)
      /\ UNCHANGED << req, since, poisoned, blocks, block_number_to_hash >>
  BY Zenon DEF Lookup, ReadTxnOfBest, SimulateDone, SimulateErr, ReaderLabels, ReleaseRead,
               reqVars, chainVars, mapVars, RInv
<1>3. MinedChain' = MinedChain
  BY <1>2, SameChain, Zenon DEF Grows
<1>4. req[t].op # "send"
  BY Zenon DEF Lookup, ReadTxnOfBest, SimulateDone, SimulateErr, RInv, Progress
<1>5. L!Serving(t) /\ ~ poisoned
  BY <1>2, ReaderFacts, Zenon
<1>6. \E x \in L!Replies(t) : L!Reply(t, x)
  BY <1>1, Zenon DEF Finish, L!Reply
<1>7. QED
  BY <1>2, <1>3, <1>4, <1>5, <1>6, Zenon DEF L!Query

-----------------------------------------------------------------------------
(* A task that has been called and has not replied. *)
LEMMA ServingIs ==
  ASSUME RInv, NEW t \in Threads, pc[t] \notin {"idle", "done"}
  PROVE  L!Serving(t)
BY LedgerData, Zenon DEF RInv, Progress, L!Serving

(* Only the last insert of mine_block extends the chain. *)
LEMMA ChainKept ==
  ASSUME IInv, NEW t \in Threads,
         Step(t) \/ Return(t) \/ \E r \in Requests : Call(t, r),
         ~ StoreIndex(t)
  PROVE  MinedChain' = MinedChain
BY IndexKept, MapsGrow, SameChain, Zenon

(* The best block that mine_block and simulate_transaction expect is there. *)
LEMMA BestThere ==
  ASSUME IInv, NEW t \in Threads, pc[t] = "execute" \/ pc[t] \in ReaderLabels
  PROVE  GetBlockByNumber(block_number) # None
<1>1. \A u \in Threads : pc[u] \notin Late
  <2>1. CASE pc[t] = "execute"
    <3>1. pc[t] \in WriterLabels /\ pc[t] \notin Late
      BY <2>1, Zenon DEF WriterLabels, Late
    <3>2. \A u \in Threads \ {t} : pc[u] \notin WriterLabels
      BY <3>1, Miner, Zenon
    <3>3. \A l \in Late : l \in WriterLabels
      BY Zenon DEF Late, WriterLabels
    <3>4. QED
      BY <3>1, <3>2, <3>3, Zenon
  <2>2. CASE pc[t] \in ReaderLabels
    BY <2>2, ReaderSees, Zenon
  <2>3. QED
    BY <2>1, <2>2, Zenon
<1>2. block_number = Height /\ Height \in Nat
  BY <1>1, ChainHeight, Zenon
<1>3. block_number \in 0 .. Height
  BY <1>2
<1>4. GetBlockByNumber(block_number) = Some(blocks[Keccak[block_number]])
  BY <1>3, ByNumber, Zenon
<1>5. QED
  BY <1>4, OptionFacts, Zenon

(* A request that send_raw_transaction refuses leaves no trace. *)
LEMMA CheckStep ==
  ASSUME IInv, RInv, NEW t \in Threads, CheckTxn(t)
  PROVE  L!Refuse(t) \/ UNCHANGED L!vars
<1>0. /\ pc[t] = "check" /\ Step(t) /\ ~ StoreIndex(t)
      /\ UNCHANGED << req, since, poisoned >>
  BY Zenon DEF CheckTxn, Step, StoreIndex, reqVars, lockVars
<1>1. MinedChain' = MinedChain /\ L!Serving(t)
  BY <1>0, ChainKept, ServingIs, Zenon
<1>2. req[t].op = "send"
  BY <1>0, Zenon DEF IInv, ChainInv, MinerInv
<1>3. CASE Refusal(req[t].txn) = None
  BY <1>0, <1>1, <1>3, Zenon DEF CheckTxn, L!vars
<1>4. CASE Refusal(req[t].txn) # None
  <2>1. res' = [res EXCEPT ![t] = Err(Refusal(req[t].txn)[1])]
    BY <1>4, Zenon DEF CheckTxn, Finish
  <2>2. QED
    BY <1>0, <1>1, <1>2, <1>4, <2>1, LedgerData, Zenon DEF L!Refuse, L!Reply
<1>5. QED
  BY <1>3, <1>4, Zenon

(* Whoever meets a poisoned lock dies; otherwise taking it is no step of    *)
(* the ledger.                                                              *)
LEMMA AcquireStep ==
  ASSUME IInv, RInv, NEW t \in Threads, AcquireWrite(t) \/ AcquireRead(t)
  PROVE  L!Abort(t) \/ UNCHANGED L!vars
<1>0. /\ pc[t] \notin {"idle", "done"} /\ Step(t) /\ ~ StoreIndex(t)
      /\ UNCHANGED << req, since, poisoned >>
  BY Zenon DEF AcquireWrite, AcquireRead, Waiting, Step, MineBlock, Query, StoreIndex, reqVars
<1>1. MinedChain' = MinedChain /\ L!Serving(t)
  BY <1>0, ChainKept, ServingIs, Zenon
<1>2. CASE poisoned
  <2>1. res' = [res EXCEPT ![t] = Panicked]
    BY <1>2, Zenon DEF AcquireWrite, AcquireRead, Finish
  <2>2. QED
    BY <1>0, <1>1, <1>2, <2>1, LedgerData, Zenon DEF L!Abort, L!Reply
<1>3. CASE ~ poisoned
  BY <1>0, <1>1, <1>3, Zenon DEF AcquireWrite, AcquireRead, L!vars
<1>4. QED
  BY <1>2, <1>3, Zenon

(* state.apply succeeds, which the ledger does not see, or fails, which     *)
(* leaves no trace.                                                         *)
LEMMA ExecuteStep ==
  ASSUME IInv, RInv, NEW t \in Threads, Execute(t) \/ ExecuteErr(t)
  PROVE  L!Refuse(t) \/ UNCHANGED L!vars
<1>0. /\ pc[t] = "execute" /\ pc[t] \in WriterLabels /\ Step(t) /\ ~ StoreIndex(t)
      /\ UNCHANGED << req, since >> /\ pc[t] \notin {"idle", "done"}
  BY Zenon DEF Execute, ExecuteErr, WriterLabels, Step, MineBlock, StoreIndex, reqVars
<1>1. /\ MinedChain' = MinedChain /\ L!Serving(t)
      /\ GetBlockByNumber(block_number) # None
  BY <1>0, ChainKept, ServingIs, BestThere, Zenon
<1>2. req[t].op = "send" /\ Refusal(req[t].txn) = None /\ ~ poisoned
  BY <1>0, OnlyWriter, Zenon DEF IInv, ChainInv, MinerInv, RInv, Progress, PoisonInv
<1>3. CASE Execute(t)
  BY <1>0, <1>1, <1>3, Zenon DEF Execute, lockVars, L!vars
<1>4. CASE ExecuteErr(t)
  <2>1. res' = [res EXCEPT ![t] = Err("not executed")] /\ poisoned' = poisoned
    BY <1>1, <1>4, Zenon DEF ExecuteErr, ReleaseWrite, Finish
  <2>2. QED
    BY <1>0, <1>1, <1>2, <2>1, LedgerData, Zenon DEF L!Refuse, L!Reply
<1>5. QED
  BY <1>3, <1>4, Zenon

(* A panic in mine_block halts the ledger; one in a simulation does not. *)
LEMMA PanicStep ==
  ASSUME IInv, RInv, NEW t \in Threads, MinePanic(t) \/ SimulatePanic(t)
  PROVE  L!Abort(t)
<1>0. /\ pc[t] \notin {"idle", "done"} /\ Step(t) /\ ~ StoreIndex(t)
      /\ UNCHANGED << req, since >>
      /\ res' = [res EXCEPT ![t] = Panicked]
  BY Zenon DEF MinePanic, SimulatePanic, PoisonWrite, Finish, Step, MineBlock, Query,
               StoreIndex, reqVars
<1>1. MinedChain' = MinedChain /\ L!Serving(t)
  BY <1>0, ChainKept, ServingIs, Zenon
<1>2. CASE MinePanic(t)
  <2>1. pc[t] \in WriterLabels /\ poisoned' = TRUE
    BY <1>2, Zenon DEF MinePanic, PoisonWrite, WriterLabels
  <2>2. req[t].op = "send" /\ Refusal(req[t].txn) = None
    BY <2>1, Zenon DEF IInv, ChainInv, MinerInv, RInv, Progress
  <2>3. QED
    BY <1>0, <1>1, <2>1, <2>2, LedgerData, Zenon DEF L!Abort, L!Reply
<1>3. CASE SimulatePanic(t)
  <2>1. req[t].op = "simulate" /\ poisoned' = poisoned
    BY <1>3, Zenon DEF SimulatePanic, ReleaseRead, RInv, Progress
  <2>2. QED
    BY <1>0, <1>1, <2>1, LedgerData, Zenon DEF L!Abort, L!Reply
<1>4. QED
  BY <1>2, <1>3, Zenon

(* The last insert of mine_block is the moment the transaction is mined. *)
LEMMA MineStep ==
  ASSUME IInv, RInv, DInv, NEW t \in Threads, StoreIndex(t)
  PROVE  L!Mine(t)
<1>0. /\ pc[t] = "index" /\ pc[t] \in WriterLabels /\ pc[t] \in Building
      /\ pc[t] \notin {"idle", "done"}
      /\ UNCHANGED << req, since, poisoned >>
      /\ res' = [res EXCEPT ![t] = Ok(req[t].txn)]
  BY Zenon DEF StoreIndex, WriterLabels, Building, ReleaseWrite, Finish, reqVars
<1>1. req[t].op = "send" /\ Refusal(req[t].txn) = None /\ ~ poisoned /\ L!Serving(t)
  <2>1. req[t].op = "send" /\ Refusal(req[t].txn) = None
    BY <1>0, Zenon DEF IInv, ChainInv, MinerInv, RInv, Progress
  <2>2. ~ poisoned
    BY <1>0, OnlyWriter, Zenon DEF IInv, RInv, PoisonInv
  <2>3. QED
    BY <1>0, <2>1, <2>2, ServingIs, Zenon
<1>2. \E k \in 0 .. MaxLogs :
        MinedChain' = Append(MinedChain, [txn |-> req[t].txn, logs |-> k])
  BY NewChain, Zenon DEF DInv
<1>3. req[t].txn.nonce = L!AccountAt(L!Height, req[t].txn.sender).nonce
  <2>1. req[t].txn.nonce = AccountOf(MinedChain, Height, req[t].txn.sender).nonce
    BY <1>0, Zenon DEF DInv, CommitInv
  <2>2. L!Height = Height
    BY LedgerHeight, Zenon DEF DInv
  <2>3. L!AccountAt(Height, req[t].txn.sender) =
          AccountOf(MinedChain, Height, req[t].txn.sender)
    BY AccountIs, Zenon
  <2>4. QED
    BY <2>1, <2>2, <2>3, Zenon
<1>4. QED
  BY <1>0, <1>1, <1>2, <1>3, LedgerData, Zenon DEF L!Mine, L!Reply

(* The steps that the ledger does not see. *)
LEMMA HiddenStep ==
  ASSUME IInv, RInv, NEW t \in Threads,
         \/ CommitKey(t) \/ SetBlockNumber(t) \/ StoreTxn(t) \/ StoreReceipt(t)
         \/ StoreBlock(t) \/ ReadBestNumber(t) \/ BeginSimulation(t) \/ SimulateRead(t)
         \/ TakeState(t) \/ HandleRead(t)
  PROVE  UNCHANGED L!vars
<1>1. Step(t) /\ ~ StoreIndex(t) /\ UNCHANGED << req, since >>
  BY Zenon DEF CommitKey, SetBlockNumber, StoreTxn, StoreReceipt, StoreBlock, ReadBestNumber,
               BeginSimulation, SimulateRead, TakeState, HandleRead, ReadKey, Step, MineBlock,
               Query, StoreIndex, reqVars
<1>2. MinedChain' = MinedChain
  BY <1>1, ChainKept, Zenon
<1>3. BeginSimulation(t) => GetBlockByNumber(block_number) # None
  BY BestThere, Zenon DEF BeginSimulation, ReaderLabels
<1>4. res' = res /\ poisoned' = poisoned
  BY <1>3, Zenon DEF CommitKey, SetBlockNumber, StoreTxn, StoreReceipt, StoreBlock,
                     ReadBestNumber, BeginSimulation, SimulateRead, TakeState, HandleRead,
                     ReadKey, ReleaseRead, lockVars
<1>5. QED
  BY <1>1, <1>2, <1>4, Zenon DEF L!vars

(* A request arrives, a reply leaves. *)
LEMMA ClientStep ==
  ASSUME IInv, RInv, DInv, NEW t \in Threads, Return(t) \/ \E r \in Requests : Call(t, r)
  PROVE  L!Return(t) \/ \E r \in Requests : L!Call(t, r)
<1>1. pc[t] \in {"idle", "done"} /\ ~ StoreIndex(t) /\ poisoned' = poisoned
  BY Zenon DEF Return, Call, StoreIndex, lockVars
<1>2. MinedChain' = MinedChain
  BY <1>1, ChainKept, Zenon
<1>3. CASE Return(t)
  BY <1>1, <1>2, <1>3, LedgerData, Zenon DEF Return, L!Return, RInv, Progress
<1>4. CASE \E r \in Requests : Call(t, r)
  <2>1. PICK r \in Requests : Call(t, r)
    BY <1>4, Zenon
  <2>2. L!Height = Height
    BY LedgerHeight, Zenon DEF DInv
  <2>3. req[t] = NoRequest
    BY <2>1, Zenon DEF Call, RInv, Progress
  <2>4. L!Call(t, r)
    BY <1>1, <1>2, <2>1, <2>2, <2>3, LedgerData, Zenon DEF Call, L!Call
  <2>5. QED
    BY <2>4, Zenon
<1>5. QED
  BY <1>3, <1>4, Zenon

(* A reply of logs() or of a handle of state(): from a running task, to a   *)
(* request of that kind, and nothing else changes.                          *)
Loose(t) ==
  /\ L!Serving(t) /\ req[t].op \in {"state", "logs"}
  /\ \E x : x # Panicked /\ L!Reply(t, x)
  /\ UNCHANGED << MinedChain, req, since, poisoned >>

(* The steps of logs() and the last one of a handle of state(). *)
LEMMA LooseStep ==
  ASSUME IInv, RInv, RInv', NEW t \in Threads,
         ResolveFrom(t) \/ ResolveTo(t) \/ FetchBlock(t) \/ HandleDone(t)
  PROVE  Loose(t) \/ UNCHANGED L!vars
<1>0. /\ pc[t] \notin {"idle", "done"} /\ Step(t) /\ ~ StoreIndex(t)
      /\ UNCHANGED << req, since, poisoned >>
      /\ req[t].op \in {"state", "logs"}
  <2>1. Progress(t)
    BY Zenon DEF RInv
  <2>2. QED
    BY <2>1, Zenon DEF ResolveFrom, ResolveTo, FetchBlock, HandleDone, ReleaseRead, Step,
                       Query, StoreIndex, reqVars, lockVars, Progress
<1>1. MinedChain' = MinedChain /\ L!Serving(t)
  BY <1>0, ChainKept, ServingIs, Zenon
<1>2. res' = res \/ \E x : res' = [res EXCEPT ![t] = x]
  BY Zenon DEF ResolveFrom, ResolveTo, FetchBlock, HandleDone, Finish
<1>3. CASE res' = res
  BY <1>0, <1>1, <1>3, Zenon DEF L!vars
<1>4. CASE \E x : res' = [res EXCEPT ![t] = x]
  <2>1. PICK x : res' = [res EXCEPT ![t] = x]
    BY <1>4, Zenon
  <2>2. res'[t] = x
    BY <2>1, Zenon DEF RInv, Shape
  <2>3. CASE x # Panicked
    BY <1>0, <1>1, <2>1, <2>3, Zenon DEF Loose, L!Reply
  <2>4. CASE x = Panicked
    <3>1. poisoned
      BY <1>0, <2>2, <2>4, Zenon DEF RInv, Answer
    <3>2. HandleDone(t)
      BY <3>1, ReaderFacts, Zenon DEF ResolveFrom, ResolveTo, FetchBlock, ReaderLabels
    <3>3. res' = [res EXCEPT ![t] = Ok(seen[t])]
      BY <3>2, Zenon DEF HandleDone, Finish
    <3>4. res'[t] = Ok(seen[t])
      BY <3>3, Zenon DEF RInv, Shape
    <3>5. Ok(seen[t]) # Panicked
      BY DEF Ok, Panicked
    <3>6. QED
      BY <2>2, <2>4, <3>4, <3>5, Zenon
  <2>5. QED
    BY <2>3, <2>4, Zenon
<1>5. QED
  BY <1>2, <1>3, <1>4, Zenon

(* Every step of Blockchain is one of the ledger's, or none. *)
LEMMA NextImplements ==
  ASSUME IInv, RInv, RInv', DInv, [Next]_vars
  PROVE  [L!Next \/ \E t \in Threads : Loose(t)]_(L!vars)
<1>1. CASE UNCHANGED vars
  <2>1. UNCHANGED << req, since, res, poisoned, blocks, block_number_to_hash >>
    BY <1>1, Zenon DEF vars, reqVars, lockVars, chainVars, mapVars
  <2>2. MinedChain' = MinedChain
    BY <2>1, SameChain, Zenon DEF Grows
  <2>3. QED
    BY <2>1, <2>2, Zenon DEF L!vars
<1>2. CASE Next
  <2>1. PICK t \in Threads : Step(t) \/ Return(t) \/ \E r \in Requests : Call(t, r)
    BY <1>2, Zenon DEF Next
  <2>2. CASE Return(t) \/ \E r \in Requests : Call(t, r)
    BY <2>2, ClientStep, Zenon DEF L!Next
  <2>3. CASE CheckTxn(t)
    BY <2>3, CheckStep, Zenon DEF L!Next
  <2>4. CASE MineBlock(t)
    <3>1. CASE AcquireWrite(t)
      BY <3>1, AcquireStep, Zenon DEF L!Next
    <3>2. CASE Execute(t) \/ ExecuteErr(t)
      BY <3>2, ExecuteStep, Zenon DEF L!Next
    <3>3. CASE MinePanic(t)
      BY <3>3, PanicStep, Zenon DEF L!Next
    <3>4. CASE StoreIndex(t)
      BY <3>4, MineStep, Zenon DEF L!Next
    <3>5. CASE CommitKey(t) \/ SetBlockNumber(t) \/ StoreTxn(t) \/ StoreReceipt(t) \/ StoreBlock(t)
      BY <3>5, HiddenStep, Zenon
    <3>6. QED
      BY <2>4, <3>1, <3>2, <3>3, <3>4, <3>5, Zenon DEF MineBlock
  <2>5. CASE Query(t)
    <3>1. CASE AcquireRead(t)
      BY <3>1, AcquireStep, Zenon DEF L!Next
    <3>2. CASE Lookup(t) \/ ReadTxnOfBest(t) \/ SimulateDone(t) \/ SimulateErr(t)
      BY <3>2, QueryStep, Zenon DEF L!Next
    <3>3. CASE SimulatePanic(t)
      BY <3>3, PanicStep, Zenon DEF L!Next
    <3>4. CASE ReadBestNumber(t) \/ BeginSimulation(t) \/ SimulateRead(t) \/ TakeState(t)
                 \/ HandleRead(t)
      BY <3>4, HiddenStep, Zenon
    <3>5. CASE ResolveFrom(t) \/ ResolveTo(t) \/ FetchBlock(t) \/ HandleDone(t)
      BY <3>5, LooseStep, Zenon
    <3>6. QED
      BY <2>5, <3>1, <3>2, <3>3, <3>4, <3>5, Zenon DEF Query
  <2>6. QED
    BY <2>1, <2>2, <2>3, <2>4, <2>5, Zenon DEF Step
<1>3. QED
  BY <1>1, <1>2, Zenon

(* The genesis block is the empty ledger. *)
LEMMA InitImplements ==
  Init => L!Init
<1> SUFFICES ASSUME Init PROVE L!Init
  BY Zenon
<1>1. IInv
  BY InitIInv, Zenon
<1>2. DOMAIN block_number_to_hash = {0}
  BY DEF Init
<1>3. Height = 0
  BY <1>1, <1>2, ChainHeight
<1>4. MinedChain = << >>
  BY <1>3 DEF MinedChain
<1>5. QED
  BY <1>4, LedgerData, Zenon DEF Init, L!Init
=============================================================================

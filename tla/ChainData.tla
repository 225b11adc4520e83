----------------------------- MODULE ChainData -----------------------------
(***************************************************************************)
(* The data of the simulated chain: transactions, blocks, log entries and  *)
(* the JSON-RPC requests that reach the Blockchain object                  *)
(* (src/src/blockchain.rs).  Shared by the abstract ledger (Ledger) and by *)
(* the threaded implementation (Blockchain).                               *)
(*                                                                         *)
(* Hashes.  A transaction stands for its own hash: both maps keyed by      *)
(* txn.hash() are keyed by the transaction.  A block's hash is             *)
(* keccak(number.to_string()), here Keccak[number], assumed injective.     *)
(***************************************************************************)
EXTENDS Naturals, FiniteSets, Sequences

CONSTANTS
  Threads,        \* tasks that serve requests concurrently
  Accounts,       \* keys of the state database
  Txns,           \* raw transactions clients may submit
  Requests,       \* requests clients may issue
  Keccak,         \* block number -> block hash
  BlockGasLimit,  \* Blockchain.block_gas_limit
  MinGasPrice,    \* Blockchain.gas_price
  MaxBlock,       \* bound: no block is mined above this number
  MaxLogs         \* bound: log entries one transaction may emit

(***************************************************************************)
(* Options and hash maps of the Rust code.                                 *)
(***************************************************************************)
None == << >>

Some(x) == << x >>

Options(S) == {None} \cup { Some(x) : x \in S }

(* HashMap::insert *)
Insert(map, key, value) ==
  [k \in DOMAIN map \cup {key} |-> IF k = key THEN value ELSE map[k]]

(* HashMap::get(..).cloned() *)
Get(map, key) ==
  IF key \in DOMAIN map THEN Some(map[key]) ELSE None

-----------------------------------------------------------------------------
BlockNumbers == 0 .. MaxBlock

(* An account of the state database: its nonce, and the block that last     *)
(* wrote it, which stands for everything else the account holds.            *)
AccountStates == [nonce : Nat, written : BlockNumbers]

(* What send_raw_transaction can tell of a raw transaction: whether the RLP *)
(* decodes, whether the signature recovers, and the fields it looks at.     *)
TxnType ==
  [id : Nat, decodes : BOOLEAN, signed : BOOLEAN, sender : Accounts,
   to : Accounts, nonce : Nat, gas : Nat, gas_price : Nat]

(* The accounts whose entries a transaction's execution rewrites.           *)
Touched(txn) == {txn.sender, txn.to}

(* LocalizedLogEntry *)
LogEntry(number, txn, i) ==
  [block_number |-> number, transaction_hash |-> txn, log_index |-> i]

LogEntries == [block_number : BlockNumbers, transaction_hash : Txns,
               log_index : Nat]

(* EthereumBlock::new, then block.transactions and block.logs as mine_block *)
(* fills them in for a transaction that emitted n log entries.              *)
NewBlock(number, parent_hash, txn, n) ==
  [number |-> number, hash |-> Keccak[number], parent_hash |-> parent_hash,
   transactions |-> << txn >>,
   logs |-> [i \in 1 .. n |-> LogEntry(number, txn, i - 1)]]

(* H256::zero(), the parent of the genesis block. *)
ZeroHash == "zero"

Genesis ==
  [number |-> 0, hash |-> Keccak[0], parent_hash |-> ZeroHash,
   transactions |-> << >>, logs |-> << >>]

Hashes == { Keccak[n] : n \in BlockNumbers }

Blocks ==
  [number : BlockNumbers, hash : Hashes, parent_hash : Hashes \cup {ZeroHash},
   transactions : Seq(Txns), logs : Seq(LogEntries)]

(* LocalizedTransaction *)
LocalizedTxn(number, hash, txn) ==
  [signed |-> txn, block_number |-> number, block_hash |-> hash,
   transaction_index |-> 0]

(* LocalizedReceipt *)
LocalizedReceipt(number, hash, txn, logs) ==
  [transaction_hash |-> txn, block_number |-> number, block_hash |-> hash,
   transaction_index |-> 0, logs |-> logs]

LocalizedTxns ==
  [signed : Txns, block_number : BlockNumbers, block_hash : Hashes,
   transaction_index : {0}]

LocalizedReceipts ==
  [transaction_hash : Txns, block_number : BlockNumbers, block_hash : Hashes,
   transaction_index : {0}, logs : Seq(LogEntries)]

-----------------------------------------------------------------------------
(***************************************************************************)
(* Requests.  A block identifier is a number, a hash or "latest";          *)
(* BlockId::Earliest is number 0.                                          *)
(***************************************************************************)
Number(n) == [tag |-> "number", number |-> n]

Hash(h) == [tag |-> "hash", hash |-> h]

Latest == [tag |-> "latest"]

BlockIds == [tag : {"number"}, number : Nat]
              \cup [tag : {"hash"}, hash : Hashes]
              \cup {Latest}

RequestType ==
  [op : {"send"}, txn : Txns]                           \* send_raw_transaction
    \cup [op : {"block"}, id : BlockIds]                \* get_block
    \cup [op : {"txn", "receipt"}, txn : Txns]          \* get_txn(_receipt)_by_hash
    \cup [op : {"txnAt"}, id : BlockIds, index : Nat]   \* get_txn
    \cup [op : {"logs"}, from : BlockIds, to : BlockIds,
          matches : SUBSET Txns]                        \* logs
    \cup [op : {"simulate", "state"}, id : BlockIds,
          keys : SUBSET Accounts]                       \* simulate_transaction, state

(* The early returns of send_raw_transaction, in order; None when the       *)
(* transaction goes on to mine_block.                                       *)
Refusal(txn) ==
  IF ~ txn.decodes                    THEN Some("could not decode")
  ELSE IF txn.gas > BlockGasLimit     THEN Some("gas above block gas limit")
  ELSE IF ~ txn.signed                THEN Some("invalid signature")
  ELSE IF txn.gas_price < MinGasPrice THEN Some("insufficient gas price")
  ELSE None

(* Replies. *)
Ok(x) == [tag |-> "ok", val |-> x]

Err(e) == [tag |-> "err", val |-> e]

Panicked == [tag |-> "panic"]    \* the task died, the client gets no answer

NoReply == [tag |-> "none"]

NoRequest == [op |-> "none"]

-----------------------------------------------------------------------------
ASSUME BoundsAssumption ==
  /\ MaxBlock \in Nat
  /\ MaxLogs \in Nat
  /\ BlockGasLimit \in Nat
  /\ MinGasPrice \in Nat

ASSUME TxnsAssumption == Txns \subseteq TxnType

ASSUME RequestsAssumption == Requests \subseteq RequestType

(* keccak has no collisions on the decimal representations of the block     *)
(* numbers, and none of them hashes to zero.                                *)
ASSUME KeccakAssumption ==
  /\ Keccak \in [BlockNumbers -> Hashes]
  /\ \A m, n \in BlockNumbers : Keccak[m] = Keccak[n] => m = n
  /\ ZeroHash \notin Hashes

ASSUME FiniteAccounts == IsFiniteSet(Accounts)
=============================================================================

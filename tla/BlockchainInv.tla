--------------------------- MODULE BlockchainInv ---------------------------
(***************************************************************************)
(* The inductive invariant behind Blockchain!MapsAgree.  MapsAgree says    *)
(* what holds between two runs of mine_block; the invariant also says, for *)
(* every statement of mine_block, how far the maps have got.               *)
(***************************************************************************)
EXTENDS Blockchain

WriterLabels == {"execute", "commit", "number", "txn", "receipt", "block", "index"}

ReaderLabels == {"reading", "reading2", "fetching", "simulate"}

(* mine_block has built its block. *)
Building == WriterLabels \ {"execute"}

(* mine_block has moved block_number. *)
Late == {"txn", "receipt", "block", "index"}

(* The lock is held by those who are between acquiring and releasing it:    *)
(* one writer, or readers.                                                  *)
LockInv ==
  /\ writers = { t \in Threads : pc[t] \in WriterLabels }
  /\ readers = { t \in Threads : pc[t] \in ReaderLabels }
  /\ \A t, u \in writers : t = u
  /\ writers # {} => readers = {}

(* The block t builds has number n. *)
BlockIs(t, n) ==
  /\ n \in 1 .. MaxBlock
  /\ block[t].number = n /\ block[t].hash = Keccak[n]
  /\ block[t].parent_hash = Keccak[n - 1]
  /\ block[t].transactions = << req[t].txn >>

(* A transaction being mined is new to the maps until it is stored, and its *)
(* nonce is used up from the moment its sender's account is committed.      *)
MinerInv ==
  \A t \in Threads :
    /\ pc[t] \in {"check", "write"} \cup WriterLabels =>
         req[t] \in Requests /\ req[t].op = "send"
    /\ pc[t] \in {"commit", "number"} => BlockIs(t, block_number + 1)
    /\ pc[t] \in Late => BlockIs(t, block_number)
    /\ pc[t] \in {"commit", "number", "txn"} => req[t].txn \notin DOMAIN transactions
    /\ pc[t] \in Building =>
         LET txn == req[t].txn IN
           IF pc[t] = "commit" /\ txn.sender \in todo[t]
           THEN txn.nonce = mkvs[txn.sender].nonce
           ELSE txn.nonce < mkvs[txn.sender].nonce

HashesTo(n) == { Keccak[i] : i \in 0 .. n }

(* Block i is linked to its parent, and its transaction and receipt to it.  *)
BlockOK(i) ==
  LET b == blocks[Keccak[i]] IN
    /\ b.number = i /\ b.hash = Keccak[i]
    /\ b.parent_hash = IF i = 0 THEN ZeroHash ELSE Keccak[i - 1]
    /\ i > 0 => \E x \in Txns :
                  /\ b.transactions = << x >>
                  /\ x \in DOMAIN transactions /\ x \in DOMAIN receipts
                  /\ transactions[x] = LocalizedTxn(i, Keccak[i], x)
                  /\ receipts[x] = LocalizedReceipt(i, Keccak[i], x, b.logs)

(* The chain up to block n is complete. *)
Sealed(n) ==
  /\ DOMAIN block_number_to_hash = 0 .. n
  /\ \A i \in 0 .. n :
       /\ block_number_to_hash[i] = Keccak[i]
       /\ Keccak[i] \in DOMAIN blocks
       /\ BlockOK(i)

(* Mined transactions lie on the chain and have used up their nonce. *)
TxnsInv ==
  \A x \in DOMAIN transactions :
    /\ transactions[x].block_number \in 1 .. block_number
    /\ x.nonce < mkvs[x.sender].nonce

(* Between two runs of mine_block, and inside one as far as the commit.     *)
EarlyInv ==
  (\A t \in Threads : pc[t] \notin Late) =>
    /\ Sealed(block_number)
    /\ DOMAIN blocks = HashesTo(block_number)
    /\ DOMAIN transactions = DOMAIN receipts

(* Inside mine_block once block_number has moved. *)
LateInv ==
  \A t \in Threads : pc[t] \in Late =>
    LET txn == req[t].txn
        n   == block_number
    IN /\ Sealed(n - 1)
       /\ DOMAIN blocks = IF pc[t] = "index" THEN HashesTo(n) ELSE HashesTo(n - 1)
       /\ pc[t] = "index" => blocks[Keccak[n]] = block[t]
       /\ pc[t] # "txn" => /\ txn \in DOMAIN transactions
                           /\ transactions[txn] = LocalizedTxn(n, Keccak[n], txn)
       /\ pc[t] \in {"block", "index"} =>
            /\ txn \in DOMAIN receipts
            /\ receipts[txn] = LocalizedReceipt(n, Keccak[n], txn, block[t].logs)
       /\ pc[t] = "receipt" => txn \notin DOMAIN receipts
       /\ DOMAIN transactions =
            IF pc[t] = "receipt" THEN DOMAIN receipts \cup {txn} ELSE DOMAIN receipts

ChainInv == MinerInv /\ TxnsInv /\ EarlyInv /\ LateInv

(* At every statement of every thread: the lock is held by whom pc says,    *)
(* and the maps of ChainState are as far as mine_block has brought them     *)
(* (blockchain.rs:311-446).                                                 *)
IInv == TypeOK /\ LockInv /\ ChainInv
=============================================================================
